--------------------------- MODULE Visits_proofs ---------------------------
(***************************************************************************)
(* Proofs about Visits, for any users, browsers, addresses, roles, rights,  *)
(* times to live and bounds: accounts and what belongs to them, the         *)
(* identity of a visit, the age of the permissions it is given, and what a  *)
(* browser that keeps its copy of a page may miss; and the types of all of  *)
(* the variables.                                                          *)
(***************************************************************************)
EXTENDS Visits, TLAPS, SequenceTheorems

---------------------------------------------------------------------------
(* Accounts.  Only the transactions of administrators touch them. *)

Making == [user : Users, id : Ids, email : Emails \cup {None}]

AccountsTyped ==
    /\ work \in Nat
    /\ rows \in [Users -> Account]
    /\ creds \subseteq [userId : Users \cup Emails, user : Users, id : Ids]
    /\ assigned \subseteq [user : Users, role : Roles, id : Ids]
    /\ making \subseteq Making

\* An id is the number of the transaction that made the account, so no two
\* accounts share one, and an account whose credential is still to be made has
\* the address it was made with, unless somebody has edited it.  If another one
\* has its name by now, that is on record.
IdsAreOwn ==
    /\ \A u \in Users : rows[u].id <= work
    /\ \A u, v \in Users : rows[u].id # 0 /\ rows[u].id = rows[v].id => u = v
    /\ \A m \in making :
          /\ m.id <= work /\ m.id # 0
          /\ \A u \in Users : rows[u].id = m.id =>
                 /\ u = m.user
                 /\ m.email = rows[u].email \/ m.id \in locked
          /\ rows[m.user].id \in {0, m.id}
                \/ [id |-> m.id, by |-> rows[m.user].id] \in overtaken

AccountsInv == AccountsTyped /\ IdsAreOwn /\ RightsEndWithAccount /\ AccountsCanLogIn

LEMMA MadeAre ==
    ASSUME AccountsTyped, IdsAreOwn
    PROVE  /\ work \in Nat
           /\ \A m \in making : /\ m \in Making /\ m.user \in Users /\ m.id \in Nat
                                /\ m.id # 0 /\ m.id <= work
<1>1. \A m \in making : m \in Making
  BY DEF AccountsTyped
<1>2. \A m \in making : m.user \in Users /\ m.id \in Nat
  BY <1>1, BoundsAreNat DEF Making, Ids
<1>3. \A m \in making : m.id <= work /\ m.id # 0
  BY DEF IdsAreOwn
<1> QED
  BY <1>1, <1>2, <1>3 DEF AccountsTyped

LEMMA AccountsInit == Init => AccountsInv
BY BoundsAreNat DEF Init, AccountsInv, AccountsTyped, IdsAreOwn, RightsEndWithAccount,
   AccountsCanLogIn, Live, NoAccount, Account, Ids, Making

\* createUser takes a new id, and the cascade leaves nothing of the old row.
LEMMA CreateUserKeepsAccounts ==
    ASSUME AccountsInv, NEW u \in Users, NEW e \in Emails \cup {None}, CreateUser(u, e)
    PROVE  AccountsInv'
<1> USE BoundsAreNat DEF AccountsInv
<1>1. /\ work' = work + 1 /\ work' \in Ids
      /\ rows' = [rows EXCEPT ![u] = NewAccount(e)]
      /\ creds' = {c \in creds : c.user # u}
      /\ assigned' = {a \in assigned : a.user # u}
      /\ making' = making \cup {[user |-> u, id |-> work + 1, email |-> e]}
      /\ locked' = locked
      /\ overtaken' = overtaken \cup {[id |-> m.id, by |-> work + 1] :
                                         m \in {x \in making : x.user = u}}
  BY DEF CreateUser, Cascade, Overtake, Work, AccountsTyped, Ids
<1>2. AccountsTyped'
  BY <1>1 DEF AccountsTyped, NewAccount, Account, Ids, Making
<1>3. IdsAreOwn'
  <2>1. /\ rows'[u].id = work + 1 /\ rows'[u].email = e
        /\ \A v \in Users \ {u} : rows'[v] = rows[v]
    BY <1>1 DEF AccountsTyped, NewAccount
  <2>2. \A v \in Users : rows'[v].id <= work'
    BY <1>1, <2>1 DEF IdsAreOwn, AccountsTyped, Account, Ids
  <2>3. \A v, w \in Users : rows'[v].id # 0 /\ rows'[v].id = rows'[w].id => v = w
    BY <1>1, <2>1 DEF IdsAreOwn, AccountsTyped, Account, Ids
  <2>4. ASSUME NEW m \in making', m \in making
        PROVE  /\ m.id <= work' /\ m.id # 0
               /\ \A v \in Users : rows'[v].id = m.id =>
                      v = m.user /\ (m.email = rows'[v].email \/ m.id \in locked')
               /\ rows'[m.user].id \in {0, m.id}
                     \/ [id |-> m.id, by |-> rows'[m.user].id] \in overtaken'
    <3>1. m.id <= work /\ m.id # 0 /\ m.id \in Nat /\ m.user \in Users /\ work \in Nat
      BY <2>4, MadeAre
    <3>2. \A v \in Users : rows'[v].id = m.id => v # u
      BY <2>1, <3>1
    <3>3. \A v \in Users \ {u} : rows[v].id = m.id =>
             v = m.user /\ (m.email = rows[v].email \/ m.id \in locked)
      BY <2>4 DEF IdsAreOwn
    <3>4. m.user = u => [id |-> m.id, by |-> rows'[m.user].id] \in overtaken'
      BY <1>1, <2>1, <2>4
    <3>5. m.user # u => \/ rows'[m.user].id \in {0, m.id}
                        \/ [id |-> m.id, by |-> rows'[m.user].id] \in overtaken'
      <4>1. \/ rows[m.user].id \in {0, m.id}
            \/ [id |-> m.id, by |-> rows[m.user].id] \in overtaken
        BY <2>4 DEF IdsAreOwn
      <4>2. overtaken \subseteq overtaken'
        BY <1>1
      <4> QED
        BY <2>1, <3>1, <4>1, <4>2
    <3> QED
      BY <1>1, <2>1, <3>1, <3>2, <3>3, <3>4, <3>5
  <2>5. ASSUME NEW m \in making', m \notin making
        PROVE  /\ m.id <= work' /\ m.id # 0
               /\ \A v \in Users : rows'[v].id = m.id =>
                      v = m.user /\ (m.email = rows'[v].email \/ m.id \in locked')
               /\ rows'[m.user].id \in {0, m.id}
    <3>1. m = [user |-> u, id |-> work + 1, email |-> e] /\ work \in Nat
      BY <1>1, <2>5 DEF AccountsTyped
    <3>2. m.user = u /\ m.id = work + 1 /\ m.email = e
      BY <3>1
    <3>3. \A v \in Users : rows'[v].id = m.id => v = u
      BY <2>1, <2>3, <3>1, <3>2
    <3> QED
      BY <1>1, <2>1, <3>1, <3>2, <3>3
  <2> QED
    BY <2>2, <2>3, <2>4, <2>5 DEF IdsAreOwn
<1>4. RightsEndWithAccount'
  <2>1. \A v \in Users \ {u} : rows'[v] = rows[v]
    BY <1>1 DEF AccountsTyped
  <2>2. /\ \A a \in assigned' : a \in assigned /\ a.user \in Users \ {u}
        /\ \A c \in creds' : c \in creds /\ c.user \in Users \ {u}
        /\ overtaken \subseteq overtaken'
    BY <1>1 DEF AccountsTyped
  <2> QED
    BY <2>1, <2>2 DEF RightsEndWithAccount
<1>5. AccountsCanLogIn'
  <2>1. [user |-> u, id |-> work + 1, email |-> e] \in making'
    BY <1>1
  <2>2. rows'[u].id = work + 1
    BY <1>1 DEF AccountsTyped, NewAccount
  <2>3. \A v \in Users \ {u} : rows'[v] = rows[v]
    BY <1>1 DEF AccountsTyped
  <2>4. \A v \in Users \ {u}, c \in creds : c.user = v => c \in creds'
    BY <1>1
  <2> SUFFICES ASSUME NEW v \in Users, Live(v)', rows'[v].id \notin locked',
                      \A m \in making' : m.id # rows'[v].id
               PROVE  \E c \in creds' : c.userId = rows'[v].email /\ c.user = v /\ c.id = rows'[v].id
    BY DEF AccountsCanLogIn
  <2>5. v # u
    BY <2>1, <2>2
  <2> QED
    BY <2>3, <2>4, <2>5, <1>1 DEF AccountsCanLogIn, Live
<1> QED
  BY <1>2, <1>3, <1>4, <1>5

\* createCredential: the credential goes to whatever account has the name now, and
\* keeps the id of the one it was made for.
LEMMA FinishUserKeepsAccounts ==
    ASSUME AccountsInv, NEW m \in making, FinishUser(m)
    PROVE  AccountsInv'
<1> USE BoundsAreNat DEF AccountsInv
<1>1. /\ m \in Making
      /\ UNCHANGED <<work, rows, assigned, overtaken>>
      /\ making' = making \ {m}
      /\ locked \subseteq locked'
  BY DEF FinishUser, AccountsTyped
<1>2. UserId(m) \in Users \cup Emails
  BY <1>1 DEF UserId, Making
<1>3. \/ /\ rows[m.user].id # 0
         /\ creds' = creds \cup {[userId |-> UserId(m), user |-> m.user, id |-> m.id]}
         /\ m.email = None => m.id \in locked'
      \/ creds' = creds /\ m.id \in locked'
  BY DEF FinishUser
<1>4. AccountsTyped'
  BY <1>1, <1>2, <1>3 DEF AccountsTyped, Making, Account
<1>5. IdsAreOwn'
  BY <1>1 DEF IdsAreOwn, AccountsTyped
<1>6. RightsEndWithAccount'
  <2>1. \/ rows[m.user].id = 0 \/ rows[m.user].id = m.id
        \/ [id |-> m.id, by |-> rows[m.user].id] \in overtaken
    BY DEF IdsAreOwn
  <2>2. ASSUME NEW c \in creds'
        PROVE  rows[c.user].id = c.id \/ [id |-> c.id, by |-> rows[c.user].id] \in overtaken
    BY <1>3, <2>1 DEF RightsEndWithAccount
  <2> QED
    BY <1>1, <2>2 DEF RightsEndWithAccount
<1>7. AccountsCanLogIn'
  <2> SUFFICES ASSUME NEW u \in Users, Live(u), rows[u].id \notin locked',
                      \A n \in making' : n.id # rows[u].id
               PROVE  \E c \in creds' : c.userId = rows[u].email /\ c.user = u /\ c.id = rows[u].id
    BY <1>1 DEF AccountsCanLogIn, Live
  <2>1. CASE m.id # rows[u].id
    BY <2>1, <1>1, <1>3 DEF AccountsCanLogIn
  <2>2. CASE m.id = rows[u].id
    <3>1. u = m.user /\ m.email = rows[u].email
      BY <2>2, <1>1 DEF IdsAreOwn
    <3>2. m.email # None /\ UserId(m) = m.email
      BY <2>2, <1>3 DEF UserId
    <3>3. [userId |-> UserId(m), user |-> m.user, id |-> m.id] \in creds'
      BY <2>2, <1>3
    <3> QED
      BY <2>2, <3>1, <3>2, <3>3
  <2> QED
    BY <2>1, <2>2
<1> QED
  BY <1>4, <1>5, <1>6, <1>7

\* What else becomes of an account, and of its roles.
LEMMA AdministrationKeepsAccounts ==
    ASSUME AccountsInv, Administration
    PROVE  AccountsInv'
<1> USE BoundsAreNat DEF AccountsInv
<1>1. ASSUME NEW x \in Variable, Permit(x) \/ Deny(x)
      PROVE  AccountsInv'
  <2>1. UNCHANGED <<rows, creds, assigned, making, locked, overtaken>> /\ work' = work + 1
    BY <1>1 DEF Permit, Deny, Work, accounts
  <2>2. AccountsTyped'
    BY <2>1 DEF AccountsTyped
  <2>3. IdsAreOwn'
    BY <2>1 DEF IdsAreOwn, AccountsTyped, Account, Ids, Making
  <2>4. RightsEndWithAccount' /\ AccountsCanLogIn'
    BY <2>1 DEF RightsEndWithAccount, AccountsCanLogIn, Live
  <2> QED
    BY <2>2, <2>3, <2>4
<1>2. ASSUME NEW u \in Users, NEW r \in Roles, Assign(u, r) \/ Deassign(u, r)
      PROVE  AccountsInv'
  <2>1. /\ UNCHANGED <<rows, creds, making, locked, overtaken>>
        /\ work' = work + 1
        /\ \A a \in assigned' : a \in assigned \/ a = [user |-> u, role |-> r, id |-> rows[u].id]
    BY <1>2 DEF Assign, Deassign, Work
  <2>2. AccountsTyped'
    BY <2>1 DEF AccountsTyped, Account
  <2>3. IdsAreOwn'
    BY <2>1 DEF IdsAreOwn, AccountsTyped, Account, Ids, Making
  <2>4. RightsEndWithAccount'
    BY <2>1 DEF RightsEndWithAccount
  <2>5. AccountsCanLogIn'
    BY <2>1 DEF AccountsCanLogIn, Live
  <2> QED
    BY <2>2, <2>3, <2>4, <2>5
<1>3. ASSUME NEW m \in making, LoseUser(m)
      PROVE  AccountsInv'
  <2>1. /\ UNCHANGED <<work, rows, creds, assigned, overtaken>>
        /\ making' = making \ {m} /\ locked' = locked \cup {m.id}
    BY <1>3 DEF LoseUser
  <2>2. AccountsTyped' /\ IdsAreOwn' /\ RightsEndWithAccount'
    BY <2>1 DEF AccountsTyped, IdsAreOwn, RightsEndWithAccount
  <2>3. AccountsCanLogIn'
    BY <2>1 DEF AccountsCanLogIn, Live
  <2> QED
    BY <2>2, <2>3
<1>4. ASSUME NEW u \in Users, NEW e \in Emails \cup {None}, NEW d \in BOOLEAN, EditUser(u, e, d)
      PROVE  AccountsInv'
  <2>1. /\ UNCHANGED <<creds, assigned, making, overtaken>>
        /\ work' = work + 1
        /\ rows' = [rows EXCEPT ![u] = [rows[u] EXCEPT !.email = e, !.disabled = d]]
        /\ locked \subseteq locked'
        /\ e = rows[u].email \/ rows[u].id \in locked'
    BY <1>4 DEF EditUser, Work, AccountsTyped
  <2>2. /\ \A v \in Users \ {u} : rows'[v] = rows[v]
        /\ rows'[u].id = rows[u].id /\ rows'[u].stub = rows[u].stub /\ rows'[u].email = e
    BY <2>1 DEF AccountsTyped, Account
  <2>3. AccountsTyped'
    <3>1. rows' \in [Users -> Account]
      BY <2>1 DEF AccountsTyped, Account
    <3> QED
      BY <3>1, <2>1 DEF AccountsTyped
  <2>4. IdsAreOwn'
    <3>1. \A v \in Users : rows'[v].id = rows[v].id
      BY <2>2
    <3>2. \A v \in Users : rows'[v].id <= work'
      BY <2>1, <3>1 DEF IdsAreOwn, AccountsTyped, Account, Ids
    <3>3. ASSUME NEW m \in making', NEW v \in Users, rows'[v].id = m.id
          PROVE  v = m.user /\ (m.email = rows'[v].email \/ m.id \in locked')
      <4>1. m \in making /\ rows[v].id = m.id
        BY <2>1, <3>1, <3>3
      <4>2. v = m.user /\ (m.email = rows[v].email \/ m.id \in locked)
        BY <4>1 DEF IdsAreOwn
      <4>3. CASE v = u
        BY <2>1, <2>2, <4>1, <4>2, <4>3
      <4>4. CASE v # u
        BY <2>1, <2>2, <4>2, <4>4
      <4> QED
        BY <4>3, <4>4
    <3>4. \A m \in making' : m.id <= work' /\ m.id # 0
      BY <2>1, MadeAre
    <3>5. \A m \in making : m.user \in Users
      BY MadeAre
    <3> QED
      BY <2>1, <3>1, <3>2, <3>3, <3>4, <3>5 DEF IdsAreOwn
  <2>5. RightsEndWithAccount'
    BY <2>1, <2>2 DEF RightsEndWithAccount, AccountsTyped
  <2>6. AccountsCanLogIn'
    BY <2>1, <2>2 DEF AccountsCanLogIn, Live
  <2> QED
    BY <2>3, <2>4, <2>5, <2>6
<1>5. ASSUME NEW u \in Users, DeleteUser(u)
      PROVE  AccountsInv'
  <2>1. /\ UNCHANGED <<creds, assigned, making, locked, overtaken>>
        /\ work' = work + 1
        /\ rows' = [rows EXCEPT ![u] = [rows[u] EXCEPT !.stub = TRUE]]
    BY <1>5 DEF DeleteUser, Work, AccountsTyped
  <2>2. \A v \in Users : /\ rows'[v].id = rows[v].id /\ rows'[v].email = rows[v].email
                         /\ Live(v)' => Live(v)
    BY <2>1 DEF AccountsTyped, Account, Live
  <2>3. AccountsTyped'
    <3>1. rows' \in [Users -> Account]
      BY <2>1 DEF AccountsTyped, Account
    <3> QED
      BY <3>1, <2>1 DEF AccountsTyped
  <2>4. IdsAreOwn'
    BY <2>1, <2>2 DEF IdsAreOwn, AccountsTyped, Account, Making, Ids
  <2>5. RightsEndWithAccount'
    BY <2>1, <2>2 DEF RightsEndWithAccount, AccountsTyped
  <2>6. AccountsCanLogIn'
    BY <2>1, <2>2 DEF AccountsCanLogIn
  <2> QED
    BY <2>3, <2>4, <2>5, <2>6
<1>6. ASSUME NEW u \in Users, PurgeUser(u)
      PROVE  AccountsInv'
  <2>1. /\ UNCHANGED <<making, locked, overtaken>>
        /\ work' = work + 1
        /\ rows' = [rows EXCEPT ![u] = NoAccount]
        /\ creds' = {c \in creds : c.user # u}
        /\ assigned' = {a \in assigned : a.user # u}
    BY <1>6 DEF PurgeUser, Cascade, Work
  <2>2. /\ \A v \in Users \ {u} : rows'[v] = rows[v]
        /\ rows'[u].id = 0
    BY <2>1 DEF AccountsTyped, NoAccount
  <2>3. AccountsTyped'
    BY <2>1 DEF AccountsTyped, Account, NoAccount, Ids
  <2>4. IdsAreOwn'
    <3>1. \A v \in Users : rows'[v].id <= work'
      BY <2>1, <2>2 DEF IdsAreOwn, AccountsTyped, Account, Ids
    <3>2. \A v, w \in Users : rows'[v].id # 0 /\ rows'[v].id = rows'[w].id => v = w
      BY <2>2 DEF IdsAreOwn
    <3>3. ASSUME NEW m \in making'
          PROVE  /\ m.id <= work' /\ m.id # 0
                 /\ \A v \in Users : rows'[v].id = m.id =>
                        v = m.user /\ (m.email = rows'[v].email \/ m.id \in locked')
      <4>1. m \in making /\ work' = work + 1 /\ locked' = locked
        BY <2>1, <3>3
      <4>2. m.id <= work' /\ m.id # 0
        BY <4>1, MadeAre
      <4>3. ASSUME NEW v \in Users, rows'[v].id = m.id
            PROVE  v = m.user /\ (m.email = rows'[v].email \/ m.id \in locked)
        <5>1. rows'[v] = rows[v]
          BY <2>2, <4>2, <4>3
        <5> QED
          BY <4>1, <4>3, <5>1 DEF IdsAreOwn
      <4> QED
        BY <4>1, <4>2, <4>3
    <3>4. ASSUME NEW m \in making'
          PROVE  \/ rows'[m.user].id \in {0, m.id}
                 \/ [id |-> m.id, by |-> rows'[m.user].id] \in overtaken'
      BY <2>1, <2>2, MadeAre DEF IdsAreOwn
    <3> QED
      BY <3>1, <3>2, <3>3, <3>4 DEF IdsAreOwn
  <2>5. RightsEndWithAccount'
    BY <2>1, <2>2 DEF RightsEndWithAccount, AccountsTyped
  <2>6. AccountsCanLogIn'
    BY <2>1, <2>2 DEF AccountsCanLogIn, Live
  <2> QED
    BY <2>3, <2>4, <2>5, <2>6
<1> QED
  BY <1>1, <1>2, <1>3, <1>4, <1>5, <1>6, CreateUserKeepsAccounts, FinishUserKeepsAccounts
  DEF Administration

\* Editors and visitors touch no account.
LEMMA OthersKeepAccounts ==
    ASSUME AccountsInv, UNCHANGED <<work, accounts>>
    PROVE  AccountsInv'
<1>1. UNCHANGED <<work, rows, creds, assigned, making, locked, overtaken>>
  BY DEF accounts
<1>2. AccountsTyped' /\ IdsAreOwn'
  BY <1>1 DEF AccountsInv, AccountsTyped, IdsAreOwn, Account, Ids, Making
<1>3. RightsEndWithAccount' /\ AccountsCanLogIn'
  BY <1>1 DEF AccountsInv, RightsEndWithAccount, AccountsCanLogIn, Live
<1> QED
  BY <1>2, <1>3 DEF AccountsInv

\* What an editor leaves alone.
LEMMA EditingIsApart ==
    ASSUME Editing
    PROVE  UNCHANGED <<now, work, topCache, accounts, rights, logins, copies, visits>>
BY DEF Editing, SavePage, DeletePage, MovePage, Write, SaveAgain, PublishSave, PublishDelete,
   PublishMove, Published, PurgePage

LEMMA EditingTouchesNoAccount ==
    ASSUME Editing \/ Tick \/ \E b \in Browsers : Visiting(b)
    PROVE  UNCHANGED <<work, accounts>>
<1>1. CASE Editing
  BY <1>1, EditingIsApart
<1>2. CASE Tick
  BY <1>2 DEF Tick
<1>3. ASSUME NEW b \in Browsers, Visiting(b)
      PROVE  UNCHANGED <<work, accounts>>
  BY <1>3 DEF Visiting, AskForSession, AskForToken, FindAccount, GrantSession, GrantToken,
     FinishLogIn, LogOut, ArriveAsNobody, ArriveBySession, ArriveByToken, Enter,
     FetchPermissions, PermissionsAreHere, FetchEntity, CheckAgain, AgainIsHere, Freshen,
     TopIsHere, Render
<1> QED
  BY <1>1, <1>2, <1>3

THEOREM AccountsInvariant == Spec => []AccountsInv
<1>1. ASSUME AccountsInv, [Next]_vars
      PROVE  AccountsInv'
  <2>1. CASE UNCHANGED vars
    BY <1>1, <2>1, OthersKeepAccounts DEF vars, accounts
  <2>2. CASE Next
    BY <1>1, <2>2, AdministrationKeepsAccounts, EditingTouchesNoAccount, OthersKeepAccounts
    DEF Next
  <2> QED
    BY <1>1, <2>1, <2>2
<1> QED
  BY AccountsInit, <1>1, PTL DEF Spec

\* Roles never outlive the account they were given to, however accounts of one name
\* come and go; a password does only if the next account of the name was made before
\* it was stored (createCredential has the path and no entityId).
THEOREM RightsGoWithAccounts == Spec => []RightsEndWithAccount
<1>1. AccountsInv => RightsEndWithAccount
  BY DEF AccountsInv
<1> QED
  BY <1>1, AccountsInvariant, PTL

\* An account with an address that nobody edited, and whose credential was
\* stored, can log in with its own password.
THEOREM AccountsLogIn == Spec => []AccountsCanLogIn
<1>1. AccountsInv => AccountsCanLogIn
  BY DEF AccountsInv
<1> QED
  BY <1>1, AccountsInvariant, PTL

---------------------------------------------------------------------------
(* The identity of a visit. *)

Fields == DOMAIN NoVisit

\* A request w of a browser that holds the login l: without a request nobody is
\* logged in, and a visit has the account of the login it came with.
Sound(w, l) ==
    /\ w = [f \in Fields |-> w[f]]
    /\ w.user \in Users \cup {None}
    /\ w.at = "idle" => w.user = None
    /\ w.at = "login" => w.user \in Users
    /\ w.user # None => w.id = l.id \/ w.at = "login"

VisitsInv ==
    /\ visits = [b \in Browsers |-> visits[b]]
    /\ logins = [b \in Browsers |-> logins[b]]
    /\ \A b \in Browsers : /\ Sound(visits[b], logins[b])
                           /\ logins[b].kind # None => logins[b].user \in Users

LEMMA FieldsAre ==
    Fields = {"at", "kind", "user", "id", "email", "disabled", "may", "since", "rev", "top"}
BY DEF Fields, NoVisit

LEMMA NoVisitIsSound == ASSUME NEW l PROVE Sound(NoVisit, l)
BY FieldsAre DEF Sound, NoVisit

\* The stages of a visit, once it has arrived.
Staging(b) ==
    \/ FetchPermissions(b) \/ PermissionsAreHere(b) \/ FetchEntity(b)
    \/ CheckAgain(b) \/ AgainIsHere(b) \/ Freshen(b) \/ TopIsHere(b) \/ Render(b)

\* They pass on whose it is, or end it.
NextStage(v, w) ==
    \/ w = NoVisit
    \/ /\ v.at \notin {"idle", "login"} /\ w.at \notin {"idle", "login"}
       /\ w.user = v.user /\ w.id = v.id /\ w = [f \in Fields |-> w[f]]

LEMMA StagesFollow ==
    ASSUME NEW b \in Browsers, Sound(visits[b], logins[b]), Staging(b)
    PROVE  \E w : NextStage(visits[b], w) /\ visits' = [visits EXCEPT ![b] = w]
<1> DEFINE v == visits[b]
           Goes(w) == NextStage(v, w) /\ visits' = [visits EXCEPT ![b] = w]
<1>1. v = [f \in Fields |-> v[f]]
  BY DEF Sound
<1>2. v.at \notin {"idle", "login"}
  BY DEF Staging, FetchPermissions, PermissionsAreHere, FetchEntity, CheckAgain,
     AgainIsHere, Freshen, TopIsHere, Render
<1>3. /\ \A at, may : at \notin {"idle", "login"} => NextStage(v, [v EXCEPT !.at = at, !.may = may])
      /\ \A at, rev : at \notin {"idle", "login"} => NextStage(v, [v EXCEPT !.at = at, !.rev = rev])
      /\ \A at, top : at \notin {"idle", "login"} => NextStage(v, [v EXCEPT !.at = at, !.top = top])
      /\ \A at : at \notin {"idle", "login"} => NextStage(v, [v EXCEPT !.at = at])
  BY <1>1, <1>2, FieldsAre DEF NextStage
<1>4. /\ \A at, may, since : at \notin {"idle", "login"} =>
            NextStage(v, [v EXCEPT !.at = at, !.may = may, !.since = since])
      /\ \A at, top, since : at \notin {"idle", "login"} =>
            NextStage(v, [v EXCEPT !.at = at, !.top = top, !.since = since])
      /\ NextStage(v, NoVisit)
  <2>1. ASSUME NEW at, NEW may, NEW since, at \notin {"idle", "login"}
        PROVE  NextStage(v, [v EXCEPT !.at = at, !.may = may, !.since = since])
    BY <1>1, <1>2, <2>1, FieldsAre DEF NextStage
  <2>2. ASSUME NEW at, NEW top, NEW since, at \notin {"idle", "login"}
        PROVE  NextStage(v, [v EXCEPT !.at = at, !.top = top, !.since = since])
    BY <1>1, <1>2, <2>2, FieldsAre DEF NextStage
  <2>3. NextStage(v, NoVisit)
    BY DEF NextStage
  <2> QED
    BY <2>1, <2>2, <2>3
<1>5. \A perms : NextStage(v, WithPermissions(v, perms))
  BY <1>3, <1>4 DEF WithPermissions
<1>6. \A top : WithTop(b, top) => \E w : Goes(w)
  BY <1>3, <1>4 DEF WithTop, Go
<1>7. CASE FetchPermissions(b) \/ PermissionsAreHere(b)
  BY <1>4, <1>5, <1>7 DEF FetchPermissions, PermissionsAreHere, Go
<1>8. CASE FetchEntity(b)
  <2> DEFINE w == CASE ~Allowed(v) \/ ~HasPage(Home) -> NoVisit
                    [] Allowed(v) /\ Options(v.kind).effective -> [v EXCEPT !.at = "again"]
                    [] Allowed(v) /\ v.kind = "view" ->
                          [v EXCEPT !.at = "fresh", !.rev = table[Home].rev]
                    [] OTHER -> NoVisit
  <2>1. w \in {NoVisit, [v EXCEPT !.at = "again"],
                [v EXCEPT !.at = "fresh", !.rev = table[Home].rev]}
    OBVIOUS
  <2>2. visits' = [visits EXCEPT ![b] = w]
    BY <1>8 DEF FetchEntity, Go
  <2> HIDE DEF w
  <2> QED
    BY <1>3, <1>4, <2>1, <2>2
<1>9. CASE CheckAgain(b) \/ AgainIsHere(b)
  BY <1>4, <1>9 DEF CheckAgain, AgainIsHere, Go
<1>10. CASE Freshen(b)
  BY <1>4, <1>6, <1>10 DEF Freshen, Go
<1>11. CASE TopIsHere(b)
  BY <1>6, <1>11 DEF TopIsHere
<1>12. CASE Render(b)
  BY <1>4, <1>12 DEF Render, Go
<1> QED
  BY <1>7, <1>8, <1>9, <1>10, <1>11, <1>12 DEF Staging

\* Steps that change one browser's request, and maybe its login.
LEMMA OneBrowser ==
    ASSUME VisitsInv, NEW b \in Browsers, NEW w, NEW l,
           visits' = [visits EXCEPT ![b] = w], logins' = [logins EXCEPT ![b] = l],
           Sound(w, l), l.kind # None => l.user \in Users
    PROVE  VisitsInv'
BY DEF VisitsInv

LEMMA VisitingKeepsIdentity ==
    ASSUME VisitsInv, NEW b \in Browsers, Visiting(b)
    PROVE  VisitsInv'
<1> DEFINE v == visits[b]
           l == logins[b]
<1>1. /\ Sound(v, l) /\ (l.kind # None => l.user \in Users)
      /\ logins = [logins EXCEPT ![b] = l]
      /\ visits = [visits EXCEPT ![b] = v]
  BY DEF VisitsInv
<1>2. ASSUME NEW u \in Users, AskForSession(b, u) \/ AskForToken(b, u)
      PROVE  VisitsInv'
  <2>1. PICK kind : FindAccount(b, u, kind)
    BY <1>2 DEF AskForSession, AskForToken
  <2> DEFINE w == [NoVisit EXCEPT !.at = "login", !.kind = kind, !.user = u,
                                  !.id = rows[u].id, !.email = rows[u].email,
                                  !.disabled = rows[u].disabled]
  <2>2. visits' = [visits EXCEPT ![b] = w] /\ logins' = logins
    BY <2>1 DEF FindAccount, Go
  <2>3. Sound(w, l)
    BY FieldsAre DEF Sound, NoVisit
  <2> QED
    BY <1>1, <2>2, <2>3, OneBrowser
<1>3. CASE GrantSession(b) \/ GrantToken(b)
  <2>1. v.at = "login" /\ visits' = [visits EXCEPT ![b] = NoVisit]
    BY <1>3 DEF GrantSession, GrantToken, FinishLogIn, Go
  <2>2. \/ logins' = logins
        \/ logins' = [logins EXCEPT ![b] = [kind |-> v.kind, user |-> v.user, id |-> v.id]]
    BY <1>3 DEF GrantSession, GrantToken, FinishLogIn
  <2>3. v.user \in Users
    BY <1>1, <2>1 DEF Sound
  <2> QED
    BY <1>1, <2>1, <2>2, <2>3, OneBrowser, NoVisitIsSound
<1>4. CASE LogOut(b)
  <2>1. v.at = "idle" /\ visits' = visits /\ logins' = [logins EXCEPT ![b] = NoLogin]
    BY <1>4 DEF LogOut
  <2>2. Sound(v, NoLogin)
    BY <1>1, <2>1 DEF Sound
  <2> QED
    BY <1>1, <2>1, <2>2, OneBrowser DEF NoLogin
<1>5. ASSUME NEW kind \in {"view", "edit", "tag", "create"},
             ArriveAsNobody(b, kind) \/ ArriveBySession(b, kind) \/ ArriveByToken(b, kind)
      PROVE  VisitsInv'
  <2> DEFINE w(user, id) == [NoVisit EXCEPT !.at = First(kind), !.kind = kind,
                                            !.user = user, !.id = id]
  <2>1. First(kind) \in {"again", "perms"}
    BY DEF First
  <2>2. \A k : Sound(w(None, 0), k)
    BY <2>1, FieldsAre DEF Sound, NoVisit
  <2>3. l.user \in Users => Sound(w(l.user, l.id), l)
    BY <2>1, FieldsAre DEF Sound, NoVisit
  <2>4. \/ visits' = [visits EXCEPT ![b] = w(None, 0)] /\ logins' = logins
        \/ visits' = [visits EXCEPT ![b] = w(None, 0)] /\ logins' = [logins EXCEPT ![b] = NoLogin]
        \/ /\ l.kind # None /\ logins' = logins
           /\ visits' = [visits EXCEPT ![b] = w(l.user, l.id)]
    BY <1>5 DEF ArriveAsNobody, ArriveBySession, ArriveByToken, Enter, Go, Known, None
  <2>5. NoLogin.kind = None
    BY DEF NoLogin
  <2> QED
    BY <1>1, <2>2, <2>3, <2>4, <2>5, OneBrowser
<1>6. ASSUME Staging(b)
      PROVE  VisitsInv'
  <2>1. logins' = logins
    BY <1>6 DEF Staging, FetchPermissions, PermissionsAreHere, FetchEntity, CheckAgain,
       AgainIsHere, Freshen, TopIsHere, Render
  <2>2. PICK w : NextStage(v, w) /\ visits' = [visits EXCEPT ![b] = w]
    BY <1>1, <1>6, StagesFollow
  <2>3. Sound(w, l)
    BY <1>1, <2>2, NoVisitIsSound, FieldsAre DEF Sound, NextStage
  <2> QED
    BY <1>1, <2>1, <2>2, <2>3, OneBrowser
<1> QED
  BY <1>2, <1>3, <1>4, <1>5, <1>6 DEF Visiting, Staging

LEMMA OneVisitGoesOn ==
    ASSUME VisitsInv, NEW b \in Browsers, Visiting(b)
    PROVE  /\ \A x \in Browsers \ {b} : visits'[x] = visits[x]
           /\ UNCHANGED <<now, work, accounts, permits, turned, pages>>
<1>1. visits' = [visits EXCEPT ![b] = visits[b]] \/ \E w : visits' = [visits EXCEPT ![b] = w]
  <2>1. CASE Staging(b)
    BY <2>1, StagesFollow DEF VisitsInv
  <2>2. CASE ~Staging(b)
    BY <2>2 DEF Visiting, Staging, VisitsInv, AskForSession, AskForToken, FindAccount,
       GrantSession, GrantToken, FinishLogIn, LogOut, ArriveAsNobody, ArriveBySession,
       ArriveByToken, Enter, Go
  <2> QED
    BY <2>1, <2>2
<1>2. UNCHANGED <<now, work, accounts, permits, turned, pages>>
  BY DEF Visiting, AskForSession, AskForToken, FindAccount, GrantSession, GrantToken,
     FinishLogIn, LogOut, ArriveAsNobody, ArriveBySession, ArriveByToken, Enter,
     FetchPermissions, PermissionsAreHere, FetchEntity, CheckAgain, AgainIsHere, Freshen,
     TopIsHere, Render, rights, site
<1> QED
  BY <1>1, <1>2 DEF VisitsInv

LEMMA VisitsInvariant == Spec => []VisitsInv
<1>1. Init => VisitsInv
  BY NoVisitIsSound DEF Init, VisitsInv, NoLogin
<1>2. ASSUME VisitsInv, [Next]_vars
      PROVE  VisitsInv'
  <2>1. CASE UNCHANGED <<visits, logins>>
    BY <1>2, <2>1 DEF VisitsInv, Sound
  <2>2. CASE Administration \/ Editing \/ Tick
    <3>1. ASSUME Administration
          PROVE  UNCHANGED <<visits, logins>>
      BY <3>1 DEF Administration, Administer, Permit, Deny, Assign, Deassign, CreateUser, EditUser,
         FinishUser, LoseUser, DeleteUser, PurgeUser
    <3>2. ASSUME Editing \/ Tick
          PROVE  UNCHANGED <<visits, logins>>
      BY <3>2, EditingIsApart DEF Tick
    <3> QED
      BY <2>1, <2>2, <3>1, <3>2
  <2> QED
    BY <1>2, <2>1, <2>2, VisitingKeepsIdentity DEF Next, vars
<1> QED
  BY <1>1, <1>2, PTL DEF Spec

\* A visit is always by the account that logged in, for any number of accounts
\* of any names.
THEOREM VisitsAreOwn == Spec => []IdentityIsOwn
<1>1. VisitsInv => IdentityIsOwn
  BY DEF VisitsInv, IdentityIsOwn, Sound
<1> QED
  BY <1>1, VisitsInvariant, PTL

---------------------------------------------------------------------------
(* The age of permissions. *)

CacheEntry == [until : Nat, perms : SUBSET Perms, took : Nat]

\* What is cached for somebody is right, or has turned since its query was made;
\* and so is an answer that a visit waits for.
CacheIsRight(s) ==
    /\ permCache[s].until <= now + Lifetime(permCache[s].perms)
    /\ \A p \in Perms : (p \in permCache[s].perms) # (p \in Effective(s)) =>
           turned[s][p] + Lifetime(permCache[s].perms) + permCache[s].took
              >= permCache[s].until

Asking(w) == w.at \in {"asked", "asked again"}
AnswerIsRight(w) ==
    Asking(w) =>
       /\ w.since \in Nat /\ w.since <= now /\ w.may \subseteq Perms
       /\ w.at = "asked again" => w.user # None
       /\ \A p \in Perms : (p \in w.may) # (p \in Effective(Subject(w))) =>
              turned[Subject(w)][p] >= w.since

PermsInv ==
    /\ now \in Nat
    /\ turned \in [Subjects -> [Perms -> Nat]]
    /\ permCache \in [Subjects -> CacheEntry]
    /\ permits \subseteq (Roles \cup {Nobody}) \X Perms
    /\ \A s \in Subjects : CacheIsRight(s)
    /\ \A b \in Browsers : AnswerIsRight(visits[b])

LEMMA LifetimeIsNat == \A perms : Lifetime(perms) \in Nat
BY BoundsAreNat DEF Lifetime

LEMMA EffectiveArePerms ==
    ASSUME PermsInv
    PROVE  \A s : Effective(s) \in SUBSET Perms
BY DEF PermsInv, Effective

LEMMA SubjectsAre ==
    ASSUME VisitsInv
    PROVE  \A b \in Browsers : Subject(visits[b]) \in Subjects
BY DEF VisitsInv, Sound, Subject, Subjects

\* Whatever an administrator turns is noted as turned now.
LEMMA AdministerKeepsPerms ==
    ASSUME PermsInv, VisitsInv, Administer, permits' \subseteq (Roles \cup {Nobody}) \X Perms
    PROVE  PermsInv'
<1>1. /\ UNCHANGED <<now, permCache, visits>>
      /\ \A s \in Subjects, p \in Perms :
            turned'[s][p] = IF (p \in Effective(s)) # (p \in Effective(s)') THEN now
                            ELSE turned[s][p]
      /\ turned' \in [Subjects -> [Perms -> Nat]]
  BY DEF Administer, PermsInv
<1>2. ASSUME NEW s \in Subjects, NEW p \in Perms,
             (p \in permCache[s].perms) # (p \in Effective(s)')
      PROVE  turned'[s][p] + Lifetime(permCache[s].perms) + permCache[s].took
                >= permCache[s].until
  <2>1. /\ permCache[s].until \in Nat /\ permCache[s].took \in Nat /\ now \in Nat
        /\ permCache[s].until <= now + Lifetime(permCache[s].perms)
        /\ Lifetime(permCache[s].perms) \in Nat
    BY LifetimeIsNat DEF PermsInv, CacheIsRight, CacheEntry
  <2>2. CASE (p \in Effective(s)) # (p \in Effective(s)')
    BY <1>1, <2>1, <2>2
  <2>3. CASE (p \in Effective(s)) = (p \in Effective(s)')
    BY <1>1, <1>2, <2>3 DEF PermsInv, CacheIsRight
  <2> QED
    BY <2>2, <2>3
<1>3. \A perms : Lifetime(perms)' = Lifetime(perms)
  BY DEF Lifetime
<1>4. ASSUME NEW s \in Subjects
      PROVE  CacheIsRight(s)'
  BY <1>1, <1>2, <1>3 DEF PermsInv, CacheIsRight
<1>5. ASSUME NEW b \in Browsers
      PROVE  AnswerIsRight(visits[b])'
  <2> DEFINE w == visits[b]
             s == Subject(w)
  <2>1. s \in Subjects /\ Subject(visits[b])' = s
    BY <1>1, SubjectsAre DEF Subject
  <2>2. AnswerIsRight(w)
    BY DEF PermsInv
  <2>3. ASSUME NEW p \in Perms, Asking(w), (p \in w.may) # (p \in Effective(s)')
        PROVE  turned'[s][p] >= w.since
    <3>1. CASE (p \in Effective(s)) # (p \in Effective(s)')
      <4>1. turned'[s][p] = now
        BY <1>1, <2>1, <3>1
      <4> QED
        BY <2>2, <2>3, <4>1 DEF AnswerIsRight, PermsInv
    <3>2. CASE (p \in Effective(s)) = (p \in Effective(s)')
      <4>1. turned'[s][p] = turned[s][p]
        BY <1>1, <2>1, <3>2
      <4> QED
        BY <2>2, <2>3, <3>2, <4>1 DEF AnswerIsRight
    <3> QED
      BY <3>1, <3>2
  <2>4. Asking(w) => /\ w.since \in Nat /\ w.since <= now /\ w.may \subseteq Perms
                     /\ w.at = "asked again" => w.user # None
    BY <2>2 DEF AnswerIsRight
  <2>5. visits'[b] = w /\ now' = now
    BY <1>1
  <2>6. Effective(Subject(visits[b]))' = Effective(s)'
    BY <2>1
  <2> HIDE DEF w, s
  <2> QED
    BY <2>1, <2>3, <2>4, <2>5, <2>6 DEF AnswerIsRight, Asking
<1> QED
  BY <1>1, <1>4, <1>5 DEF PermsInv

\* Nothing that they are about changes, but for the clock and requests that are
\* not waiting.
LEMMA OthersKeepPerms ==
    ASSUME PermsInv, UNCHANGED <<turned, permits, assigned, permCache>>,
           now' \in {now, now + 1},
           \A b \in Browsers : visits'[b] = visits[b] \/ ~Asking(visits'[b])
    PROVE  PermsInv'
<1>1. /\ \A t : Effective(t)' = Effective(t)
      /\ \A perms : Lifetime(perms)' = Lifetime(perms)
  BY DEF Effective, RolesOf, Lifetime
<1>2. now \in Nat /\ now' \in Nat /\ now <= now'
  BY DEF PermsInv
<1>3. ASSUME NEW s \in Subjects
      PROVE  CacheIsRight(s)'
  <2>1. CacheIsRight(s) /\ permCache[s].until \in Nat
        /\ Lifetime(permCache[s].perms) \in Nat
    BY LifetimeIsNat DEF PermsInv, CacheEntry
  <2> QED
    BY <1>1, <1>2, <2>1 DEF CacheIsRight
<1>4. ASSUME NEW b \in Browsers
      PROVE  AnswerIsRight(visits[b])'
  <2>1. CASE ~Asking(visits'[b])
    BY <2>1 DEF AnswerIsRight, Asking
  <2>2. CASE visits'[b] = visits[b]
    <3>1. AnswerIsRight(visits[b])
      BY DEF PermsInv
    <3>2. Subject(visits[b])' = Subject(visits[b])
      BY <2>2 DEF Subject
    <3>3. Effective(Subject(visits[b]))' = Effective(Subject(visits[b]))
      BY <1>1, <3>2
    <3>4. Asking(visits[b]) => visits[b].since \in Nat /\ visits[b].since <= now'
      <4>1. \A t \in Nat : t <= now => t <= now'
        BY <1>2
      <4> QED
        BY <3>1, <4>1, Zenon DEF AnswerIsRight
    <3> QED
      BY <2>2, <3>1, <3>2, <3>3, <3>4 DEF AnswerIsRight, Asking
  <2> QED
    BY <2>1, <2>2
<1> QED
  BY <1>2, <1>3, <1>4 DEF PermsInv

LEMMA EachIsLast == \A n \in Nat : n <= n
OBVIOUS

\* A query is answered by the tables as they are.
LEMMA AskingKeepsPerms ==
    ASSUME PermsInv, VisitsInv, NEW b \in Browsers, NEW w,
           visits' = [visits EXCEPT ![b] = w],
           w.user = visits[b].user, w.may = Effective(Subject(visits[b])), w.since = now,
           w.at \in {"asked", "asked again"}, w.at = "asked again" => visits[b].user # None,
           UNCHANGED <<now, turned, permits, assigned, permCache>>
    PROVE  PermsInv'
<1> DEFINE v == visits[b]
<1>1. /\ \A t : Effective(t)' = Effective(t)
      /\ \A perms : Lifetime(perms)' = Lifetime(perms)
  BY DEF Effective, RolesOf, Lifetime
<1>2. visits'[b] = w /\ \A x \in Browsers \ {b} : visits'[x] = visits[x]
  BY DEF VisitsInv
<1>3. w.user = v.user /\ w.may = Effective(Subject(v)) /\ w.since = now
  OBVIOUS
<1>4. Subject(w) = Subject(v)
  BY <1>3 DEF Subject
<1>5. w.may \subseteq Perms /\ now \in Nat
  <2>1. Effective(Subject(v)) \in SUBSET Perms
    BY EffectiveArePerms
  <2> QED
    BY <1>3, <2>1 DEF PermsInv
<1>6. AnswerIsRight(visits[b])'
  <2>1. Subject(visits[b])' = Subject(v)
    BY <1>2, <1>4 DEF Subject
  <2>2. Effective(Subject(visits[b]))' = w.may
    BY <1>1, <1>3, <2>1
  <2>3. w.since \in Nat /\ w.since <= now' /\ (w.at = "asked again" => w.user # None)
    <3>1. now' = now /\ now <= now
      <4>1. now' = now
        OBVIOUS
      <4> QED
        BY <1>5, <4>1, EachIsLast, Zenon
    <3>2. w.at = "asked again" => w.user # None
      BY <1>3
    <3> QED
      BY <1>3, <1>5, <3>1, <3>2
  <2>4. visits'[b] = w
    BY <1>2
  <2> QED
    BY <1>5, <2>1, <2>2, <2>3, <2>4 DEF AnswerIsRight, Asking
<1>7. ASSUME NEW x \in Browsers \ {b}
      PROVE  AnswerIsRight(visits[x])'
  <2>1. AnswerIsRight(visits[x])
    BY DEF PermsInv
  <2> QED
    BY <1>1, <1>2, <2>1 DEF AnswerIsRight, Asking, Subject
<1>8. \A s \in Subjects : CacheIsRight(s)'
  BY <1>1 DEF PermsInv, CacheIsRight
<1> QED
  BY <1>6, <1>7, <1>8 DEF PermsInv

\* What is cached is as old as its query.
LEMMA CachingKeepsPerms ==
    ASSUME PermsInv, VisitsInv, NEW b \in Browsers, NEW s \in Subjects,
           Asking(visits[b]), s = Subject(visits[b]),
           permCache' = Cached(s, visits[b].may, visits[b].since),
           UNCHANGED <<now, turned, permits, assigned>>,
           \A x \in Browsers : visits'[x] = visits[x] \/ ~Asking(visits'[x])
    PROVE  PermsInv'
<1> DEFINE v == visits[b]
           entry == [until |-> now + Lifetime(v.may), perms |-> v.may, took |-> now - v.since]
<1>1. /\ \A t : Effective(t)' = Effective(t)
      /\ \A perms : Lifetime(perms)' = Lifetime(perms)
  BY DEF Effective, RolesOf, Lifetime
<1>2. /\ now \in Nat /\ v.since \in Nat /\ v.since <= now /\ v.may \subseteq Perms
      /\ \A p \in Perms : (p \in v.may) # (p \in Effective(s)) => turned[s][p] >= v.since
      /\ \A p \in Perms : turned[s][p] \in Nat
  BY DEF PermsInv, AnswerIsRight
<1>3. Lifetime(v.may) \in Nat
  BY LifetimeIsNat
<1>4. entry \in CacheEntry
  BY <1>2, <1>3 DEF CacheEntry
<1>5. permCache' = [permCache EXCEPT ![s] = entry]
  BY DEF Cached
<1>6. permCache' \in [Subjects -> CacheEntry]
  BY <1>4, <1>5 DEF PermsInv
<1>7. CacheIsRight(s)'
  <2>1. permCache'[s] = entry
    BY <1>5 DEF PermsInv
  <2>2. entry.until = now + Lifetime(v.may) /\ entry.perms = v.may /\ entry.took = now - v.since
    OBVIOUS
  <2>3. \A p \in Perms : (p \in v.may) # (p \in Effective(s)) =>
           turned[s][p] + Lifetime(v.may) + (now - v.since) >= now + Lifetime(v.may)
    BY <1>2, <1>3
  <2> HIDE DEF entry
  <2> QED
    BY <1>1, <1>2, <1>3, <2>1, <2>2, <2>3 DEF CacheIsRight
<1>8. ASSUME NEW t \in Subjects \ {s}
      PROVE  CacheIsRight(t)'
  <2>1. permCache'[t] = permCache[t]
    BY <1>5 DEF PermsInv
  <2> QED
    BY <1>1, <2>1 DEF PermsInv, CacheIsRight
<1>9. ASSUME NEW x \in Browsers
      PROVE  AnswerIsRight(visits[x])'
  <2>1. CASE ~Asking(visits'[x])
    BY <2>1 DEF AnswerIsRight, Asking
  <2>2. CASE visits'[x] = visits[x]
    <3>1. AnswerIsRight(visits[x])
      BY DEF PermsInv
    <3> QED
      BY <1>1, <2>2, <3>1 DEF AnswerIsRight, Asking, Subject
  <2> QED
    BY <2>1, <2>2
<1> QED
  BY <1>6, <1>7, <1>8, <1>9 DEF PermsInv

LEMMA VisitingKeepsPerms ==
    ASSUME PermsInv, VisitsInv, NEW b \in Browsers, Visiting(b)
    PROVE  PermsInv'
<1> DEFINE v == visits[b]
<1>1. /\ UNCHANGED <<now, turned, permits, assigned>>
      /\ \A x \in Browsers \ {b} : visits'[x] = visits[x]
  BY OneVisitGoesOn DEF accounts
<1>2. Sound(v, logins[b]) /\ visits = [x \in Browsers |-> visits[x]]
  BY DEF VisitsInv
<1>3. \A perms : WithPermissions(v, perms).at \in {"idle", "entity"}
  BY <1>2, FieldsAre DEF WithPermissions, Sound, NoVisit
<1>4. CASE FetchPermissions(b)
  <2>1. permCache' = permCache
    BY <1>4 DEF FetchPermissions, rights
  <2>2. CASE Hit(Subject(v))
    <3>1. visits'[b] = WithPermissions(v, permCache[Subject(v)].perms)
      BY <1>2, <1>4, <2>2 DEF FetchPermissions, Go
    <3>2. ~Asking(visits'[b])
      BY <1>3, <3>1 DEF Asking
    <3> QED
      BY <1>1, <2>1, <3>2, OthersKeepPerms
  <2>3. CASE ~Hit(Subject(v))
    <3>1. visits' = [visits EXCEPT ![b] =
                        [v EXCEPT !.at = "asked", !.may = Effective(Subject(v)), !.since = now]]
      BY <1>4, <2>3 DEF FetchPermissions, Go
    <3> DEFINE w == [v EXCEPT !.at = "asked", !.may = Effective(Subject(v)), !.since = now]
    <3>2. /\ w.user = v.user /\ w.at = "asked" /\ w.since = now
          /\ w.may = Effective(Subject(v))
      BY <1>2, FieldsAre DEF Sound
    <3>3. visits' = [visits EXCEPT ![b] = w]
      BY <3>1
    <3> HIDE DEF w
    <3> QED
      BY <1>1, <2>1, <3>2, <3>3, AskingKeepsPerms
  <2> QED
    BY <2>2, <2>3
<1>5. CASE PermissionsAreHere(b)
  <2>1. /\ v.at = "asked" /\ permCache' = Cached(Subject(v), v.may, v.since)
        /\ visits'[b] = WithPermissions(v, v.may)
    BY <1>2, <1>5 DEF PermissionsAreHere, Go
  <2>2. Asking(v) /\ ~Asking(visits'[b])
    BY <1>3, <2>1 DEF Asking
  <2> QED
    BY <1>1, <2>1, <2>2, SubjectsAre, CachingKeepsPerms
<1>6. CASE CheckAgain(b)
  <2>1. permCache' = permCache
    BY <1>6 DEF CheckAgain, rights
  <2>2. CASE v.user = None \/ Hit(v.user)
    <3>1. visits'[b] = NoVisit
      BY <1>2, <1>6, <2>2 DEF CheckAgain, Go
    <3>2. ~Asking(visits'[b])
      BY <3>1 DEF Asking, NoVisit
    <3> QED
      BY <1>1, <2>1, <3>2, OthersKeepPerms
  <2>3. CASE ~(v.user = None \/ Hit(v.user))
    <3>1. v.user # None /\ Subject(v) = v.user
      BY <2>3 DEF Subject
    <3>2. visits' = [visits EXCEPT ![b] =
                        [v EXCEPT !.at = "asked again", !.may = Effective(Subject(v)),
                                  !.since = now]]
      BY <1>6, <2>3, <3>1 DEF CheckAgain, Go
    <3> DEFINE w == [v EXCEPT !.at = "asked again", !.may = Effective(Subject(v)),
                              !.since = now]
    <3>3. /\ w.user = v.user /\ w.at = "asked again" /\ w.since = now
          /\ w.may = Effective(Subject(v))
      BY <1>2, FieldsAre DEF Sound
    <3>4. visits' = [visits EXCEPT ![b] = w]
      BY <3>2
    <3> HIDE DEF w
    <3> QED
      BY <1>1, <2>1, <3>1, <3>3, <3>4, AskingKeepsPerms
  <2> QED
    BY <2>2, <2>3
<1>7. CASE AgainIsHere(b)
  <2>1. /\ v.at = "asked again" /\ permCache' = Cached(v.user, v.may, v.since)
        /\ visits'[b] = NoVisit
    BY <1>2, <1>7 DEF AgainIsHere, Go
  <2>2. Asking(v) /\ ~Asking(visits'[b])
    <3>1. NoVisit.at = "idle"
      BY DEF NoVisit
    <3> QED
      BY <2>1, <3>1 DEF Asking
  <2>3. v.user = Subject(v)
    BY <2>1, <2>2 DEF PermsInv, AnswerIsRight, Subject
  <2> QED
    BY <1>1, <2>1, <2>2, <2>3, SubjectsAre, CachingKeepsPerms
<1>8. CASE FetchEntity(b)
  <2>1. permCache' = permCache
    BY <1>8 DEF FetchEntity, rights
  <2> DEFINE w == CASE ~Allowed(v) \/ ~HasPage(Home) -> NoVisit
                    [] Allowed(v) /\ Options(v.kind).effective -> [v EXCEPT !.at = "again"]
                    [] Allowed(v) /\ v.kind = "view" ->
                          [v EXCEPT !.at = "fresh", !.rev = table[Home].rev]
                    [] OTHER -> NoVisit
  <2>2. w \in {NoVisit, [v EXCEPT !.at = "again"],
               [v EXCEPT !.at = "fresh", !.rev = table[Home].rev]}
    OBVIOUS
  <2>3. visits'[b] = w
    BY <1>2, <1>8 DEF FetchEntity, Go
  <2>4. /\ [v EXCEPT !.at = "again"].at = "again" /\ NoVisit.at = "idle"
        /\ [v EXCEPT !.at = "fresh", !.rev = table[Home].rev].at = "fresh"
    BY <1>2, FieldsAre DEF Sound, NoVisit
  <2> HIDE DEF w
  <2>5. ~Asking(visits'[b])
    BY <2>2, <2>3, <2>4 DEF Asking
  <2> QED
    BY <1>1, <2>1, <2>5, OthersKeepPerms
<1>9. CASE Freshen(b) \/ TopIsHere(b) \/ Render(b)
  <2>1. permCache' = permCache
    BY <1>9 DEF Freshen, TopIsHere, Render, rights
  <2>2. \/ visits'[b] = NoVisit
        \/ \E top : visits'[b] = [v EXCEPT !.at = "render", !.top = top]
        \/ \E top : visits'[b] = [v EXCEPT !.at = "dated", !.top = top, !.since = now]
    BY <1>2, <1>9 DEF Freshen, TopIsHere, Render, WithTop, Go
  <2>3. /\ NoVisit.at = "idle"
        /\ \A top : [v EXCEPT !.at = "render", !.top = top].at = "render"
        /\ \A top : [v EXCEPT !.at = "dated", !.top = top, !.since = now].at = "dated"
    BY <1>2, FieldsAre DEF Sound, NoVisit
  <2>4. ~Asking(visits'[b])
    BY <2>2, <2>3 DEF Asking
  <2> QED
    BY <1>1, <2>1, <2>4, OthersKeepPerms
<1>10. CASE ~Staging(b)
  <2>1. permCache' = permCache
    BY <1>10 DEF Visiting, Staging, AskForSession, AskForToken, FindAccount, GrantSession,
       GrantToken, FinishLogIn, LogOut, ArriveAsNobody, ArriveBySession, ArriveByToken, Enter,
       rights
  <2>4. visits'[b] = v \/ visits'[b].at \in {"idle", "login", "again", "perms"}
    <3>1. ASSUME NEW u \in Users, AskForSession(b, u) \/ AskForToken(b, u)
          PROVE  visits'[b].at = "login"
      <4>1. PICK kind : FindAccount(b, u, kind)
        BY <3>1 DEF AskForSession, AskForToken
      <4>2. visits'[b] = [NoVisit EXCEPT !.at = "login", !.kind = kind, !.user = u,
                                         !.id = rows[u].id, !.email = rows[u].email,
                                         !.disabled = rows[u].disabled]
        BY <1>2, <4>1 DEF FindAccount, Go
      <4> QED
        BY <4>2 DEF NoVisit
    <3>2. GrantSession(b) \/ GrantToken(b) => visits'[b].at = "idle"
      BY <1>2 DEF GrantSession, GrantToken, FinishLogIn, Go, NoVisit
    <3>3. LogOut(b) => visits'[b] = v
      BY DEF LogOut
    <3>4. ASSUME NEW kind, ArriveAsNobody(b, kind) \/ ArriveBySession(b, kind)
                           \/ ArriveByToken(b, kind)
          PROVE  visits'[b].at \in {"again", "perms"}
      <4>1. PICK user, a : Enter(b, kind, user, a)
        BY <3>4 DEF ArriveAsNobody, ArriveBySession, ArriveByToken
      <4>2. visits'[b] = [NoVisit EXCEPT !.at = First(kind), !.kind = kind, !.user = user,
                                         !.id = a]
        BY <1>2, <4>1 DEF Enter, Go
      <4> QED
        BY <4>2 DEF NoVisit, First
    <3>5. \/ \E u \in Users : AskForSession(b, u) \/ AskForToken(b, u)
          \/ GrantSession(b) \/ GrantToken(b) \/ LogOut(b)
          \/ \E kind : \/ ArriveAsNobody(b, kind) \/ ArriveBySession(b, kind)
                       \/ ArriveByToken(b, kind)
      BY <1>10, Zenon DEF Visiting, Staging
    <3> QED
      BY <3>1, <3>2, <3>3, <3>4, <3>5
  <2>5. visits'[b] = v \/ ~Asking(visits'[b])
    BY <2>4 DEF Asking
  <2> QED
    BY <1>1, <2>1, <2>5, OthersKeepPerms
<1> QED
  BY <1>4, <1>5, <1>6, <1>7, <1>8, <1>9, <1>10 DEF Staging

LEMMA PermsInvariant == Spec => []PermsInv
<1>1. Init => PermsInv
  <2> SUFFICES ASSUME Init
               PROVE  PermsInv
    OBVIOUS
  <2>1. \A b \in Browsers : AnswerIsRight(visits[b])
    BY DEF Init, AnswerIsRight, Asking, NoVisit
  <2>2. permCache \in [Subjects -> CacheEntry]
    BY DEF Init, CacheEntry
  <2>3. ASSUME NEW s \in Subjects
        PROVE  CacheIsRight(s)
    <3>1. permCache[s].until = 0 /\ permCache[s].took = 0 /\ now = 0
          /\ \A p \in Perms : turned[s][p] = 0
      BY DEF Init
    <3> QED
      BY <3>1, LifetimeIsNat DEF CacheIsRight
  <2>4. turned \in [Subjects -> [Perms -> Nat]]
    BY DEF Init
  <2> QED
    BY <2>1, <2>2, <2>3, <2>4, PermitsAreKnown DEF Init, PermsInv
<1>2. ASSUME PermsInv, VisitsInv, [Next]_vars
      PROVE  PermsInv'
  <2>1. CASE Administration
    <3>1. Administer
      BY <2>1 DEF Administration, Permit, Deny, Assign, Deassign, CreateUser, EditUser,
         FinishUser, LoseUser, DeleteUser, PurgeUser
    <3>2. permits' \subseteq (Roles \cup {Nobody}) \X Perms
      <4>1. permits' = permits \/ \E x \in Variable : permits' \in {permits \cup {x}, permits \ {x}}
        BY <2>1 DEF Administration, Permit, Deny, Assign, Deassign, CreateUser, EditUser,
           FinishUser, LoseUser, DeleteUser, PurgeUser
      <4> QED
        BY <1>2, <4>1, PermitsAreKnown DEF PermsInv
    <3> QED
      BY <1>2, <3>1, <3>2, AdministerKeepsPerms
  <2>2. CASE Editing \/ Tick \/ UNCHANGED vars
    <3>1. /\ UNCHANGED <<turned, permits, assigned, permCache, visits>>
          /\ now' \in {now, now + 1}
      BY <2>2, EditingIsApart DEF Tick, vars, accounts, rights
    <3> QED
      BY <1>2, <3>1, OthersKeepPerms
  <2>3. ASSUME NEW b \in Browsers, Visiting(b)
        PROVE  PermsInv'
    BY <1>2, <2>3, VisitingKeepsPerms
  <2> QED
    BY <1>2, <2>1, <2>2, <2>3 DEF Next
<1> QED
  BY <1>1, <1>2, VisitsInvariant, PTL DEF Spec

\* Permissions that a visit is given or refused are no older than a cache entry and
\* the query it came from, for any times to live and any number of roles and users.
THEOREM PermissionsAreRecent == Spec => PermissionsRecent
<1> DEFINE Age(b, p) ==
             LET v == visits[b]
                 s == Subject(v)
                 hit == v.at \in {"perms", "again"} /\ Hit(s)
                 given == IF hit THEN permCache[s].perms ELSE v.may
                 lag == IF hit THEN Lifetime(given) + permCache[s].took ELSE now - v.since
             IN  /\ hit \/ v.at \in {"asked", "asked again"}
                 /\ visits'[b] # v
                 => \/ (p \in given) = (p \in Effective(s))
                    \/ turned[s][p] + lag >= now
<1>1. ASSUME PermsInv, VisitsInv, NEW b \in Browsers, NEW p \in Perms
      PROVE  Age(b, p)
  <2> DEFINE v == visits[b]
             s == Subject(v)
             entry == permCache[s]
  <2>1. s \in Subjects
    BY <1>1, SubjectsAre
  <2>2. turned[s][p] \in Nat /\ now \in Nat
    BY <1>1, <2>1 DEF PermsInv
  <2>5. ASSUME Asking(v)
        PROVE  Age(b, p)
    <3>1. (p \in v.may) = (p \in Effective(s)) \/ turned[s][p] >= v.since
      BY <1>1, <2>5 DEF PermsInv, AnswerIsRight
    <3>2. v.since \in Nat /\ ~(v.at \in {"perms", "again"})
      BY <1>1, <2>5 DEF PermsInv, AnswerIsRight, Asking
    <3>3. (p \in v.may) = (p \in Effective(s)) \/ turned[s][p] + (now - v.since) >= now
      <4> HIDE DEF v, s
      <4> QED
        BY <2>2, <3>1, <3>2
    <3> QED
      BY <3>2, <3>3
  <2>3. CASE Hit(s)
    <3>1. entry.until > now /\ entry.until \in Nat /\ entry.took \in Nat
      BY <1>1, <2>1, <2>3 DEF Hit, PermsInv, CacheEntry
    <3>2. (p \in entry.perms) # (p \in Effective(s)) =>
             turned[s][p] + Lifetime(entry.perms) + entry.took >= entry.until
      BY <1>1, <2>1 DEF PermsInv, CacheIsRight
    <3>3. Lifetime(entry.perms) \in Nat
      BY LifetimeIsNat
    <3>4. \/ (p \in entry.perms) = (p \in Effective(s))
          \/ turned[s][p] + (Lifetime(entry.perms) + entry.took) >= now
      <4> HIDE DEF entry, s, v
      <4> QED
        BY <2>2, <3>1, <3>2, <3>3
    <3> QED
      <4>1. CASE Asking(v)
        BY <2>5, <4>1
      <4>2. CASE v.at \in {"perms", "again"}
        BY <2>3, <3>4, <4>2
      <4>3. CASE ~Asking(v) /\ v.at \notin {"perms", "again"}
        BY <4>3 DEF Asking
      <4> QED
        BY <4>1, <4>2, <4>3
  <2>4. CASE ~Hit(s)
    <3>1. CASE Asking(v)
      BY <2>5, <3>1
    <3>2. CASE ~Asking(v)
      BY <2>4, <3>2 DEF Asking
    <3> QED
      BY <3>1, <3>2
  <2> QED
    BY <2>3, <2>4
<1>2. PermsInv /\ VisitsInv /\ [Next]_vars => [\A b \in Browsers, p \in Perms : Age(b, p)]_vars
  BY <1>1
<1> QED
  BY <1>2, VisitsInvariant, PermsInvariant, PTL DEF Spec, PermissionsRecent


---------------------------------------------------------------------------
(* The site. *)

\* What the rows and revisions of the site say of each other: a row has the
\* `touched' its revision was published with, unless that was more than one.
RowFits(row, st, ru) ==
    row.rev # 0 => /\ row.touched # 0 /\ st[row.rev] # 0
                   /\ st[row.rev] = row.touched \/ row.rev \in ru

EntryFits(e) == e.rev # 0 /\ e.touched # 0 /\ (e.kind = "move" => e.rev + 1 \in Revs)

TablesInv ==
    /\ now \in 0..MaxTime /\ saves \in Revs
    /\ table \in [Pages -> Row] /\ stamp \in [Revs -> Revs] /\ reused \subseteq Revs
    /\ \A p \in Pages : RowFits(table[p], stamp, reused)
    /\ log \subseteq Entry
    /\ \A e \in log : EntryFits(e)

\* How the site goes on: rows go, or come now and are late or postdate all that was
\* published; what has been published stays so, unless it is published again.
SiteGoesOn ==
    /\ \A p \in Pages : \/ table'[p] = table[p] \/ table'[p].rev = 0
                        \/ /\ table'[p].at = now
                           /\ table'[p].late \/ \A r \in Revs : stamp[r] < table'[p].touched
    /\ \A r \in Revs : /\ stamp'[r] = stamp[r] \/ stamp[r] = 0 \/ r \in reused'
                       /\ stamp[r] # 0 => stamp'[r] # 0
    /\ reused \subseteq reused'

LEMMA BoundsAre ==
    /\ MaxTime \in Nat /\ MaxWork \in Nat /\ ChangeTTL \in Nat
    /\ MaxSaves \in Nat /\ MaxSaves # 0
    /\ Revs = 0..MaxSaves /\ 0 \in Revs /\ 0 \in 0..MaxTime /\ 0 \in Ids
    /\ \A r \in Revs : r \in Nat
BY BoundsAreNat DEF Revs, Ids

LEMMA PublishedKeepsTables ==
    ASSUME TablesInv, NEW tb, NEW st, Published(tb, st), tb = [p \in Pages |-> tb[p]],
           st \in [Revs -> Revs], \A r \in Revs : stamp[r] # 0 => st[r] # 0,
           \A p \in Pages : \/ tb[p] = table[p]
                            \/ \E rev \in Revs, touched \in Revs \ {0}, stub \in BOOLEAN :
                                  tb[p] = NewRow(rev, touched, stub) /\ st[rev] = touched
    PROVE  TablesInv' /\ SiteGoesOn
<1>1. /\ table' = tb /\ stamp' = st /\ UNCHANGED <<now, saves, log>>
      /\ reused' = reused \cup {r \in Revs : stamp[r] # 0 /\ st[r] # stamp[r]}
  BY DEF Published
<1>2. reused \subseteq reused' /\ reused' \subseteq Revs
  BY <1>1 DEF TablesInv
<1>3. \A r \in Revs : st[r] = stamp[r] \/ stamp[r] = 0 \/ r \in reused'
  BY <1>1
<1>4. ASSUME NEW p \in Pages
      PROVE  /\ tb[p] \in Row /\ RowFits(tb[p], st, reused')
             /\ tb[p] # table[p] => tb[p].at = now
                  /\ (tb[p].late \/ \A r \in Revs : stamp[r] < tb[p].touched)
  <2>1. CASE tb[p] = table[p]
    <3>1. table[p] \in Row /\ RowFits(table[p], stamp, reused)
      BY DEF TablesInv
    <3>2. table[p].rev \in Revs
      BY <3>1 DEF Row
    <3>3. RowFits(table[p], st, reused')
      BY <1>2, <1>3, <3>1, <3>2 DEF RowFits
    <3> QED
      BY <2>1, <3>1, <3>3
  <2>2. CASE tb[p] # table[p]
    <3>1. PICK rev \in Revs, touched \in Revs \ {0}, stub \in BOOLEAN :
             tb[p] = NewRow(rev, touched, stub) /\ st[rev] = touched
      BY <2>2
    <3>2. /\ tb[p].rev = rev /\ tb[p].touched = touched /\ tb[p].at = now
          /\ tb[p].late = Late(rev, touched) /\ Late(rev, touched) \in BOOLEAN
      BY <3>1 DEF NewRow, Late
    <3>3. tb[p] \in Row
      BY <3>1, <3>2 DEF NewRow, Row, TablesInv
    <3>4. ~Late(rev, touched) => \A r \in Revs : stamp[r] < touched
      <4>1. \A r \in Revs : stamp[r] \in Nat /\ touched \in Nat
        BY BoundsAre DEF TablesInv
      <4>2. \A r \in Revs : ~(stamp[r] >= touched) => stamp[r] < touched
        BY <4>1
      <4> QED
        BY <4>2 DEF Late
    <3>5. RowFits(tb[p], st, reused')
      BY <3>1, <3>2 DEF RowFits
    <3> QED
      BY <3>2, <3>3, <3>4, <3>5
  <2> QED
    BY <2>1, <2>2
<1>5. TablesInv'
  <2>1. table' \in [Pages -> Row]
    BY <1>1, <1>4
  <2>2. \A p \in Pages : RowFits(table'[p], stamp', reused')
    BY <1>1, <1>4
  <2>3. \A e \in log' : EntryFits(e)
    BY <1>1 DEF TablesInv
  <2> QED
    BY <1>1, <1>2, <2>1, <2>2, <2>3 DEF TablesInv
<1>6. SiteGoesOn
  BY <1>1, <1>2, <1>3, <1>4 DEF SiteGoesOn
<1> QED
  BY <1>5, <1>6

LEMMA SavingKeepsTables ==
    ASSUME TablesInv, UNCHANGED <<now, table, stamp, reused>>, saves' \in Revs,
           \A e \in log' : e \in log \/ (e \in Entry /\ EntryFits(e))
    PROVE  TablesInv' /\ SiteGoesOn
<1>1. SiteGoesOn
  BY DEF SiteGoesOn
<1>2. log' \subseteq Entry /\ \A e \in log' : EntryFits(e)
  BY DEF TablesInv
<1> QED
  BY <1>1, <1>2 DEF TablesInv

\* What editors write, publish and purge.
LEMMA EditingKeepsTables ==
    ASSUME TablesInv, Editing
    PROVE  TablesInv' /\ SiteGoesOn
<1>1. /\ saves \in Nat /\ now \in Nat
      /\ \A e \in log : e \in Entry /\ EntryFits(e)
      /\ \A p \in Pages : table[p] \in Row
  BY BoundsAre DEF TablesInv
<1>2. ASSUME NEW p \in Pages, NEW kind \in {"save", "delete", "move"}, NEW to \in Pages,
             NEW draft \in BOOLEAN, NEW n \in {1, 2}, kind = "move" => n = 2,
             Write(NewEntry(p, kind, to, draft), n)
      PROVE  TablesInv' /\ SiteGoesOn
  <2> DEFINE e == NewEntry(p, kind, to, draft)
  <2>1. /\ UNCHANGED <<now, table, stamp, reused>>
        /\ saves + n <= MaxSaves /\ saves' = saves + n /\ log' = log \cup {e}
    BY <1>2 DEF Write
  <2>2. saves' \in Revs /\ saves + 1 \in Revs /\ saves + 1 # 0
    BY <1>1, <1>2, <2>1, BoundsAre
  <2>3. e.rev = saves + 1 /\ e.touched = saves + 1 /\ e.kind = kind
    BY DEF NewEntry
  <2>4. e \in Entry
    <3>1. (~HasPage(p)) \in BOOLEAN
      OBVIOUS
    <3> QED
      BY <1>2, <2>2, <3>1 DEF NewEntry, Entry
  <2>5. EntryFits(e)
    <3>1. kind = "move" => saves + 1 + 1 \in Revs
      BY <1>1, <1>2, <2>1, BoundsAre
    <3> HIDE DEF e
    <3> QED
      BY <2>2, <2>3, <3>1 DEF EntryFits
  <2> HIDE DEF e
  <2> QED
    BY <2>1, <2>2, <2>4, <2>5, SavingKeepsTables
<1>3. ASSUME NEW p \in Pages, DeletePage(p) \/ \E draft \in BOOLEAN : SavePage(p, draft)
      PROVE  TablesInv' /\ SiteGoesOn
  BY <1>2, <1>3 DEF DeletePage, SavePage
<1>4. ASSUME NEW p \in Pages, NEW to \in Pages, MovePage(p, to)
      PROVE  TablesInv' /\ SiteGoesOn
  BY <1>2, <1>4 DEF MovePage
<1>5. ASSUME NEW entry \in log, SaveAgain(entry)
      PROVE  TablesInv' /\ SiteGoesOn
  <2> DEFINE created == entry.create /\ stamp[entry.rev] = 0
             e == [entry EXCEPT !.touched = saves + 1, !.create = created]
  <2>1. /\ UNCHANGED <<now, table, stamp, reused>>
        /\ saves < MaxSaves /\ saves' = saves + 1 /\ log' = (log \ {entry}) \cup {e}
    BY <1>5 DEF SaveAgain
  <2>2. saves' \in Revs /\ saves + 1 \in Revs /\ saves + 1 # 0
    BY <1>1, <2>1, BoundsAre
  <2>3. entry \in Entry /\ EntryFits(entry)
    BY <1>1
  <2>4. created \in BOOLEAN
    OBVIOUS
  <2> HIDE DEF created
  <2>5. e \in Entry /\ e.rev = entry.rev /\ e.kind = entry.kind /\ e.touched = saves + 1
    BY <2>2, <2>3, <2>4 DEF Entry
  <2> HIDE DEF e
  <2>6. EntryFits(e)
    BY <2>2, <2>3, <2>5 DEF EntryFits
  <2> QED
    BY <2>1, <2>2, <2>5, <2>6, SavingKeepsTables
<1>6. ASSUME NEW entry \in log, PublishSave(entry) \/ PublishDelete(entry)
      PROVE  TablesInv' /\ SiteGoesOn
  <2>1. /\ entry.page \in Pages /\ entry.rev \in Revs /\ entry.touched \in Revs \ {0}
    BY <1>1 DEF Entry, EntryFits
  <2>2. PICK stub \in BOOLEAN :
           Published([table EXCEPT ![entry.page] = NewRow(entry.rev, entry.touched, stub)],
                     [stamp EXCEPT ![entry.rev] = entry.touched])
    BY <1>6 DEF PublishSave, PublishDelete
  <2> DEFINE tb == [table EXCEPT ![entry.page] = NewRow(entry.rev, entry.touched, stub)]
             st == [stamp EXCEPT ![entry.rev] = entry.touched]
  <2>3. /\ tb = [p \in Pages |-> tb[p]] /\ tb[entry.page] = NewRow(entry.rev, entry.touched, stub)
        /\ \A p \in Pages \ {entry.page} : tb[p] = table[p]
    BY <2>1 DEF TablesInv
  <2>4. /\ st \in [Revs -> Revs] /\ st[entry.rev] = entry.touched
        /\ \A r \in Revs : stamp[r] # 0 => st[r] # 0
    BY <2>1 DEF TablesInv
  <2> HIDE DEF tb, st
  <2>5. \A p \in Pages : \/ tb[p] = table[p]
                         \/ \E rev \in Revs, touched \in Revs \ {0}, s \in BOOLEAN :
                               tb[p] = NewRow(rev, touched, s) /\ st[rev] = touched
    BY <2>1, <2>3, <2>4
  <2>6. Published(tb, st)
    BY <2>2 DEF tb, st
  <2> QED
    BY <2>3, <2>4, <2>5, <2>6, PublishedKeepsTables
<1>7. ASSUME NEW entry \in log, PublishMove(entry)
      PROVE  TablesInv' /\ SiteGoesOn
  <2> DEFINE old == table[entry.page]
             tb == [table EXCEPT ![entry.to] = NewRow(entry.rev, old.touched, old.stub),
                                 ![entry.page] = NewRow(entry.rev + 1, entry.touched, TRUE)]
             st == [stamp EXCEPT ![entry.rev] = old.touched,
                                 ![entry.rev + 1] = entry.touched]
  <2>1. /\ entry.kind = "move" /\ old.rev # 0 /\ table[entry.to].rev = 0 /\ Published(tb, st)
    BY <1>7 DEF PublishMove
  <2>2. /\ entry.page \in Pages /\ entry.to \in Pages /\ entry.page # entry.to
        /\ entry.rev \in Revs /\ entry.rev + 1 \in Revs /\ entry.rev # entry.rev + 1
        /\ entry.touched \in Revs \ {0}
    BY <1>1, <2>1, BoundsAre DEF Entry, EntryFits
  <2>3. old.touched \in Revs \ {0} /\ old.stub \in BOOLEAN
    <3>1. old \in Row /\ RowFits(old, stamp, reused)
      BY <2>2 DEF TablesInv
    <3> QED
      BY <2>1, <3>1 DEF Row, RowFits
  <2>4. /\ tb = [p \in Pages |-> tb[p]]
        /\ tb[entry.to] = NewRow(entry.rev, old.touched, old.stub)
        /\ tb[entry.page] = NewRow(entry.rev + 1, entry.touched, TRUE)
        /\ \A p \in Pages \ {entry.page, entry.to} : tb[p] = table[p]
    <3>1. table = [p \in Pages |-> table[p]]
      BY DEF TablesInv
    <3> HIDE DEF old
    <3> QED
      BY <2>2, <3>1
  <2>5. /\ st \in [Revs -> Revs] /\ st[entry.rev] = old.touched
        /\ st[entry.rev + 1] = entry.touched
        /\ \A r \in Revs : stamp[r] # 0 => st[r] # 0
    <3>1. stamp \in [Revs -> Revs]
      BY DEF TablesInv
    <3> HIDE DEF old
    <3> QED
      BY <2>2, <2>3, <3>1
  <2>6. Published(tb, st)
    BY <2>1
  <2> HIDE DEF tb, st, old
  <2>7. \A p \in Pages : \/ tb[p] = table[p]
                         \/ \E rev \in Revs, touched \in Revs \ {0}, s \in BOOLEAN :
                               tb[p] = NewRow(rev, touched, s) /\ st[rev] = touched
    BY <2>2, <2>3, <2>4, <2>5
  <2> QED
    BY <2>4, <2>5, <2>6, <2>7, PublishedKeepsTables
<1>8. ASSUME NEW p \in Pages, PurgePage(p)
      PROVE  TablesInv' /\ SiteGoesOn
  <2>1. /\ table' = [table EXCEPT ![p] = NoRow] /\ UNCHANGED <<now, saves, stamp, reused>>
        /\ log' \subseteq log
    BY <1>8 DEF PurgePage
  <2>2. NoRow \in Row /\ NoRow.rev = 0
    BY BoundsAre DEF NoRow, Row
  <2>3. table'[p] = NoRow /\ \A q \in Pages \ {p} : table'[q] = table[q]
    BY <2>1 DEF TablesInv
  <2>4. SiteGoesOn
    BY <2>1, <2>2, <2>3 DEF SiteGoesOn
  <2>5. table' \in [Pages -> Row]
    BY <2>1, <2>2 DEF TablesInv
  <2>6. \A q \in Pages : RowFits(table'[q], stamp', reused')
    BY <2>1, <2>2, <2>3 DEF TablesInv, RowFits
  <2>7. log' \subseteq Entry /\ \A e \in log' : EntryFits(e)
    BY <1>1, <2>1
  <2> QED
    BY <2>1, <2>4, <2>5, <2>6, <2>7 DEF TablesInv
<1> QED
  BY <1>3, <1>4, <1>5, <1>6, <1>7, <1>8 DEF Editing

---------------------------------------------------------------------------
(* Copies that browsers keep, and the most recent change. *)

\* The site's most recent change as a query may have found it.
Told(top, st) == top \in Revs /\ top # 0 /\ st[top] # 0

\* What a copy with that most recent change in its tag does not show came late, or
\* was touched later.
Shows(c, top, tb, st, ru) ==
    \/ top \in ru
    \/ \A p \in Pages : \/ tb[p].rev = 0 \/ tb[p].late \/ st[top] < tb[p].touched
                        \/ c.shown[p] = tb[p].rev

\* What was touched later than the most recent change that was found came late, or
\* so lately that the answer, good for so long, could not know of it.
Covers(top, lag, until, tb, st, ru) ==
    \/ top \in ru
    \/ \A p \in Pages : \/ tb[p].rev = 0 \/ tb[p].late \/ tb[p].touched <= st[top]
                        \/ tb[p].at + lag >= until

TopInv ==
    /\ topCache \in [top : Revs, until : Nat, took : Nat]
    /\ topCache.until <= now + ChangeTTL
    /\ topCache.until # 0 =>
          /\ Told(topCache.top, stamp)
          /\ Covers(topCache.top, ChangeTTL + topCache.took, topCache.until, table, stamp, reused)

\* Whose copy it is stands in its tag.
TagTells(c, top) ==
    \/ c.tag = <<c.rev, top>> /\ c.reader = 0
    \/ \E u : c.tag = <<c.rev, top, u, c.reader>>

CopyTells(c, tb, st, ru) ==
    \E top \in Revs : Told(top, st) /\ TagTells(c, top) /\ Shows(c, top, tb, st, ru)

AnswerTells(w, time, tb, st, ru) ==
    /\ w.since \in Nat /\ w.since <= time /\ Told(w.top, st)
    /\ Covers(w.top, 0, w.since, tb, st, ru)

\* A browser's copy, its request and its login fit each other and the site.
CopyFits(c, w, l, time, tb, st, ru) ==
    /\ c = NoCopy \/ CopyTells(c, tb, st, ru)
    /\ l.kind \in {"cookie", "token"} \/ l.id = 0
    /\ w.at \notin {"idle", "login"} => w.id = l.id
    /\ w.at = "render" => Told(w.top, st)
    /\ w.at = "dated" => AnswerTells(w, time, tb, st, ru)
    /\ l.kind = "token" \/ (w.at = "login" /\ w.kind = "token") => c = NoCopy

CopiesInv ==
    /\ copies = [b \in Browsers |-> copies[b]]
    /\ \A b \in Browsers :
          CopyFits(copies[b], visits[b], logins[b], now, table, stamp, reused)

SiteInv == TablesInv /\ TopInv

LEMMA ToldStays ==
    ASSUME SiteGoesOn, NEW top, Told(top, stamp)
    PROVE  Told(top, stamp')
BY DEF SiteGoesOn, Told

LEMMA ShowsStays ==
    ASSUME TablesInv, SiteGoesOn, NEW top, Told(top, stamp), NEW c,
           Shows(c, top, table, stamp, reused)
    PROVE  Shows(c, top, table', stamp', reused')
<1>1. CASE top \in reused'
  BY <1>1 DEF Shows
<1>2. CASE top \notin reused'
  <2>1. top \in Revs /\ stamp'[top] = stamp[top] /\ top \notin reused
    BY <1>2 DEF SiteGoesOn, Told
  <2>2. ASSUME NEW p \in Pages
        PROVE  \/ table'[p].rev = 0 \/ table'[p].late \/ stamp[top] < table'[p].touched
               \/ c.shown[p] = table'[p].rev
    <3>1. CASE table'[p] = table[p]
      BY <2>1, <3>1 DEF Shows
    <3>2. CASE table'[p] # table[p]
      BY <2>1, <3>2 DEF SiteGoesOn
    <3> QED
      BY <3>1, <3>2
  <2> QED
    BY <2>1, <2>2 DEF Shows
<1> QED
  BY <1>1, <1>2

LEMMA CoversStay ==
    ASSUME TablesInv, SiteGoesOn, NEW top, Told(top, stamp), NEW lag, NEW until,
           until <= now + lag, Covers(top, lag, until, table, stamp, reused),
           now \in Nat, lag \in Nat, until \in Nat
    PROVE  Covers(top, lag, until, table', stamp', reused')
<1>1. CASE top \in reused'
  BY <1>1 DEF Covers
<1>2. CASE top \notin reused'
  <2>1. top \in Revs /\ stamp'[top] = stamp[top] /\ top \notin reused
    BY <1>2 DEF SiteGoesOn, Told
  <2>2. ASSUME NEW p \in Pages
        PROVE  \/ table'[p].rev = 0 \/ table'[p].late \/ table'[p].touched <= stamp[top]
               \/ table'[p].at + lag >= until
    <3>1. CASE table'[p] = table[p]
      BY <2>1, <3>1 DEF Covers
    <3>2. CASE table'[p] # table[p]
      BY <2>1, <3>2 DEF SiteGoesOn
    <3> QED
      BY <3>1, <3>2
  <2> QED
    BY <2>1, <2>2 DEF Covers
<1> QED
  BY <1>1, <1>2

LEMMA FitsStill ==
    ASSUME TablesInv, SiteGoesOn, UNCHANGED now, NEW c, NEW w, NEW l,
           CopyFits(c, w, l, now, table, stamp, reused)
    PROVE  CopyFits(c, w, l, now', table', stamp', reused')
<1>1. now \in Nat /\ now' = now
  BY BoundsAre DEF TablesInv
<1>2. ASSUME CopyTells(c, table, stamp, reused)
      PROVE  CopyTells(c, table', stamp', reused')
  BY <1>2, ToldStays, ShowsStays DEF CopyTells
<1>3. Told(w.top, stamp) => Told(w.top, stamp')
  BY ToldStays
<1>4. ASSUME AnswerTells(w, now, table, stamp, reused)
      PROVE  AnswerTells(w, now', table', stamp', reused')
  <2>1. /\ w.since \in Nat /\ w.since <= now /\ Told(w.top, stamp)
        /\ Covers(w.top, 0, w.since, table, stamp, reused)
    BY <1>4 DEF AnswerTells
  <2>2. w.since <= now + 0 /\ 0 \in Nat
    BY <1>1, <2>1
  <2>3. Covers(w.top, 0, w.since, table', stamp', reused')
    BY <1>1, <2>1, <2>2, CoversStay
  <2> QED
    BY <1>1, <1>3, <2>1, <2>3 DEF AnswerTells
<1> QED
  BY <1>2, <1>3, <1>4 DEF CopyFits

LEMMA TopStays ==
    ASSUME SiteInv, SiteGoesOn, UNCHANGED <<now, topCache>>
    PROVE  TopInv'
<1>1. now \in Nat /\ ChangeTTL + topCache.took \in Nat /\ topCache.until \in Nat
  BY BoundsAre DEF SiteInv, TablesInv, TopInv
<1>2. topCache.until <= now + (ChangeTTL + topCache.took)
  BY <1>1, BoundsAre DEF SiteInv, TopInv
<1>3. ASSUME topCache.until # 0
      PROVE  /\ Told(topCache.top, stamp')
             /\ Covers(topCache.top, ChangeTTL + topCache.took, topCache.until, table', stamp',
                       reused')
  <2>1. /\ Told(topCache.top, stamp)
        /\ Covers(topCache.top, ChangeTTL + topCache.took, topCache.until, table, stamp, reused)
    BY <1>3 DEF SiteInv, TopInv
  <2> QED
    BY <1>1, <1>2, <2>1, ToldStays, CoversStay DEF SiteInv
<1> QED
  BY <1>3 DEF SiteInv, TopInv

LEMMA TagIs ==
    ASSUME NEW b, NEW rev, NEW top
    PROVE  /\ logins[b].kind = "cookie" => Tag(b, rev, top) = <<rev, top, logins[b].user, logins[b].id>>
           /\ logins[b].kind # "cookie" => Tag(b, rev, top) = <<rev, top>>
<1>1. <<rev, top>> \in Seq({rev, top})
  OBVIOUS
<1>2. <<rev, top>> \o <<>> = <<rev, top>>
  BY <1>1, ConcatEmptySeq
<1>3. ASSUME NEW x, NEW y
      PROVE  <<rev, top>> \o <<x, y>> = <<rev, top, x, y>>
  <2> DEFINE S == {rev, top, x, y}
             long == <<rev, top, x, y>>
             whole == <<rev, top>> \o <<x, y>>
  <2>1. <<rev, top>> \in Seq(S) /\ <<x, y>> \in Seq(S) /\ long \in Seq(S)
    OBVIOUS
  <2>2. /\ whole \in Seq(S) /\ Len(whole) = 4
        /\ \A i \in 1..4 : whole[i] = IF i <= 2 THEN <<rev, top>>[i] ELSE <<x, y>>[i - 2]
    <3> HIDE DEF S
    <3> QED
      BY <2>1, ConcatProperties
  <2>3. whole[1] = rev /\ whole[2] = top /\ whole[3] = x /\ whole[4] = y
    <3> HIDE DEF whole
    <3> QED
      BY <2>2
  <2>4. Len(long) = 4 /\ \A i \in 1..4 : whole[i] = long[i]
    <3>1. \A i \in 1..4 : i = 1 \/ i = 2 \/ i = 3 \/ i = 4
      OBVIOUS
    <3> HIDE DEF whole
    <3> QED
      BY <2>3, <3>1
  <2>5. whole = long
    <3> HIDE DEF whole, long, S
    <3> QED
      BY <2>1, <2>2, <2>4, SeqEqual
  <2> QED
    BY <2>5
<1>4. CASE logins[b].kind = "cookie"
  BY <1>3, <1>4 DEF Tag
<1>5. CASE logins[b].kind # "cookie"
  BY <1>2, <1>5 DEF Tag
<1> QED
  BY <1>4, <1>5

LEMMA OneBrowserFits ==
    ASSUME VisitsInv, CopiesInv, NEW b \in Browsers, NEW c, NEW w, NEW l,
           copies' = [copies EXCEPT ![b] = c], visits' = [visits EXCEPT ![b] = w],
           logins' = [logins EXCEPT ![b] = l], UNCHANGED <<now, table, stamp, reused>>,
           CopyFits(c, w, l, now, table, stamp, reused)
    PROVE  CopiesInv'
<1>1. \A x \in Browsers \ {b} : /\ copies'[x] = copies[x]
                                /\ visits'[x] = visits[x] /\ logins'[x] = logins[x]
  BY DEF CopiesInv, VisitsInv
<1>2. copies'[b] = c /\ visits'[b] = w /\ logins'[b] = l
  BY DEF CopiesInv, VisitsInv
<1>3. ASSUME NEW x \in Browsers
      PROVE  CopyFits(copies'[x], visits'[x], logins'[x], now', table', stamp', reused')
  <2>1. CASE x = b
    BY <1>2, <2>1
  <2>2. CASE x # b
    BY <1>1, <2>2 DEF CopiesInv
  <2> QED
    BY <2>1, <2>2
<1>4. copies' = [x \in Browsers |-> copies'[x]]
  BY DEF CopiesInv
<1> QED
  BY <1>3, <1>4 DEF CopiesInv

\* A row that was touched last of all covers the others.
LEMMA NewestCovers ==
    ASSUME TablesInv, NEW top \in TopRevs, NEW until
    PROVE  /\ Told(top, stamp)
           /\ Covers(top, 0, until, table, stamp, reused)
<1>1. PICK q \in Pages : /\ table[q].rev = top /\ table[q].rev # 0
                         /\ \A r \in Pages : table[r].touched <= table[q].touched
  BY DEF TopRevs
<1>2. RowFits(table[q], stamp, reused) /\ table[q] \in Row
  BY DEF TablesInv
<1>3. top \in Revs
  BY <1>1, <1>2 DEF Row
<1> QED
  BY <1>1, <1>2, <1>3 DEF RowFits, Told, Covers

\* A stage passes on whose the request is; what it has been told is checked for
\* each of the stages.
LEMMA StageFits ==
    ASSUME NEW c, NEW v, NEW w, NEW l, NEW time, NEW tb, NEW st, NEW ru,
           CopyFits(c, v, l, time, tb, st, ru), NextStage(v, w),
           w.at = "render" => Told(w.top, st),
           w.at = "dated" => AnswerTells(w, time, tb, st, ru)
    PROVE  CopyFits(c, w, l, time, tb, st, ru)
<1>1. NoVisit.at = "idle"
  BY DEF NoVisit
<1> QED
  BY <1>1 DEF CopyFits, NextStage

\* A visit asks, or is told, for the most recent change only in these two stages.
LEMMA StagesAreTold ==
    ASSUME SiteInv, VisitsInv, CopiesInv, NEW b \in Browsers, Staging(b)
    PROVE  /\ visits'[b].at = "render" => Told(visits'[b].top, stamp)
           /\ visits'[b].at = "dated" => AnswerTells(visits'[b], now, table, stamp, reused)
<1> DEFINE v == visits[b]
<1>1. /\ v = [f \in Fields |-> v[f]] /\ visits = [x \in Browsers |-> visits[x]]
      /\ CopyFits(copies[b], v, logins[b], now, table, stamp, reused)
      /\ now \in Nat
  BY BoundsAre DEF VisitsInv, CopiesInv, Sound, SiteInv, TablesInv
<1>2. ASSUME NEW top, WithTop(b, top), Told(top, stamp)
      PROVE  /\ visits'[b].at = "render" => Told(visits'[b].top, stamp)
             /\ visits'[b].at # "dated"
  <2>1. visits'[b] \in {NoVisit, [v EXCEPT !.at = "render", !.top = top]}
    BY <1>1, <1>2 DEF WithTop, Go
  <2>2. /\ NoVisit.at = "idle"
        /\ [v EXCEPT !.at = "render", !.top = top].at = "render"
        /\ [v EXCEPT !.at = "render", !.top = top].top = top
    BY <1>1, FieldsAre DEF NoVisit
  <2> QED
    BY <1>2, <2>1, <2>2
<1>3. CASE Freshen(b)
  <2>1. ASSUME TopHit, WithTop(b, topCache.top)
        PROVE  /\ visits'[b].at = "render" => Told(visits'[b].top, stamp)
               /\ visits'[b].at # "dated"
    <3>1. topCache.until # 0
      BY <1>1, <2>1 DEF TopHit, SiteInv, TopInv
    <3>2. Told(topCache.top, stamp)
      BY <3>1 DEF SiteInv, TopInv
    <3> QED
      BY <1>2, <2>1, <3>2
  <2>2. ASSUME Go(b, NoVisit)
        PROVE  visits'[b].at = "idle"
    BY <1>1, <2>2 DEF Go, NoVisit
  <2>3. ASSUME NEW top \in TopRevs,
               Go(b, [v EXCEPT !.at = "dated", !.top = top, !.since = now])
        PROVE  visits'[b].at = "dated" /\ AnswerTells(visits'[b], now, table, stamp, reused)
    <3> DEFINE w == [v EXCEPT !.at = "dated", !.top = top, !.since = now]
    <3>1. w.at = "dated" /\ w.top = top /\ w.since = now
      BY <1>1, FieldsAre
    <3>2. visits'[b] = w
      BY <1>1, <2>3 DEF Go
    <3> HIDE DEF w
    <3>3. Told(top, stamp) /\ Covers(top, 0, now, table, stamp, reused)
      BY <2>3, NewestCovers DEF SiteInv
    <3>4. now <= now
      BY <1>1, EachIsLast
    <3> QED
      BY <1>1, <3>1, <3>2, <3>3, <3>4 DEF AnswerTells
  <2> QED
    BY <1>3, <2>1, <2>2, <2>3 DEF Freshen
<1>4. CASE TopIsHere(b)
  <2>1. WithTop(b, v.top) /\ v.at = "dated"
    BY <1>4 DEF TopIsHere
  <2>2. Told(v.top, stamp)
    BY <1>1, <2>1 DEF CopyFits, AnswerTells
  <2> QED
    BY <1>2, <2>1, <2>2
<1>5. CASE Render(b)
  BY <1>1, <1>5 DEF Render, Go, NoVisit
<1>6. \A perms : WithPermissions(v, perms).at \in {"idle", "entity"}
  BY <1>1, FieldsAre DEF WithPermissions, NoVisit
<1>7. CASE FetchPermissions(b) \/ PermissionsAreHere(b)
  <2>1. \/ \E perms : visits'[b] = WithPermissions(v, perms)
        \/ visits'[b] = [v EXCEPT !.at = "asked", !.may = Effective(Subject(v)), !.since = now]
    BY <1>1, <1>7 DEF FetchPermissions, PermissionsAreHere, Go
  <2>2. [v EXCEPT !.at = "asked", !.may = Effective(Subject(v)), !.since = now].at = "asked"
    BY <1>1, FieldsAre
  <2> QED
    BY <1>6, <2>1, <2>2
<1>8. CASE CheckAgain(b) \/ AgainIsHere(b)
  <2>1. \/ visits'[b] = NoVisit
        \/ visits'[b] = [v EXCEPT !.at = "asked again", !.may = Effective(v.user), !.since = now]
    BY <1>1, <1>8 DEF CheckAgain, AgainIsHere, Go
  <2>2. /\ [v EXCEPT !.at = "asked again", !.may = Effective(v.user), !.since = now].at
              = "asked again"
        /\ NoVisit.at = "idle"
    BY <1>1, FieldsAre DEF NoVisit
  <2> QED
    BY <2>1, <2>2
<1>9. CASE FetchEntity(b)
  <2> DEFINE w == CASE ~Allowed(v) \/ ~HasPage(Home) -> NoVisit
                    [] Allowed(v) /\ Options(v.kind).effective -> [v EXCEPT !.at = "again"]
                    [] Allowed(v) /\ v.kind = "view" ->
                          [v EXCEPT !.at = "fresh", !.rev = table[Home].rev]
                    [] OTHER -> NoVisit
  <2>1. w \in {NoVisit, [v EXCEPT !.at = "again"],
               [v EXCEPT !.at = "fresh", !.rev = table[Home].rev]}
    OBVIOUS
  <2>2. visits'[b] = w
    BY <1>1, <1>9 DEF FetchEntity, Go
  <2>3. /\ [v EXCEPT !.at = "again"].at = "again" /\ NoVisit.at = "idle"
        /\ [v EXCEPT !.at = "fresh", !.rev = table[Home].rev].at = "fresh"
    BY <1>1, FieldsAre DEF NoVisit
  <2> HIDE DEF w
  <2> QED
    BY <2>1, <2>2, <2>3
<1> QED
  BY <1>3, <1>4, <1>5, <1>7, <1>8, <1>9 DEF Staging

\* The cached change is what the visit was told, with the age of the answer.
LEMMA VisitingKeepsSite ==
    ASSUME SiteInv, VisitsInv, CopiesInv, NEW b \in Browsers, Visiting(b)
    PROVE  SiteInv'
<1>1. UNCHANGED <<now, saves, table, log, stamp, reused>>
  BY OneVisitGoesOn DEF pages
<1>2. TablesInv'
  BY <1>1 DEF SiteInv, TablesInv
<1>3. CASE TopIsHere(b)
  <2> DEFINE v == visits[b]
             took == now - v.since
  <2>1. /\ v.at = "dated"
        /\ topCache' = [top |-> v.top, until |-> now + ChangeTTL, took |-> took]
    BY <1>3 DEF TopIsHere
  <2>2. AnswerTells(v, now, table, stamp, reused)
    BY <2>1 DEF CopiesInv, CopyFits
  <2>3. /\ v.since \in Nat /\ v.since <= now /\ Told(v.top, stamp)
        /\ Covers(v.top, 0, v.since, table, stamp, reused)
    BY <2>2 DEF AnswerTells
  <2>4. /\ now \in Nat /\ ChangeTTL \in Nat /\ took \in Nat /\ v.top \in Revs
        /\ \A p \in Pages : table[p].at \in Nat
    BY <2>3, BoundsAre DEF SiteInv, TablesInv, Told, Row
  <2>5. Covers(v.top, ChangeTTL + took, now + ChangeTTL, table, stamp, reused)
    <3>1. ASSUME NEW n \in Nat, n + 0 >= v.since
          PROVE  n + (ChangeTTL + took) >= now + ChangeTTL
      <4> HIDE DEF v
      <4> QED
        BY <2>3, <2>4, <3>1
    <3> HIDE DEF took, v
    <3> QED
      BY <2>3, <2>4, <3>1 DEF Covers
  <2>6. topCache'.until = now + ChangeTTL /\ topCache'.top = v.top /\ topCache'.took = took
    BY <2>1
  <2>7. topCache' \in [top : Revs, until : Nat, took : Nat]
    BY <2>1, <2>4
  <2>8. topCache'.until <= now + ChangeTTL
    <3>1. now + ChangeTTL \in Nat
      BY <2>4
    <3> QED
      BY <2>6, <3>1, EachIsLast
  <2> HIDE DEF took, v
  <2>9. TopInv'
    BY <1>1, <2>3, <2>5, <2>6, <2>7, <2>8 DEF TopInv
  <2> QED
    BY <1>2, <2>9 DEF SiteInv
<1>4. CASE ~TopIsHere(b)
  <2>1. topCache' = topCache
    BY <1>4 DEF Visiting, AskForSession, AskForToken, FindAccount, GrantSession, GrantToken,
       FinishLogIn, LogOut, ArriveAsNobody, ArriveBySession, ArriveByToken, Enter,
       FetchPermissions, PermissionsAreHere, FetchEntity, CheckAgain, AgainIsHere, Freshen,
       Render, site
  <2>2. TopInv'
    BY <1>1, <2>1 DEF SiteInv, TopInv
  <2> QED
    BY <1>2, <2>2 DEF SiteInv
<1> QED
  BY <1>3, <1>4

\* The stages of a visit pass on whose it is, and a copy is stored with it.
LEMMA VisitingKeepsCopies ==
    ASSUME SiteInv, VisitsInv, CopiesInv, NEW b \in Browsers, Visiting(b)
    PROVE  CopiesInv'
<1> DEFINE c == copies[b]
           v == visits[b]
           l == logins[b]
           Fits(x, w, k) == CopyFits(x, w, k, now, table, stamp, reused)
<1>1. /\ Fits(c, v, l) /\ Sound(v, l)
      /\ logins = [logins EXCEPT ![b] = l]
      /\ visits = [visits EXCEPT ![b] = v]
      /\ copies = [copies EXCEPT ![b] = c]
      /\ UNCHANGED <<now, table, stamp, reused>>
  BY OneVisitGoesOn DEF VisitsInv, CopiesInv, pages
<1>2. ASSUME NEW u \in Users, AskForSession(b, u) \/ AskForToken(b, u)
      PROVE  CopiesInv'
  <2>1. PICK kind \in {"cookie", "token"} :
            FindAccount(b, u, kind) /\ (kind = "token" => c = NoCopy)
    BY <1>2 DEF AskForSession, AskForToken
  <2> DEFINE w == [NoVisit EXCEPT !.at = "login", !.kind = kind, !.user = u,
                                  !.id = rows[u].id, !.email = rows[u].email,
                                  !.disabled = rows[u].disabled]
  <2>2. visits' = [visits EXCEPT ![b] = w] /\ UNCHANGED <<logins, copies>> /\ l = NoLogin
    BY <2>1 DEF FindAccount, Go
  <2>3. w.at = "login" /\ w.kind = kind
    BY DEF NoVisit
  <2> HIDE DEF w
  <2>4. Fits(c, w, l)
    BY <1>1, <2>1, <2>2, <2>3 DEF CopyFits, NoLogin, None
  <2> QED
    BY <1>1, <2>2, <2>4, OneBrowserFits
<1>3. CASE GrantSession(b) \/ GrantToken(b)
  <2>1. /\ visits' = [visits EXCEPT ![b] = NoVisit] /\ copies' = copies
        /\ v.at = "login" /\ v.kind \in {"cookie", "token"}
    BY <1>3 DEF GrantSession, GrantToken, FinishLogIn, Go
  <2> DEFINE k == [kind |-> v.kind, user |-> v.user, id |-> v.id]
  <2>2. logins' = logins \/ logins' = [logins EXCEPT ![b] = k]
    BY <1>3 DEF GrantSession, GrantToken, FinishLogIn
  <2>3. Fits(c, NoVisit, l) /\ Fits(c, NoVisit, k)
    BY <1>1, <2>1 DEF CopyFits, NoVisit
  <2> HIDE DEF k
  <2>4. CASE logins' = logins
    <3>1. logins' = [logins EXCEPT ![b] = l]
      BY <1>1, <2>4
    <3> QED
      BY <1>1, <2>1, <2>3, <3>1, OneBrowserFits
  <2>5. CASE logins' = [logins EXCEPT ![b] = k]
    BY <1>1, <2>1, <2>3, <2>5, OneBrowserFits
  <2> QED
    BY <2>2, <2>4, <2>5
<1>4. CASE LogOut(b)
  <2>1. /\ v.at = "idle" /\ UNCHANGED <<visits, copies>>
        /\ logins' = [logins EXCEPT ![b] = NoLogin]
    BY <1>4 DEF LogOut
  <2>2. Fits(c, v, NoLogin)
    BY <1>1, <2>1 DEF CopyFits, NoLogin, None
  <2> QED
    BY <1>1, <2>1, <2>2, OneBrowserFits
<1>5. ASSUME NEW kind \in {"view", "edit", "tag", "create"},
             ArriveAsNobody(b, kind) \/ ArriveBySession(b, kind) \/ ArriveByToken(b, kind)
      PROVE  CopiesInv'
  <2> DEFINE w(user, id) == [NoVisit EXCEPT !.at = First(kind), !.kind = kind,
                                            !.user = user, !.id = id]
  <2>1. First(kind) \in {"again", "perms"}
    BY DEF First
  <2>2. \A user, id : w(user, id).at \in {"again", "perms"} /\ w(user, id).id = id
    BY <2>1 DEF NoVisit
  <2>3. /\ copies' = copies
        /\ \/ /\ visits' = [visits EXCEPT ![b] = w(None, 0)]
              /\ logins' = [logins EXCEPT ![b] = NoLogin]
           \/ logins' = logins /\ visits' = [visits EXCEPT ![b] = w(l.user, l.id)]
    BY <1>1, <1>5 DEF ArriveAsNobody, ArriveBySession, ArriveByToken, Enter, Go, Known
  <2> HIDE DEF w
  <2>4. Fits(c, w(None, 0), NoLogin) /\ Fits(c, w(l.user, l.id), l)
    BY <1>1, <2>2 DEF CopyFits, NoLogin, None
  <2> QED
    BY <1>1, <2>3, <2>4, OneBrowserFits
<1>6. CASE Staging(b) /\ ~Render(b)
  <2>1. PICK w : NextStage(v, w) /\ visits' = [visits EXCEPT ![b] = w]
    BY <1>1, <1>6, StagesFollow
  <2>2. UNCHANGED <<logins, copies>>
    BY <1>6 DEF Staging, FetchPermissions, PermissionsAreHere, FetchEntity, CheckAgain,
       AgainIsHere, Freshen, TopIsHere
  <2>3. visits'[b] = w
    BY <2>1 DEF VisitsInv
  <2>4. /\ w.at = "render" => Told(w.top, stamp)
        /\ w.at = "dated" => AnswerTells(w, now, table, stamp, reused)
    BY <1>6, <2>3, StagesAreTold
  <2>5. Fits(c, w, l)
    BY <1>1, <2>1, <2>4, StageFits
  <2> QED
    BY <1>1, <2>1, <2>2, <2>5, OneBrowserFits
<1>7. CASE Render(b)
  <2> DEFINE new == [tag |-> Tag(b, v.rev, v.top), rev |-> v.rev,
                     shown |-> [p \in Pages |-> table[p].rev], reader |-> v.id]
  <2>1. v.at = "render" /\ visits' = [visits EXCEPT ![b] = NoVisit] /\ logins' = logins
    BY <1>7 DEF Render, Go
  <2>2. copies' = copies \/ (l.kind # "token" /\ copies' = [copies EXCEPT ![b] = new])
    <3>1. copies' = IF l.kind = "token" THEN copies ELSE [copies EXCEPT ![b] = new]
      BY <1>7 DEF Render
    <3> HIDE DEF new
    <3> QED
      BY <3>1
  <2>3. Fits(c, NoVisit, l)
    BY <1>1 DEF CopyFits, NoVisit
  <2>4. ASSUME l.kind # "token"
        PROVE  Fits(new, NoVisit, l)
    <3>1. v.id = l.id /\ Told(v.top, stamp)
      BY <1>1, <2>1 DEF CopyFits
    <3>2. TagTells(new, v.top)
      <4>1. CASE l.kind = "cookie"
        BY <3>1, <4>1, TagIs DEF TagTells
      <4>2. CASE l.kind # "cookie"
        BY <3>1, <4>2, <2>4, <1>1, TagIs DEF CopyFits, TagTells
      <4> QED
        BY <4>1, <4>2
    <3>3. Shows(new, v.top, table, stamp, reused)
      BY DEF Shows
    <3> HIDE DEF new
    <3>4. CopyTells(new, table, stamp, reused)
      BY <3>1, <3>2, <3>3 DEF CopyTells, Told
    <3> QED
      BY <1>1, <2>4, <3>4 DEF CopyFits, NoVisit
  <2> HIDE DEF new
  <2> QED
    BY <1>1, <2>1, <2>2, <2>3, <2>4, OneBrowserFits
<1> QED
  BY <1>2, <1>3, <1>4, <1>5, <1>6, <1>7 DEF Visiting, Staging

LEMMA CopiesInvariant == Spec => [](SiteInv /\ CopiesInv)
<1>1. Init => SiteInv /\ CopiesInv
  <2> SUFFICES ASSUME Init
               PROVE  SiteInv /\ CopiesInv
    OBVIOUS
  <2>1. 1 \in Revs /\ 0 \in Revs /\ 0 \in 0..MaxTime
    BY BoundsAre
  <2> DEFINE first == [NoRow EXCEPT !.rev = 1, !.touched = 1]
             entry == [page |-> Home, kind |-> "save", to |-> Home, create |-> TRUE,
                       draft |-> FALSE, rev |-> 1, touched |-> 1]
  <2>2. NoRow \in Row /\ first \in Row /\ first.rev = 1 /\ first.touched = 1 /\ NoRow.rev = 0
    BY <2>1 DEF NoRow, Row
  <2>3. entry \in Entry
    BY <2>1, HomeIsAPage DEF Entry
  <2>4. EntryFits(entry)
    BY DEF EntryFits
  <2> HIDE DEF first, entry
  <2>5. /\ table = [p \in Pages |-> IF p = Home THEN first ELSE NoRow]
        /\ log = {entry} /\ stamp = [r \in Revs |-> IF r = 1 THEN 1 ELSE 0]
        /\ now = 0 /\ saves = 1 /\ reused = {}
    BY DEF Init, first, entry
  <2>6. \A p \in Pages : RowFits(table[p], stamp, reused)
    BY <2>1, <2>2, <2>5 DEF RowFits
  <2>7. TablesInv
    BY <2>1, <2>2, <2>3, <2>4, <2>5, <2>6 DEF TablesInv
  <2>8. TopInv
    BY <2>1, BoundsAre DEF Init, TopInv
  <2>9. CopiesInv
    BY DEF Init, CopiesInv, CopyFits, NoVisit, NoLogin, None
  <2> QED
    BY <2>7, <2>8, <2>9 DEF SiteInv
<1>2. ASSUME SiteInv, CopiesInv, VisitsInv, [Next]_vars
      PROVE  SiteInv' /\ CopiesInv'
  <2>1. ASSUME UNCHANGED <<visits, logins, copies, saves, table, log, stamp, reused, topCache>>,
               now' = now \/ (now' = now + 1 /\ now < MaxTime)
        PROVE  SiteInv' /\ CopiesInv'
    <3>1. now \in Nat /\ now' \in 0..MaxTime /\ \A n \in Nat : n <= now => n <= now'
      BY <1>2, <2>1, BoundsAre DEF SiteInv, TablesInv
    <3>2. TablesInv'
      BY <1>2, <2>1, <3>1 DEF SiteInv, TablesInv
    <3>3. topCache'.until <= now' + ChangeTTL
      <4>1. topCache.until \in Nat /\ topCache.until <= now + ChangeTTL /\ ChangeTTL \in Nat
        BY <1>2, BoundsAre DEF SiteInv, TopInv
      <4> QED
        BY <2>1, <3>1, <4>1
    <3>4. TopInv'
      BY <1>2, <2>1, <3>3 DEF SiteInv, TopInv
    <3>5. ASSUME NEW b \in Browsers
          PROVE  CopyFits(copies[b], visits[b], logins[b], now', table, stamp, reused)
      <4>1. CopyFits(copies[b], visits[b], logins[b], now, table, stamp, reused)
        BY <1>2 DEF CopiesInv
      <4>2. AnswerTells(visits[b], now, table, stamp, reused)
               => AnswerTells(visits[b], now', table, stamp, reused)
        BY <3>1 DEF AnswerTells
      <4> QED
        BY <4>1, <4>2 DEF CopyFits
    <3>6. CopiesInv'
      BY <1>2, <2>1, <3>5 DEF CopiesInv
    <3> QED
      BY <3>2, <3>4, <3>6 DEF SiteInv
  <2>2. CASE Administration
    <3>1. Administer
      BY <2>2 DEF Administration, Permit, Deny, Assign, Deassign, CreateUser, EditUser,
         FinishUser, LoseUser, DeleteUser, PurgeUser
    <3> QED
      BY <2>1, <3>1 DEF Administer, site, pages
  <2>3. CASE Editing
    <3>1. UNCHANGED <<now, topCache, visits, logins, copies>>
      BY <2>3, EditingIsApart
    <3>2. TablesInv' /\ SiteGoesOn
      BY <1>2, <2>3, EditingKeepsTables DEF SiteInv
    <3>3. TopInv'
      BY <1>2, <3>1, <3>2, TopStays
    <3>4. ASSUME NEW b \in Browsers
          PROVE  CopyFits(copies[b], visits[b], logins[b], now', table', stamp', reused')
      <4>1. CopyFits(copies[b], visits[b], logins[b], now, table, stamp, reused)
        BY <1>2 DEF CopiesInv
      <4>2. TablesInv /\ UNCHANGED now
        BY <1>2, <3>1 DEF SiteInv
      <4> QED
        BY <3>2, <4>1, <4>2, FitsStill
    <3>5. CopiesInv'
      BY <1>2, <3>1, <3>4 DEF CopiesInv
    <3> QED
      BY <3>2, <3>3, <3>5 DEF SiteInv
  <2>4. CASE Tick
    BY <2>1, <2>4 DEF Tick, site, pages
  <2>5. ASSUME NEW b \in Browsers, Visiting(b)
        PROVE  SiteInv' /\ CopiesInv'
    BY <1>2, <2>5, VisitingKeepsSite, VisitingKeepsCopies
  <2>6. CASE UNCHANGED vars
    BY <2>1, <2>6 DEF vars
  <2> QED
    BY <1>2, <2>2, <2>3, <2>4, <2>5, <2>6 DEF Next
<1> QED
  BY <1>1, <1>2, VisitsInvariant, PTL DEF Spec

\* A copy that has the tag of the page now misses only what came late, and what the
\* most recent change that is in the tag could not know of yet.
LEMMA SameTagIsFresh ==
    ASSUME VisitsInv, CopiesInv, TablesInv, NEW b \in Browsers,
           visits[b].at \notin {"idle", "login"}, NEW top,
           copies[b].tag = Tag(b, visits[b].rev, top), NEW lag \in Nat, NEW until,
           Covers(top, lag, until, table, stamp, reused)
    PROVE  /\ copies[b].rev = visits[b].rev
           /\ copies[b].reader = visits[b].id
           /\ \A p \in Pages : \/ copies[b].shown[p] = table[p].rev \/ table[p].rev = 0
                               \/ table[p].at + lag >= until
                               \/ table[p].late \/ top \in reused
<1> DEFINE c == copies[b]
           v == visits[b]
           l == logins[b]
<1>1. CopyFits(c, v, l, now, table, stamp, reused)
  BY DEF CopiesInv
<1>2. v.id = l.id /\ (l.kind \in {"cookie", "token"} \/ l.id = 0)
  BY <1>1 DEF CopyFits
<1>3. \/ l.kind = "cookie" /\ c.tag = <<v.rev, top, l.user, l.id>>
      \/ l.kind # "cookie" /\ c.tag = <<v.rev, top>>
  BY TagIs
<1>4. c # NoCopy
  <2>1. NoCopy.tag = <<>>
    BY DEF NoCopy
  <2>2. \A x, y : <<x, y>> # <<>>
    OBVIOUS
  <2>3. \A x, y, z, t : <<x, y, z, t>> # <<>>
    OBVIOUS
  <2> QED
    BY <1>3, <2>1, <2>2, <2>3
<1>5. CopyTells(c, table, stamp, reused) /\ l.kind # "token"
  BY <1>1, <1>4 DEF CopyFits
<1>6. PICK then \in Revs : /\ Told(then, stamp) /\ TagTells(c, then)
                           /\ Shows(c, then, table, stamp, reused)
  BY <1>5 DEF CopyTells
<1>7. c.rev = v.rev /\ then = top /\ c.reader = v.id
  <2>1. ASSUME c.tag = <<c.rev, then>>, c.reader = 0
        PROVE  c.rev = v.rev /\ then = top /\ c.reader = v.id
    BY <2>1, <1>2, <1>3, <1>5
  <2>2. ASSUME NEW u, c.tag = <<c.rev, then, u, c.reader>>
        PROVE  c.rev = v.rev /\ then = top /\ c.reader = v.id
    BY <2>2, <1>2, <1>3
  <2> QED
    BY <1>6, <2>1, <2>2 DEF TagTells
<1>8. ASSUME NEW p \in Pages, top \notin reused, table[p].rev # 0, ~table[p].late,
             ~(table[p].at + lag >= until)
      PROVE  c.shown[p] = table[p].rev
  <2>1. table[p].touched <= stamp[top]
    BY <1>8 DEF Covers
  <2>2. stamp[top] < table[p].touched \/ c.shown[p] = table[p].rev
    BY <1>6, <1>7, <1>8 DEF Shows
  <2>3. stamp[top] \in Nat /\ table[p].touched \in Nat
    <3>1. top \in Revs
      BY <1>6, <1>7
    <3>2. stamp[top] \in Revs /\ table[p].touched \in Revs
      BY <3>1 DEF TablesInv, Row
    <3> QED
      BY <3>2, BoundsAre
  <2> HIDE DEF c
  <2> QED
    BY <2>1, <2>2, <2>3
<1> QED
  BY <1>7, <1>8

\* What a browser is told to keep is the page's current revision, made for its
\* present reader, and misses only rows that are younger than a cache entry and the
\* query behind it, that came late, or that a revision published twice hides, for any
\* number of browsers, accounts, pages and revisions.
THEOREM NotModifiedHolds == Spec => NotModifiedIsTrue
<1> DEFINE Right(b) ==
             /\ copies[b].rev = visits[b].rev /\ copies[b].reader = visits[b].id
             /\ \A p \in Pages :
                   \/ copies[b].shown[p] = table[p].rev \/ table[p].rev = 0
                   \/ table[p].at + TopAge(b) >= now
                   \/ table[p].late \/ TopOf(b) \in reused
<1>1. ASSUME SiteInv, VisitsInv, CopiesInv, Next, NEW b \in Browsers, Keeps(b)
      PROVE  Right(b)
  <2>1. visits[b].at \in {"fresh", "dated"} /\ visits'[b].at = "idle"
    BY <1>1 DEF Keeps
  <2>2. ~(Administration \/ Editing \/ Tick)
    <3>1. Administration => UNCHANGED visits
      BY DEF Administration, Administer, Permit, Deny, Assign, Deassign, CreateUser, EditUser,
         FinishUser, LoseUser, DeleteUser, PurgeUser
    <3>2. Editing \/ Tick => UNCHANGED visits
      BY EditingIsApart DEF Tick
    <3> QED
      BY <2>1, <3>1, <3>2
  <2>3. PICK x \in Browsers : Visiting(x)
    BY <1>1, <2>2 DEF Next
  <2>4. x = b
    BY <1>1, <2>1, <2>3, OneVisitGoesOn
  <2>5. \/ Freshen(b) /\ visits[b].at = "fresh"
        \/ TopIsHere(b) /\ visits[b].at = "dated"
    <3>1. Staging(b)
      <4>1. ~Staging(b) => visits[b].at \in {"idle", "login"}
        BY <2>3, <2>4 DEF Visiting, Staging, AskForSession, AskForToken, FindAccount,
           GrantSession, GrantToken, LogOut, ArriveAsNobody, ArriveBySession, ArriveByToken,
           Enter
      <4> QED
        BY <2>1, <4>1
    <3>2. /\ Freshen(b) => visits[b].at = "fresh"
          /\ TopIsHere(b) => visits[b].at = "dated"
      BY DEF Freshen, TopIsHere
    <3>3. (\/ FetchPermissions(b) \/ PermissionsAreHere(b) \/ FetchEntity(b)
           \/ CheckAgain(b) \/ AgainIsHere(b) \/ Render(b))
          => visits[b].at \notin {"fresh", "dated"}
      BY DEF FetchPermissions, PermissionsAreHere, FetchEntity, CheckAgain, AgainIsHere, Render
    <3>4. Freshen(b) \/ TopIsHere(b)
      <4>1. visits[b].at \in {"fresh", "dated"}
        BY <2>1
      <4> QED
        BY <3>1, <3>3, <4>1, Zenon DEF Staging
    <3> QED
      BY <3>2, <3>4
  <2>6. /\ visits = [y \in Browsers |-> visits[y]]
        /\ visits[b] = [f \in Fields |-> visits[b][f]]
    BY <1>1 DEF VisitsInv, Sound
  <2>7. ASSUME NEW top, WithTop(b, top)
        PROVE  copies[b].tag = Tag(b, visits[b].rev, top)
    <3>1. ASSUME ~Confirms(b, top)
          PROVE  visits'[b].at = "render"
      <4>1. visits'[b] = [visits[b] EXCEPT !.at = "render", !.top = top]
        BY <2>6, <2>7, <3>1 DEF WithTop, Go
      <4>2. [visits[b] EXCEPT !.at = "render", !.top = top].at = "render"
        BY <2>6, FieldsAre
      <4> QED
        BY <4>1, <4>2
    <3> QED
      BY <2>1, <3>1 DEF Confirms
  <2>8. now \in Nat /\ ChangeTTL \in Nat /\ \A p \in Pages : table[p].at \in Nat
    BY <1>1, BoundsAre DEF SiteInv, TablesInv, Row
  <2>9. CASE Freshen(b) /\ visits[b].at = "fresh"
    <3>1. TopHit /\ WithTop(b, topCache.top)
      <4>1. ASSUME NEW top, Go(b, [visits[b] EXCEPT !.at = "dated", !.top = top, !.since = now])
            PROVE  FALSE
        <5>1. visits'[b] = [visits[b] EXCEPT !.at = "dated", !.top = top, !.since = now]
          BY <2>6, <4>1 DEF Go
        <5>2. [visits[b] EXCEPT !.at = "dated", !.top = top, !.since = now].at = "dated"
          BY <2>6, FieldsAre
        <5> QED
          BY <2>1, <5>1, <5>2
      <4>2. TopHit \/ TopRevs # {}
        BY <1>1, <2>9 DEF Keeps
      <4> QED
        BY <2>9, <4>1, <4>2 DEF Freshen
    <3>2. /\ topCache.until > now /\ topCache.until \in Nat /\ topCache.took \in Nat
      BY <1>1, <3>1 DEF TopHit, SiteInv, TopInv
    <3>3. Covers(topCache.top, ChangeTTL + topCache.took, topCache.until, table, stamp, reused)
      BY <1>1, <2>8, <3>2 DEF SiteInv, TopInv
    <3>4. TopOf(b) = topCache.top /\ TopAge(b) = ChangeTTL + topCache.took
      BY <2>9 DEF TopOf, TopAge
    <3>5. ChangeTTL + topCache.took \in Nat
      BY <2>8, <3>2
    <3>6. /\ copies[b].rev = visits[b].rev /\ copies[b].reader = visits[b].id
          /\ \A p \in Pages :
                \/ copies[b].shown[p] = table[p].rev \/ table[p].rev = 0
                \/ table[p].at + (ChangeTTL + topCache.took) >= topCache.until
                \/ table[p].late \/ topCache.top \in reused
      <4>1. copies[b].tag = Tag(b, visits[b].rev, topCache.top)
        BY <2>7, <3>1
      <4> QED
        BY <1>1, <2>1, <3>3, <3>5, <4>1, SameTagIsFresh DEF SiteInv
    <3>7. \A p \in Pages : table[p].at + (ChangeTTL + topCache.took) >= topCache.until
                              => table[p].at + (ChangeTTL + topCache.took) >= now
      BY <2>8, <3>2, <3>5
    <3> QED
      BY <3>4, <3>6, <3>7
  <2>10. CASE TopIsHere(b) /\ visits[b].at = "dated"
    <3>1. WithTop(b, visits[b].top)
      BY <2>10 DEF TopIsHere
    <3>2. AnswerTells(visits[b], now, table, stamp, reused)
      BY <1>1, <2>10 DEF CopiesInv, CopyFits
    <3>3. /\ visits[b].since \in Nat /\ visits[b].since <= now
          /\ Covers(visits[b].top, 0, visits[b].since, table, stamp, reused)
      BY <3>2 DEF AnswerTells
    <3>4. TopOf(b) = visits[b].top /\ TopAge(b) = now - visits[b].since
      BY <2>10 DEF TopOf, TopAge
    <3>5. /\ copies[b].rev = visits[b].rev /\ copies[b].reader = visits[b].id
          /\ \A p \in Pages :
                \/ copies[b].shown[p] = table[p].rev \/ table[p].rev = 0
                \/ table[p].at + 0 >= visits[b].since
                \/ table[p].late \/ visits[b].top \in reused
      <4>1. copies[b].tag = Tag(b, visits[b].rev, visits[b].top)
        BY <2>7, <3>1
      <4>2. 0 \in Nat
        OBVIOUS
      <4> QED
        BY <1>1, <2>1, <3>3, <4>1, <4>2, SameTagIsFresh DEF SiteInv
    <3>6. \A p \in Pages : table[p].at + 0 >= visits[b].since
                              => table[p].at + (now - visits[b].since) >= now
      BY <2>8, <3>3
    <3> QED
      BY <3>4, <3>5, <3>6
  <2> QED
    BY <2>5, <2>9, <2>10
<1>2. SiteInv /\ CopiesInv /\ VisitsInv /\ [Next]_vars =>
        [\A b \in Browsers : Keeps(b) => Right(b)]_vars
  BY <1>1
<1> QED
  BY <1>2, VisitsInvariant, CopiesInvariant, PTL DEF Spec, NotModifiedIsTrue

---------------------------------------------------------------------------
(* Types. *)

Stages == {"idle", "login", "perms", "asked", "entity", "again", "asked again", "fresh",
           "dated", "render"}
Kinds == {None, "view", "edit", "tag", "create", "cookie", "token"}

\* What the types of the variables need beside the invariants above.
Ranges ==
    /\ work \in Ids /\ locked \subseteq Ids /\ overtaken \subseteq [id : Ids, by : Ids]
    /\ turned \in [Subjects -> [Perms -> 0..MaxTime]]
    /\ logins \in [Browsers -> Login]
    /\ visits \in [Browsers -> Visit]

LEMMA RangesInit == Init => Ranges
<1> SUFFICES ASSUME Init
             PROVE  Ranges
  OBVIOUS
<1>1. NoVisit \in Visit
  BY BoundsAre DEF NoVisit, Visit, None
<1>2. NoLogin \in Login
  BY BoundsAre DEF NoLogin, Login
<1> QED
  BY <1>1, <1>2, BoundsAre DEF Init, Ranges

\* What the other invariants say of the values that a step reads.
LEMMA ValuesAre ==
    ASSUME AccountsInv, VisitsInv, PermsInv, SiteInv
    PROVE  /\ now \in 0..MaxTime
           /\ \A u \in Users : rows[u] \in Account
           /\ \A p \in Pages : table[p] \in Row /\ table[p].rev \in Revs
           /\ TopRevs \subseteq Revs /\ topCache.top \in Revs
           /\ \A s : Effective(s) \in SUBSET Perms
           /\ \A s \in Subjects : permCache[s].perms \in SUBSET Perms
           /\ \A b \in Browsers : Subject(visits[b]) \in Subjects
<1>1. now \in 0..MaxTime /\ \A p \in Pages : table[p] \in Row
  BY DEF SiteInv, TablesInv
<1>2. \A p \in Pages : table[p].rev \in Revs
  BY <1>1 DEF Row
<1>3. TopRevs \subseteq Revs
  BY <1>2 DEF TopRevs
<1>4. topCache.top \in Revs
  BY DEF SiteInv, TopInv
<1>5. \A u \in Users : rows[u] \in Account
  BY DEF AccountsInv, AccountsTyped
<1>6. \A s \in Subjects : permCache[s].perms \in SUBSET Perms
  BY DEF PermsInv, CacheEntry
<1> QED
  BY <1>1, <1>2, <1>3, <1>4, <1>5, <1>6, EffectiveArePerms, SubjectsAre

\* A request that goes to its next stage is still a request.
LEMMA StagesAreTyped ==
    ASSUME NEW v \in Visit
    PROVE  /\ NoVisit \in Visit
           /\ v.at \in Stages /\ v.kind \in Kinds /\ v.user \in Users \cup {None}
           /\ v.id \in Ids /\ v.may \in SUBSET Perms /\ v.top \in Revs
           /\ \A at \in Stages :
                 /\ [v EXCEPT !.at = at] \in Visit
                 /\ \A may \in SUBSET Perms :
                       /\ [v EXCEPT !.at = at, !.may = may] \in Visit
                       /\ \A since \in 0..MaxTime :
                             [v EXCEPT !.at = at, !.may = may, !.since = since] \in Visit
                 /\ \A rev \in Revs :
                       /\ [v EXCEPT !.at = at, !.rev = rev] \in Visit
                       /\ [v EXCEPT !.at = at, !.top = rev] \in Visit
                       /\ \A since \in 0..MaxTime :
                             [v EXCEPT !.at = at, !.top = rev, !.since = since] \in Visit
           /\ \A at \in Stages, kind \in Kinds, user \in Users \cup {None}, id \in Ids :
                 /\ [NoVisit EXCEPT !.at = at, !.kind = kind, !.user = user, !.id = id] \in Visit
                 /\ \A a \in Account :
                       [NoVisit EXCEPT !.at = at, !.kind = kind, !.user = user, !.id = a.id,
                                       !.email = a.email, !.disabled = a.disabled] \in Visit
<1>1. NoVisit \in Visit
  BY BoundsAre DEF NoVisit, Visit, None
<1>2. /\ v.at \in Stages /\ v.kind \in Kinds /\ v.user \in Users \cup {None}
      /\ v.id \in Ids /\ v.may \in SUBSET Perms /\ v.top \in Revs
  BY DEF Visit, Stages, Kinds
<1>3. ASSUME NEW at \in Stages
      PROVE  /\ [v EXCEPT !.at = at] \in Visit
             /\ \A may \in SUBSET Perms : [v EXCEPT !.at = at, !.may = may] \in Visit
             /\ \A rev \in Revs : /\ [v EXCEPT !.at = at, !.rev = rev] \in Visit
                                  /\ [v EXCEPT !.at = at, !.top = rev] \in Visit
  BY DEF Visit, Stages
<1>4. ASSUME NEW at \in Stages, NEW since \in 0..MaxTime, NEW may \in SUBSET Perms
      PROVE  [v EXCEPT !.at = at, !.may = may, !.since = since] \in Visit
  BY DEF Visit, Stages
<1>5. ASSUME NEW at \in Stages, NEW since \in 0..MaxTime, NEW rev \in Revs
      PROVE  [v EXCEPT !.at = at, !.top = rev, !.since = since] \in Visit
  BY DEF Visit, Stages
<1>6. ASSUME NEW at \in Stages, NEW kind \in Kinds, NEW user \in Users \cup {None},
             NEW id \in Ids
      PROVE  [NoVisit EXCEPT !.at = at, !.kind = kind, !.user = user, !.id = id] \in Visit
  BY <1>1 DEF Visit, Stages, Kinds
<1>7. ASSUME NEW at \in Stages, NEW kind \in Kinds, NEW user \in Users \cup {None},
             NEW a \in Account
      PROVE  [NoVisit EXCEPT !.at = at, !.kind = kind, !.user = user, !.id = a.id,
                             !.email = a.email, !.disabled = a.disabled] \in Visit
  <2>1. /\ a.id \in Ids /\ a.email \in Emails \cup {None} /\ a.disabled \in BOOLEAN
    BY DEF Account
  <2>2. \A id \in Ids, email \in Emails \cup {None}, disabled \in BOOLEAN :
           [NoVisit EXCEPT !.at = at, !.kind = kind, !.user = user, !.id = id,
                           !.email = email, !.disabled = disabled] \in Visit
    BY <1>1 DEF Visit, Stages, Kinds
  <2> QED
    BY <2>1, <2>2
<1> QED
  BY <1>1, <1>2, <1>3, <1>4, <1>5, <1>6, <1>7

\* Where a stage goes from here.
LEMMA StagesKeepVisits ==
    ASSUME Ranges, AccountsInv, VisitsInv, PermsInv, SiteInv, NEW b \in Browsers, Staging(b)
    PROVE  visits' \in [Browsers -> Visit]
<1> DEFINE v == visits[b]
           To(w) == visits' = [visits EXCEPT ![b] = w]
<1>1. v \in Visit /\ visits \in [Browsers -> Visit]
  BY DEF Ranges
<1>2. \A w \in Visit : To(w) => visits' \in [Browsers -> Visit]
  BY <1>1
<1>3. NoVisit \in Visit /\ v.may \in SUBSET Perms /\ v.top \in Revs
  BY <1>1, StagesAreTyped
<1>4. \A perms \in SUBSET Perms : WithPermissions(v, perms) \in Visit
  BY <1>1, <1>3, StagesAreTyped DEF WithPermissions, Stages
<1>5. ASSUME NEW top \in Revs, WithTop(b, top)
      PROVE  visits' \in [Browsers -> Visit]
  <2>1. [v EXCEPT !.at = "render", !.top = top] \in Visit
    BY <1>1, StagesAreTyped DEF Stages
  <2> DEFINE w == IF Confirms(b, top) THEN NoVisit
                  ELSE [v EXCEPT !.at = "render", !.top = top]
  <2>2. w \in Visit
    BY <1>3, <2>1
  <2>3. To(w)
    BY <1>5 DEF WithTop, Go
  <2> HIDE DEF w, To
  <2> QED
    BY <1>2, <2>2, <2>3
<1>6. CASE FetchPermissions(b)
  <2> DEFINE s == Subject(v)
             asked == [v EXCEPT !.at = "asked", !.may = Effective(s), !.since = now]
             w == IF Hit(s) THEN WithPermissions(v, permCache[s].perms) ELSE asked
  <2>1. s \in Subjects /\ permCache[s].perms \in SUBSET Perms
        /\ Effective(s) \in SUBSET Perms /\ now \in 0..MaxTime
    BY ValuesAre
  <2>2. asked \in Visit
    BY <1>1, <2>1, StagesAreTyped DEF Stages
  <2>3. w \in Visit
    BY <1>4, <2>1, <2>2
  <2>4. To(w)
    BY <1>6 DEF FetchPermissions, Go
  <2> HIDE DEF w, To
  <2> QED
    BY <1>2, <2>3, <2>4
<1>7. CASE PermissionsAreHere(b)
  <2>1. To(WithPermissions(v, v.may)) /\ WithPermissions(v, v.may) \in Visit
    BY <1>3, <1>4, <1>7 DEF PermissionsAreHere, Go
  <2> QED
    BY <1>2, <2>1
<1>8. CASE FetchEntity(b)
  <2> DEFINE w == CASE ~Allowed(v) \/ ~HasPage(Home) -> NoVisit
                    [] Allowed(v) /\ Options(v.kind).effective -> [v EXCEPT !.at = "again"]
                    [] Allowed(v) /\ v.kind = "view" ->
                          [v EXCEPT !.at = "fresh", !.rev = table[Home].rev]
                    [] OTHER -> NoVisit
  <2>1. w \in {NoVisit, [v EXCEPT !.at = "again"],
               [v EXCEPT !.at = "fresh", !.rev = table[Home].rev]}
    OBVIOUS
  <2>2. table[Home].rev \in Revs
    BY ValuesAre, HomeIsAPage
  <2>3. /\ [v EXCEPT !.at = "again"] \in Visit
        /\ [v EXCEPT !.at = "fresh", !.rev = table[Home].rev] \in Visit
    BY <1>1, <2>2, StagesAreTyped DEF Stages
  <2>4. To(w)
    BY <1>8 DEF FetchEntity, Go
  <2> HIDE DEF w, To
  <2> QED
    BY <1>2, <1>3, <2>1, <2>3, <2>4
<1>9. CASE CheckAgain(b)
  <2> DEFINE asked == [v EXCEPT !.at = "asked again", !.may = Effective(v.user), !.since = now]
             w == IF v.user = None \/ Hit(v.user) THEN NoVisit ELSE asked
  <2>1. Effective(v.user) \in SUBSET Perms /\ now \in 0..MaxTime
    BY ValuesAre
  <2>2. asked \in Visit
    BY <1>1, <2>1, StagesAreTyped DEF Stages
  <2>3. w \in Visit
    BY <1>3, <2>2
  <2>4. To(w)
    BY <1>9 DEF CheckAgain, Go
  <2> HIDE DEF w, To
  <2> QED
    BY <1>2, <2>3, <2>4
<1>10. CASE AgainIsHere(b) \/ Render(b)
  <2>1. To(NoVisit)
    BY <1>10 DEF AgainIsHere, Render, Go
  <2> QED
    BY <1>2, <1>3, <2>1
<1>11. CASE Freshen(b)
  <2>1. TopRevs \subseteq Revs /\ topCache.top \in Revs /\ now \in 0..MaxTime
    BY ValuesAre
  <2>2. ASSUME NEW top \in TopRevs,
               To([v EXCEPT !.at = "dated", !.top = top, !.since = now])
        PROVE  visits' \in [Browsers -> Visit]
    <3> DEFINE w == [v EXCEPT !.at = "dated", !.top = top, !.since = now]
    <3>1. w \in Visit
      BY <1>1, <2>1, StagesAreTyped DEF Stages
    <3>2. To(w)
      BY <2>2
    <3> HIDE DEF w, To
    <3> QED
      BY <1>2, <3>1, <3>2
  <2>3. To(NoVisit) => visits' \in [Browsers -> Visit]
    BY <1>2, <1>3
  <2>4. WithTop(b, topCache.top) => visits' \in [Browsers -> Visit]
    BY <1>5, <2>1
  <2> QED
    BY <1>11, <2>2, <2>3, <2>4 DEF Freshen, Go
<1>12. CASE TopIsHere(b)
  BY <1>3, <1>5, <1>12 DEF TopIsHere
<1> QED
  BY <1>6, <1>7, <1>8, <1>9, <1>10, <1>11, <1>12 DEF Staging

LEMMA VisitingKeepsRanges ==
    ASSUME Ranges, AccountsInv, VisitsInv, PermsInv, SiteInv, NEW b \in Browsers, Visiting(b)
    PROVE  Ranges'
<1> DEFINE v == visits[b]
<1>1. v \in Visit /\ logins[b] \in Login /\ visits \in [Browsers -> Visit]
      /\ logins \in [Browsers -> Login]
  BY DEF Ranges
<1>2. NoLogin \in Login /\ NoVisit \in Visit
  BY <1>1, BoundsAre, StagesAreTyped DEF NoLogin, Login
<1>3. UNCHANGED <<work, locked, overtaken, turned>>
  BY OneVisitGoesOn DEF accounts
<1>4. ASSUME visits' \in [Browsers -> Visit], logins' \in [Browsers -> Login]
      PROVE  Ranges'
  BY <1>3, <1>4 DEF Ranges
<1>5. ASSUME NEW u \in Users, NEW kind \in {"cookie", "token"}, FindAccount(b, u, kind)
      PROVE  Ranges'
  <2> DEFINE w == [NoVisit EXCEPT !.at = "login", !.kind = kind, !.user = u,
                                  !.id = rows[u].id, !.email = rows[u].email,
                                  !.disabled = rows[u].disabled]
  <2>1. w \in Visit
    BY <1>1, ValuesAre, StagesAreTyped DEF Stages, Kinds
  <2>2. logins' = logins /\ visits' = [visits EXCEPT ![b] = w]
    BY <1>5 DEF FindAccount, Go
  <2> HIDE DEF w
  <2> QED
    BY <1>1, <1>4, <2>1, <2>2
<1>6. ASSUME NEW granted, FinishLogIn(b, granted), v.kind \in {"cookie", "token"}
      PROVE  Ranges'
  <2> DEFINE l == [kind |-> v.kind, user |-> v.user, id |-> v.id]
  <2>1. l \in Login
    BY <1>1, <1>6, StagesAreTyped DEF Login
  <2>2. visits' = [visits EXCEPT ![b] = NoVisit]
        /\ (logins' = [logins EXCEPT ![b] = l] \/ logins' = logins)
    BY <1>6 DEF FinishLogIn, Go
  <2> HIDE DEF l
  <2> QED
    BY <1>1, <1>2, <1>4, <2>1, <2>2
<1>7. CASE LogOut(b)
  <2>1. visits' = visits /\ logins' = [logins EXCEPT ![b] = NoLogin]
    BY <1>7 DEF LogOut
  <2> QED
    BY <1>1, <1>2, <1>4, <2>1
<1>8. ASSUME NEW kind \in {"view", "edit", "tag", "create"}, NEW user \in Users \cup {None},
             NEW id \in Ids, Enter(b, kind, user, id),
             logins' \in {logins, [logins EXCEPT ![b] = NoLogin]}
      PROVE  Ranges'
  <2> DEFINE w == [NoVisit EXCEPT !.at = First(kind), !.kind = kind, !.user = user, !.id = id]
  <2>1. w \in Visit
    BY <1>1, StagesAreTyped DEF Stages, Kinds, First
  <2>2. visits' = [visits EXCEPT ![b] = w]
    BY <1>8 DEF Enter, Go
  <2> HIDE DEF w
  <2> QED
    BY <1>1, <1>2, <1>4, <1>8, <2>1, <2>2
<1>9. ASSUME NEW kind \in {"view", "edit", "tag", "create"},
             ArriveAsNobody(b, kind) \/ ArriveBySession(b, kind) \/ ArriveByToken(b, kind)
      PROVE  Ranges'
  <2>1. 0 \in Ids /\ logins[b].user \in Users \cup {None}
    BY <1>1, BoundsAre DEF Login
  <2>2. logins[b].kind # None => logins[b].user \in Users
    BY DEF VisitsInv
  <2>3. \A u \in Users : rows[u].id \in Ids
    BY ValuesAre DEF Account
  <2>4. "cookie" # None /\ "token" # None
    BY DEF None
  <2>5. CASE ArriveAsNobody(b, kind)
    BY <1>8, <2>1, <2>5 DEF ArriveAsNobody
  <2>6. CASE ArriveBySession(b, kind)
    BY <1>8, <2>1, <2>2, <2>3, <2>4, <2>6 DEF ArriveBySession
  <2>7. CASE ArriveByToken(b, kind)
    BY <1>8, <2>1, <2>2, <2>3, <2>4, <2>7 DEF ArriveByToken
  <2> QED
    BY <1>9, <2>5, <2>6, <2>7
<1>10. CASE Staging(b)
  <2>1. logins' = logins
    BY <1>10 DEF Staging, FetchPermissions, PermissionsAreHere, FetchEntity, CheckAgain,
       AgainIsHere, Freshen, TopIsHere, Render
  <2> QED
    BY <1>1, <1>4, <1>10, <2>1, StagesKeepVisits
<1>11. \A u \in Users : AskForSession(b, u) \/ AskForToken(b, u) => Ranges'
  BY <1>5 DEF AskForSession, AskForToken
<1>12. GrantSession(b) \/ GrantToken(b) => Ranges'
  BY <1>6 DEF GrantSession, GrantToken
<1> QED
  BY <1>7, <1>9, <1>10, <1>11, <1>12 DEF Visiting, Staging

\* A transaction of an administrator.
LEMMA AdministrationKeepsRanges ==
    ASSUME Ranges, AccountsInv, SiteInv, Administration
    PROVE  Ranges'
<1>1. Administer
  BY DEF Administration, Permit, Deny, Assign, Deassign, CreateUser, EditUser,
     FinishUser, LoseUser, DeleteUser, PurgeUser
<1>2. UNCHANGED <<logins, visits>> /\ turned' \in [Subjects -> [Perms -> 0..MaxTime]]
  BY <1>1 DEF Administer, SiteInv, TablesInv, Ranges
<1>3. work' = work \/ (work < MaxWork /\ work' = work + 1)
  BY DEF Administration, Permit, Deny, Assign, Deassign, CreateUser, EditUser,
     FinishUser, LoseUser, DeleteUser, PurgeUser, Work
<1>4. work' \in Ids
  BY <1>3, BoundsAre DEF Ranges, Ids
<1>5. (\A m \in making : m.id \in Ids) /\ (\A u \in Users : rows[u].id \in Ids)
  BY DEF AccountsInv, AccountsTyped, Making, Account
<1>6. locked' \subseteq Ids
  <2>1. ASSUME NEW m \in making, FinishUser(m) \/ LoseUser(m)
        PROVE  locked' \in {locked, locked \cup {m.id}}
    BY <2>1 DEF FinishUser, LoseUser
  <2>2. ASSUME NEW u \in Users, NEW e, NEW d, EditUser(u, e, d)
        PROVE  locked' \in {locked, locked \cup {rows[u].id}}
    BY <2>2 DEF EditUser
  <2>3. \/ locked' = locked
        \/ \E m \in making : FinishUser(m) \/ LoseUser(m)
        \/ \E u \in Users : \E e, d : EditUser(u, e, d)
    BY DEF Administration, Permit, Deny, Assign, Deassign, CreateUser, DeleteUser,
       PurgeUser, accounts
  <2> QED
    BY <1>5, <2>1, <2>2, <2>3 DEF Ranges
<1>7. overtaken' \subseteq [id : Ids, by : Ids]
  <2>1. ASSUME NEW u \in Users, NEW e, CreateUser(u, e)
        PROVE  overtaken' \subseteq [id : Ids, by : Ids]
    <3>1. work' = work + 1
      BY <2>1 DEF CreateUser, Work
    <3>2. \A x \in overtaken' : \/ x \in overtaken
                                \/ \E m \in making : x = [id |-> m.id, by |-> work + 1]
      BY <2>1 DEF CreateUser, Overtake
    <3> QED
      BY <1>4, <1>5, <3>1, <3>2 DEF Ranges
  <2>2. \/ overtaken' = overtaken
        \/ \E u \in Users : \E e : CreateUser(u, e)
    BY DEF Administration, Permit, Deny, Assign, Deassign, EditUser, FinishUser, LoseUser,
       DeleteUser, PurgeUser, accounts
  <2> QED
    BY <2>1, <2>2 DEF Ranges
<1> QED
  BY <1>2, <1>4, <1>6, <1>7 DEF Ranges

LEMMA StepKeepsRanges ==
    ASSUME Ranges, AccountsInv, VisitsInv, PermsInv, SiteInv, [Next]_vars
    PROVE  Ranges'
<1>1. CASE Administration
  BY <1>1, AdministrationKeepsRanges
<1>2. CASE Editing \/ Tick
  <2>1. UNCHANGED <<work, locked, overtaken, turned, logins, visits>>
    BY <1>2, EditingIsApart DEF Tick, accounts, rights
  <2> QED
    BY <2>1 DEF Ranges
<1>3. ASSUME NEW b \in Browsers, Visiting(b)
      PROVE  Ranges'
  BY <1>3, VisitingKeepsRanges
<1>4. CASE UNCHANGED vars
  BY <1>4 DEF vars, Ranges
<1> QED
  BY <1>1, <1>2, <1>3, <1>4 DEF Next

\* Every variable keeps its type: the rows of accounts, credentials and pages, what
\* the caches hold, and at each of its stages the request (lib/authentication,
\* lib/query.js, lib/page.js).
THEOREM VisitTypes == Spec => []TypeOK
<1>1. Ranges /\ AccountsInv /\ VisitsInv /\ PermsInv /\ SiteInv /\ [Next]_vars => Ranges'
  BY StepKeepsRanges
<1>2. ASSUME Ranges, AccountsInv, PermsInv, SiteInv
      PROVE  TypeOK
  <2>1. permCache \in [Subjects -> [until : Nat, perms : SUBSET Perms, took : Nat]]
    BY <1>2 DEF PermsInv, CacheEntry
  <2>2. making \subseteq [user : Users, id : Ids, email : Emails \cup {None}]
    BY <1>2 DEF AccountsInv, AccountsTyped, Making
  <2> QED
    BY <1>2, <2>1, <2>2 DEF TypeOK, Ranges, AccountsInv, AccountsTyped, PermsInv, SiteInv,
       TablesInv, TopInv
<1> QED
  BY <1>1, <1>2, RangesInit, AccountsInvariant, VisitsInvariant, PermsInvariant,
     CopiesInvariant, PTL DEF Spec

=============================================================================
