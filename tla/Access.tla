-------------------------------- MODULE Access --------------------------------
(***************************************************************************)
(* Accounts, sessions, companies and memberships: registration, login and  *)
(* refresh, the check of the access token every protected call begins      *)
(* with, the creation of companies and the grants of memberships.          *)
(*                                                                         *)
(* A call is one transaction (READ COMMITTED, no SELECT locks); an insert  *)
(* that meets a unique key another open call has inserted waits for it.    *)
(* A row is named by the call that inserted it, the user of an address     *)
(* that was registered before by the address.  Passwords are not modelled: *)
(* a login with the right one is accepted, any other refused.  No code     *)
(* changes the status of a company or of a membership: both are ACTIVE.    *)
(***************************************************************************)
EXTENDS Naturals, FiniteSets

CONSTANTS
  Calls,        \* requests, each sent once
  Emails,       \* normalised addresses
  Registered,   \* those registered before the model begins, with a session each
  Documents,    \* company documents
  AccessLife,   \* jwt_access_token_expire_minutes
  RefreshLife,  \* jwt_refresh_token_expire_days
  MaxOpen,      \* bound: calls open at the same time
  MaxTime       \* bound: last value of the clock

ASSUME AccessAssumption ==
  /\ IsFiniteSet(Calls)
  /\ Registered \subseteq Emails
  /\ Calls \cap Emails = {}
  /\ AccessLife \in Nat \ {0}
  /\ RefreshLife \in Nat /\ AccessLife < RefreshLife
  /\ MaxOpen \in Nat \ {0}
  /\ MaxTime \in Nat

COMPANY_ADMIN_ROLES == {"OWNER", "ADMIN"}
Roles == COMPANY_ADMIN_ROLES \cup {"OPERATOR", "VIEWER"}
UserIds == Calls \cup Registered

User == [id : UserIds, email : Emails, status : {"ACTIVE", "DISABLED"}]
Company == [id : Calls, document : Documents]
Member == [id : Calls, company : Calls, user : UserIds, role : Roles]
Token == [type : {"access", "refresh"}, user : UserIds, exp : Nat]

\* What a call asks for, and the user it acts for once it knows.
Request ==
  {[kind |-> "none"]}
    \cup [kind : {"register"}, email : Emails]
    \cup [kind : {"login"}, user : UserIds]
    \cup [kind : {"create"}, user : UserIds, document : Documents]
    \cup [kind : {"add"}, user : UserIds, company : Calls, target : UserIds, role : Roles]

VARIABLES
  clock,
  users, companies, members,   \* the committed rows
  tokens,    \* in the hands of the clients
  pc,        \* the next statement of each call
  request,   \* of each open call
  new,       \* rows each open call has inserted
  minted     \* tokens each open call will answer with

tables == <<users, companies, members>>
vars == <<clock, tables, tokens, pc, request, new, minted>>

NoRequest == [kind |-> "none"]
NoRows == [users |-> {}, companies |-> {}, members |-> {}]

\* Mutated: the tokens carry the type of the answer's token_type.
BearerMinted(u) ==
  {[type |-> "bearer", user |-> u, exp |-> clock + AccessLife],
   [type |-> "bearer", user |-> u, exp |-> clock + RefreshLife]}

\* _issue_tokens: two tokens that count from now.
Minted(u) ==
  {[type |-> "access", user |-> u, exp |-> clock + AccessLife],
   [type |-> "refresh", user |-> u, exp |-> clock + RefreshLife]}

Init ==
  /\ clock = 0
  /\ users = {[id |-> e, email |-> e, status |-> "ACTIVE"] : e \in Registered}
  /\ companies = {}
  /\ members = {}
  /\ tokens = UNION {Minted(e) : e \in Registered}
  /\ pc = [c \in Calls |-> "idle"]
  /\ request = [c \in Calls |-> NoRequest]
  /\ new = [c \in Calls |-> NoRows]
  /\ minted = [c \in Calls |-> {}]

Tick ==
  /\ clock < MaxTime
  /\ clock' = clock + 1
  /\ UNCHANGED <<tables, tokens, pc, request, new, minted>>

\* Nothing in the code disables a user; every check of the status is for one who was.
Disable(u) ==
  /\ u \in users
  /\ u.status = "ACTIVE"
  /\ users' = (users \ {u}) \cup {[u EXCEPT !.status = "DISABLED"]}
  /\ UNCHANGED <<clock, companies, members, tokens, pc, request, new, minted>>

-----------------------------------------------------------------------------
(* The beginning and the end of a call *)

Open == {c \in Calls : pc[c] \notin {"idle", "done"}}
MayOpen(c) == pc[c] = "idle" /\ Cardinality(Open) < MaxOpen

Begin(c, asked, statement) ==
  /\ MayOpen(c)
  /\ request' = [request EXCEPT ![c] = asked]
  /\ pc' = [pc EXCEPT ![c] = statement]
  /\ UNCHANGED <<clock, tables, tokens, new, minted>>

Goto(c, statement) ==
  pc' = [pc EXCEPT ![c] = statement] /\ UNCHANGED <<clock, tables, tokens, request>>

Close(c) ==
  /\ pc' = [pc EXCEPT ![c] = "done"]
  /\ request' = [request EXCEPT ![c] = NoRequest]
  /\ new' = [new EXCEPT ![c] = NoRows]
  /\ minted' = [minted EXCEPT ![c] = {}]

\* 401, 403, 404 or 422 before anything is written.
Refuse(c) == MayOpen(c) /\ Close(c) /\ UNCHANGED <<clock, tables, tokens>>

\* A statement raises or the process dies: the session rolls back.
Fail(c) == c \in Open /\ Close(c) /\ UNCHANGED <<clock, tables, tokens>>

\* Mutated: the type of a token is not looked at.
AnyValid(t, type) == clock <= t.exp

\* decode_token: exp itself is still accepted.
Valid(t, type) == t.type = type /\ clock <= t.exp

Active(u) == \E x \in users : x.id = u /\ x.status = "ACTIVE"

\* get_current_user: the users a protected call may be made as.
CurrentUsers == {u \in UserIds : Active(u) /\ \E t \in tokens : t.user = u /\ Valid(t, "access")}

-----------------------------------------------------------------------------
(* Registration, login and refresh *)

StartRegister(c) == \E e \in Emails : Begin(c, [kind |-> "register", email |-> e], "find")

\* The password is right and _ensure_active has passed.
StartLogin(c) ==
  \E x \in users : Active(x.id) /\ Begin(c, [kind |-> "login", user |-> x.id], "issue")

StartRefresh(c) ==
  \E t \in tokens :
    /\ Valid(t, "refresh")
    /\ Active(t.user)
    /\ Begin(c, [kind |-> "login", user |-> t.user], "issue")

Issue(c) ==
  /\ pc[c] = "issue"
  /\ tokens' = tokens \cup Minted(request[c].user)
  /\ Close(c)
  /\ UNCHANGED <<clock, tables>>

-----------------------------------------------------------------------------
(* Companies and memberships *)

StartCreate(c) ==
  \E u \in CurrentUsers, d \in Documents :
    Begin(c, [kind |-> "create", user |-> u, document |-> d], "find")

\* Mutated: a role in any company will do.
RoleAnywhere(u, company) == {m.role : m \in {x \in members : x.user = u}}

\* The role require_company_role finds, if any.
RoleIn(u, company) == {m.role : m \in {x \in members : x.user = u /\ x.company = company}}

\* The user to add is looked for before its membership, and rows of users stay.
StartAdd(c) ==
  \E u \in CurrentUsers, company \in companies, target \in users, role \in Roles :
    /\ RoleIn(u, company.id) \cap COMPANY_ADMIN_ROLES # {}
    /\ Begin(c, [kind |-> "add", user |-> u, company |-> company.id, target |-> target.id,
                 role |-> role], "find")

-----------------------------------------------------------------------------
(* Check, insert and commit *)

\* The rows among these that hold the unique key a call asks for: users.email,
\* companies.document, company_users (company_id, user_id).
Holding(c, userRows, companyRows, memberRows) ==
  CASE request[c].kind = "register" -> {r \in userRows : r.email = request[c].email}
    [] request[c].kind = "create" -> {r \in companyRows : r.document = request[c].document}
    [] request[c].kind = "add" ->
         {r \in memberRows : r.company = request[c].company /\ r.user = request[c].target}
    [] OTHER -> {}

Held(c) == Holding(c, users, companies, members) # {}
HeldBy(k, c) == Holding(c, new[k].users, new[k].companies, new[k].members) # {}

\* The SELECT of the key.
Find(c) ==
  /\ pc[c] = "find"
  /\ ~Held(c)
  /\ Goto(c, "insert")
  /\ UNCHANGED <<new, minted>>

\* Mutated: the columns are not unique.
NothingRaises(c) == FALSE

\* The constraint raises at the insert.
Raises(c) == pc[c] = "insert" /\ Held(c)

\* 409, for the SELECT as for the constraint.
Conflict(c) ==
  /\ (pc[c] = "find" /\ Held(c)) \/ Raises(c)
  /\ Close(c)
  /\ UNCHANGED <<clock, tables, tokens>>

\* The insert waits for an open call that has inserted the key.
MayInsert(c) ==
  /\ pc[c] = "insert"
  /\ ~Raises(c)
  /\ \A k \in Open \ {c} : ~HeldBy(k, c)

\* Mutated: the tokens are handed out with the insert.
InsertUserAndAnswer(c) ==
  /\ MayInsert(c)
  /\ request[c].kind = "register"
  /\ new' = [new EXCEPT ![c].users = {[id |-> c, email |-> request[c].email, status |-> "ACTIVE"]}]
  /\ tokens' = tokens \cup Minted(c)
  /\ pc' = [pc EXCEPT ![c] = "commit"]
  /\ UNCHANGED <<clock, tables, request, minted>>

\* The tokens of a new user are made before the commit.
InsertUser(c) ==
  /\ MayInsert(c)
  /\ request[c].kind = "register"
  /\ new' = [new EXCEPT ![c].users = {[id |-> c, email |-> request[c].email, status |-> "ACTIVE"]}]
  /\ minted' = [minted EXCEPT ![c] = Minted(c)]
  /\ Goto(c, "commit")

\* Mutated: the company is committed before its owner.
InsertCompanyAndCommit(c) ==
  /\ MayInsert(c)
  /\ request[c].kind = "create"
  /\ companies' = companies \cup {[id |-> c, document |-> request[c].document]}
  /\ pc' = [pc EXCEPT ![c] = "insert_owner"]
  /\ UNCHANGED <<clock, users, members, tokens, request, new, minted>>

InsertCompany(c) ==
  /\ MayInsert(c)
  /\ request[c].kind = "create"
  /\ new' = [new EXCEPT ![c].companies = {[id |-> c, document |-> request[c].document]}]
  /\ Goto(c, "insert_owner")
  /\ UNCHANGED minted

\* Nobody knows the company yet, so that its first membership meets no other.
InsertOwner(c) ==
  /\ pc[c] = "insert_owner"
  /\ new' = [new EXCEPT ![c].members =
               {[id |-> c, company |-> c, user |-> request[c].user, role |-> "OWNER"]}]
  /\ Goto(c, "commit")
  /\ UNCHANGED minted

InsertMember(c) ==
  /\ MayInsert(c)
  /\ request[c].kind = "add"
  /\ new' = [new EXCEPT ![c].members =
               {[id |-> c, company |-> request[c].company, user |-> request[c].target,
                 role |-> request[c].role]}]
  /\ Goto(c, "commit")
  /\ UNCHANGED minted

Commit(c) ==
  /\ pc[c] = "commit"
  /\ users' = users \cup new[c].users
  /\ companies' = companies \cup new[c].companies
  /\ members' = members \cup new[c].members
  /\ tokens' = tokens \cup minted[c]
  /\ Close(c)
  /\ UNCHANGED clock

-----------------------------------------------------------------------------
Start(c) ==
  StartRegister(c) \/ StartLogin(c) \/ StartRefresh(c) \/ StartCreate(c) \/ StartAdd(c)

Continue(c) ==
  \/ Issue(c) \/ Find(c) \/ Conflict(c)
  \/ InsertUser(c) \/ InsertCompany(c) \/ InsertOwner(c) \/ InsertMember(c)
  \/ Commit(c)

Next ==
  \/ Tick
  \/ \E u \in users : Disable(u)
  \/ \E c \in Calls : Start(c) \/ Refuse(c) \/ Continue(c) \/ Fail(c)

Spec == Init /\ [][Next]_vars

-----------------------------------------------------------------------------
(* Properties *)

\* Rows, requests, sessions and tokens hold values of their kind.
TypeOK ==
  /\ clock \in Nat
  /\ users \subseteq User
  /\ companies \subseteq Company
  /\ members \subseteq Member
  /\ tokens \subseteq Token
  /\ pc \in [Calls -> {"idle", "issue", "find", "insert", "insert_owner", "commit", "done"}]
  /\ request \in [Calls -> Request]
  /\ new \in [Calls -> [users : SUBSET User, companies : SUBSET Company, members : SUBSET Member]]
  /\ minted \in [Calls -> SUBSET Token]

\* However calls overlap, an address belongs to one user, a document to one company, and a user
\* has one membership, hence one role, in a company: the queries by these keys raise on two.
KeysAreUnique ==
  /\ \A x, y \in users : x.email = y.email => x.id = y.id
  /\ \A x, y \in companies : x.document = y.document => x = y
  /\ \A x, y \in members : x.company = y.company /\ x.user = y.user => x = y

\* Whatever fails, a company has an OWNER, who alone can let others in.
CompanyHasOwner ==
  \A x \in companies : \E m \in members : m.company = x.id /\ m.role = "OWNER"

\* A client holds tokens of users that are there: those a registration has made are not handed
\* out when its commit fails.
TokensHaveUsers == \A t \in tokens : \E x \in users : x.id = t.user

\* A user comes into a company by founding it or by the grant of one of its administrators,
\* whatever roles the granting user has elsewhere.
GrantedByAdmin ==
  [][ \A m \in members' \ members :
        \E c \in Calls :
          /\ pc[c] = "commit" /\ pc'[c] = "done"
          /\ \/ request[c].kind = "create" /\ m.user = request[c].user /\ m.company = c
             \/ /\ request[c].kind = "add"
                /\ \E a \in members :
                     /\ a.user = request[c].user
                     /\ a.company = m.company
                     /\ a.role \in COMPANY_ADMIN_ROLES ]_vars

\* A protected call is made as an ACTIVE user who has registered, logged in or refreshed at most
\* AccessLife ago (a refresh token made then tells): neither the refresh token itself nor the
\* tokens of a user disabled since open anything.
CallsAreAuthenticated ==
  [][ \A c \in Calls :
        (pc[c] = "idle" /\ pc'[c] = "find" /\ request'[c].kind \in {"create", "add"}) =>
          /\ \E x \in users : x.id = request'[c].user /\ x.status = "ACTIVE"
          /\ \E t \in tokens :
               /\ t.type = "refresh" /\ t.user = request'[c].user
               /\ clock <= t.exp - RefreshLife + AccessLife ]_vars

\* However calls overlap, each that succeeds takes effect at one instant, its commit.
Contract == INSTANCE AccessContract WITH Names <- Calls
ImplementsContract == Contract!Spec

=============================================================================
