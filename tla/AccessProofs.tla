---------------------------- MODULE AccessProofs ----------------------------
(***************************************************************************)
(* Proofs about Access, for any calls, addresses, documents, lives of the  *)
(* tokens and bounds.                                                      *)
(***************************************************************************)
EXTENDS Access, TLAPS

USE AccessAssumption

\* The call has inserted rows that nobody else sees yet.
Writing(c) == pc[c] \in {"insert_owner", "commit"}

\* What a call has inserted, by what it was asked for.
UserOf(c) ==
  [NoRows EXCEPT !.users = {[id |-> c, email |-> request[c].email, status |-> "ACTIVE"]}]
CompanyOf(c) ==
  [NoRows EXCEPT !.companies = {[id |-> c, document |-> request[c].document]}]
FoundedBy(c) ==
  [CompanyOf(c) EXCEPT
     !.members = {[id |-> c, company |-> c, user |-> request[c].user, role |-> "OWNER"]}]
MemberOf(c) ==
  [NoRows EXCEPT
     !.members = {[id |-> c, company |-> request[c].company, user |-> request[c].target,
                   role |-> request[c].role]}]

\* The place a call has reached tells what it is asked for and what it has inserted.
SessionInv ==
  \A c \in Calls :
    /\ ~Writing(c) => new[c] = NoRows /\ minted[c] = {}
    /\ pc[c] = "issue" => request[c].kind = "login"
    /\ pc[c] \in {"find", "insert"} => request[c].kind \in {"register", "create", "add"}
    /\ pc[c] = "insert_owner" =>
         request[c].kind = "create" /\ new[c] = CompanyOf(c) /\ minted[c] = {}
    /\ pc[c] = "commit" =>
         \/ /\ request[c].kind = "register" /\ new[c] = UserOf(c)
            /\ \A t \in minted[c] : t.user = c
         \/ request[c].kind = "create" /\ new[c] = FoundedBy(c) /\ minted[c] = {}
         \/ request[c].kind = "add" /\ new[c] = MemberOf(c) /\ minted[c] = {}

\* Rows that are committed bear the names of calls that have ended; an administrator has asked
\* for every grant under way, and its company is there.
NamesInv ==
  /\ \A x \in users : x.id \in Calls => pc[x.id] = "done"
  /\ \A x \in companies : pc[x.id] = "done"
  /\ \A x \in members : pc[x.id] = "done" /\ pc[x.company] = "done"
  /\ \A c \in Calls : request[c].kind = "add" =>
       \E a \in members :
         /\ a.user = request[c].user
         /\ a.company = request[c].company
         /\ a.role \in COMPANY_ADMIN_ROLES

\* The key of a row that is inserted and not committed is in no committed row and in no other
\* open call's.
FreshInv ==
  \A c \in Calls : Writing(c) => ~Held(c) /\ \A k \in Calls \ {c} : ~HeldBy(k, c)

\* Whoever is about to get tokens is there.
LoginsInv ==
  \A c \in Calls : request[c].kind = "login" => \E x \in users : x.id = request[c].user

\* Every access token came with a refresh token that counts from the same instant.
Paired(S) ==
  \A t \in S : t.type = "access" =>
    \E r \in S :
      r.type = "refresh" /\ r.user = t.user /\ r.exp = t.exp - AccessLife + RefreshLife
PairsInv == Paired(tokens) /\ \A c \in Calls : Paired(minted[c])

IInv ==
  /\ TypeOK
  /\ SessionInv
  /\ NamesInv
  /\ FreshInv
  /\ LoginsInv
  /\ PairsInv
  /\ KeysAreUnique
  /\ CompanyHasOwner
  /\ TokensHaveUsers

-----------------------------------------------------------------------------
(* The steps *)

\* A call ends and nothing is written.
Ends(c) == Close(c) /\ UNCHANGED <<clock, tables, tokens>>

\* A call begins, whatever it asks for.
Starts(c) ==
  \E asked \in Request, statement \in {"issue", "find"} :
    /\ Begin(c, asked, statement)
    /\ statement = "issue" =>
         asked.kind = "login" /\ \E x \in users : x.id = asked.user
    /\ statement = "find" => asked.kind \in {"register", "create", "add"}
    /\ asked.kind \in {"create", "add"} => asked.user \in CurrentUsers
    /\ asked.kind = "add" =>
         /\ \E x \in companies : x.id = asked.company
         /\ \E x \in users : x.id = asked.target
         /\ \E a \in members :
              a.user = asked.user /\ a.company = asked.company /\ a.role \in COMPANY_ADMIN_ROLES

\* What the five ways to begin have in common.
LEMMA StartStarts ==
  ASSUME TypeOK, NEW c \in Calls, Start(c)
  PROVE  Starts(c)
<1>1. CASE StartRegister(c)
  <2>1. PICK e \in Emails : Begin(c, [kind |-> "register", email |-> e], "find")
    BY <1>1 DEF StartRegister
  <2>2. [kind |-> "register", email |-> e] \in Request
    BY DEF Request
  <2>3. QED
    BY <2>1, <2>2 DEF Starts
<1>2. CASE StartLogin(c) \/ StartRefresh(c)
  <2>1. PICK u : Active(u) /\ Begin(c, [kind |-> "login", user |-> u], "issue")
    BY <1>2 DEF StartLogin, StartRefresh
  <2>2. PICK x \in users : x.id = u
    BY <2>1 DEF Active
  <2>3. [kind |-> "login", user |-> u] \in Request
    BY <2>2 DEF Request, TypeOK, User
  <2>4. QED
    BY <2>1, <2>2, <2>3 DEF Starts
<1>3. CASE StartCreate(c)
  <2>1. PICK u \in CurrentUsers, d \in Documents :
          Begin(c, [kind |-> "create", user |-> u, document |-> d], "find")
    BY <1>3 DEF StartCreate
  <2>2. [kind |-> "create", user |-> u, document |-> d] \in Request
    BY DEF Request, CurrentUsers
  <2>3. QED
    BY <2>1, <2>2 DEF Starts
<1>4. CASE StartAdd(c)
  <2>1. PICK u \in CurrentUsers, company \in companies, target \in users, role \in Roles :
          /\ RoleIn(u, company.id) \cap COMPANY_ADMIN_ROLES # {}
          /\ Begin(c, [kind |-> "add", user |-> u, company |-> company.id,
                       target |-> target.id, role |-> role], "find")
    BY <1>4 DEF StartAdd
  <2> DEFINE asked == [kind |-> "add", user |-> u, company |-> company.id,
                       target |-> target.id, role |-> role]
  <2>2. asked \in Request
    BY DEF Request, CurrentUsers, TypeOK, Company, User
  <2>3. \E a \in members :
          a.user = asked.user /\ a.company = asked.company /\ a.role \in COMPANY_ADMIN_ROLES
    BY <2>1 DEF RoleIn
  <2>4. QED
    BY <2>1, <2>2, <2>3 DEF Starts
<1>5. QED
  BY <1>1, <1>2, <1>3, <1>4 DEF Start

\* The steps the proofs tell apart.
LEMMA Steps ==
  ASSUME TypeOK, [Next]_vars
  PROVE  \/ UNCHANGED vars
         \/ Tick
         \/ \E u \in users : Disable(u)
         \/ \E c \in Calls :
              \/ Starts(c) \/ Ends(c) \/ Issue(c) \/ Find(c)
              \/ InsertUser(c) \/ InsertCompany(c) \/ InsertOwner(c) \/ InsertMember(c)
              \/ Commit(c)
BY StartStarts DEF Next, Continue, Refuse, Fail, Conflict, Ends

-----------------------------------------------------------------------------
(* Type correctness *)

LEMMA InitTypeOK == Init => TypeOK
<1> SUFFICES ASSUME Init PROVE TypeOK
  OBVIOUS
<1>1. users \subseteq User
  BY DEF Init, User, UserIds
<1>2. tokens \subseteq Token
  BY DEF Init, Minted, Token, UserIds
<1>3. request \in [Calls -> Request] /\ new \in [Calls -> [users : SUBSET User,
        companies : SUBSET Company, members : SUBSET Member]]
  BY DEF Init, NoRequest, Request, NoRows
<1>4. QED
  BY <1>1, <1>2, <1>3 DEF Init, TypeOK

\* The tokens of a user are tokens.
LEMMA MintedTyped ==
  ASSUME clock \in Nat, NEW u \in UserIds
  PROVE  Minted(u) \subseteq Token
BY DEF Minted, Token

\* The request of an open call, by its kind.
LEMMA RequestTyped ==
  ASSUME TypeOK, NEW c \in Calls
  PROVE  /\ request[c].kind = "register" => request[c].email \in Emails
         /\ request[c].kind = "login" => request[c].user \in UserIds
         /\ request[c].kind = "create" =>
              request[c].user \in UserIds /\ request[c].document \in Documents
         /\ request[c].kind = "add" =>
              /\ request[c].user \in UserIds /\ request[c].company \in Calls
              /\ request[c].target \in UserIds /\ request[c].role \in Roles
<1>1. request[c] \in Request
  BY DEF TypeOK
<1>2. QED
  BY <1>1 DEF Request

\* The end of a call leaves the sessions well typed.
LEMMA CloseTyped ==
  ASSUME TypeOK, NEW c \in Calls, Close(c)
  PROVE  /\ pc' \in [Calls -> {"idle", "issue", "find", "insert", "insert_owner", "commit",
                               "done"}]
         /\ request' \in [Calls -> Request]
         /\ new' \in [Calls -> [users : SUBSET User, companies : SUBSET Company,
                                members : SUBSET Member]]
         /\ minted' \in [Calls -> SUBSET Token]
BY DEF Close, TypeOK, NoRequest, NoRows, Request

\* Every step leaves rows, sessions and tokens well typed.
LEMMA StepTypeOK ==
  ASSUME TypeOK, SessionInv, [Next]_vars
  PROVE  TypeOK'
<1>1. CASE UNCHANGED vars
  BY <1>1 DEF vars, tables, TypeOK
<1>2. CASE Tick
  BY <1>2 DEF Tick, tables, TypeOK
<1>3. ASSUME NEW u \in users, Disable(u)
      PROVE  TypeOK'
  <2>1. [u EXCEPT !.status = "DISABLED"] \in User
    BY DEF TypeOK, User
  <2>2. users' \subseteq User
    BY <1>3, <2>1 DEF Disable, TypeOK
  <2>3. QED
    BY <1>3, <2>2 DEF Disable, TypeOK
<1>4. ASSUME NEW c \in Calls, Starts(c)
      PROVE  TypeOK'
  BY <1>4 DEF Starts, Begin, tables, TypeOK
<1>5. ASSUME NEW c \in Calls, Ends(c)
      PROVE  TypeOK'
  BY <1>5, CloseTyped DEF Ends, tables, TypeOK
<1>6. ASSUME NEW c \in Calls, Issue(c)
      PROVE  TypeOK'
  <2>1. request[c].user \in UserIds
    BY <1>6, RequestTyped DEF Issue, SessionInv
  <2>2. tokens' \subseteq Token
    BY <1>6, <2>1, MintedTyped DEF Issue, TypeOK
  <2>3. QED
    BY <1>6, <2>2, CloseTyped DEF Issue, tables, TypeOK
<1>7. ASSUME NEW c \in Calls, Find(c)
      PROVE  TypeOK'
  BY <1>7 DEF Find, Goto, tables, TypeOK
<1>8. ASSUME NEW c \in Calls, InsertUser(c)
      PROVE  TypeOK'
  <2>1. [id |-> c, email |-> request[c].email, status |-> "ACTIVE"] \in User
    BY <1>8, RequestTyped DEF InsertUser, User, UserIds
  <2>2. Minted(c) \subseteq Token
    BY MintedTyped DEF TypeOK, UserIds
  <2>3. QED
    BY <1>8, <2>1, <2>2 DEF InsertUser, Goto, tables, TypeOK
<1>9. ASSUME NEW c \in Calls, InsertCompany(c)
      PROVE  TypeOK'
  <2>1. [id |-> c, document |-> request[c].document] \in Company
    BY <1>9, RequestTyped DEF InsertCompany, Company
  <2>2. QED
    BY <1>9, <2>1 DEF InsertCompany, Goto, tables, TypeOK
<1>10. ASSUME NEW c \in Calls, InsertOwner(c)
       PROVE  TypeOK'
  <2>1. [id |-> c, company |-> c, user |-> request[c].user, role |-> "OWNER"] \in Member
    BY <1>10, RequestTyped DEF InsertOwner, SessionInv, Member, Roles, COMPANY_ADMIN_ROLES
  <2>2. QED
    BY <1>10, <2>1 DEF InsertOwner, Goto, tables, TypeOK
<1>11. ASSUME NEW c \in Calls, InsertMember(c)
       PROVE  TypeOK'
  <2>1. [id |-> c, company |-> request[c].company, user |-> request[c].target,
         role |-> request[c].role] \in Member
    BY <1>11, RequestTyped DEF InsertMember, Member
  <2>2. QED
    BY <1>11, <2>1 DEF InsertMember, Goto, tables, TypeOK
<1>12. ASSUME NEW c \in Calls, Commit(c)
       PROVE  TypeOK'
  <2>1. /\ users' \subseteq User /\ companies' \subseteq Company /\ members' \subseteq Member
        /\ tokens' \subseteq Token /\ clock' \in Nat
    BY <1>12 DEF Commit, TypeOK
  <2>2. QED
    BY <1>12, <2>1, CloseTyped DEF Commit, TypeOK
<1>13. QED
  BY <1>1, <1>2, <1>3, <1>4, <1>5, <1>6, <1>7, <1>8, <1>9, <1>10, <1>11, <1>12, Steps

-----------------------------------------------------------------------------
(* Sessions *)

\* SessionInv of one call.
Session(c) ==
  /\ ~Writing(c) => new[c] = NoRows /\ minted[c] = {}
  /\ pc[c] = "issue" => request[c].kind = "login"
  /\ pc[c] \in {"find", "insert"} => request[c].kind \in {"register", "create", "add"}
  /\ pc[c] = "insert_owner" =>
       request[c].kind = "create" /\ new[c] = CompanyOf(c) /\ minted[c] = {}
  /\ pc[c] = "commit" =>
       \/ /\ request[c].kind = "register" /\ new[c] = UserOf(c)
          /\ \A t \in minted[c] : t.user = c
       \/ request[c].kind = "create" /\ new[c] = FoundedBy(c) /\ minted[c] = {}
       \/ request[c].kind = "add" /\ new[c] = MemberOf(c) /\ minted[c] = {}

\* A call whose session does not move keeps it.
LEMMA SessionStays ==
  ASSUME NEW k \in Calls, Session(k),
         pc'[k] = pc[k], request'[k] = request[k], new'[k] = new[k], minted'[k] = minted[k]
  PROVE  Session(k)'
BY DEF Session, Writing, UserOf, CompanyOf, FoundedBy, MemberOf

\* A call moves no session but its own.
LEMMA OthersStay ==
  ASSUME TypeOK, NEW c \in Calls, NEW k \in Calls \ {c},
         \/ Starts(c) \/ Ends(c) \/ Issue(c) \/ Find(c)
         \/ InsertUser(c) \/ InsertCompany(c) \/ InsertOwner(c) \/ InsertMember(c)
         \/ Commit(c)
  PROVE  pc'[k] = pc[k] /\ request'[k] = request[k] /\ new'[k] = new[k] /\ minted'[k] = minted[k]
<1>1. ASSUME Close(c)
      PROVE  /\ pc'[k] = pc[k] /\ request'[k] = request[k]
             /\ new'[k] = new[k] /\ minted'[k] = minted[k]
  BY <1>1 DEF Close, TypeOK
<1>2. QED
  BY <1>1 DEF TypeOK, Starts, Ends, Issue, Find, InsertUser, InsertCompany, InsertOwner,
         InsertMember, Commit, Begin, Goto

\* A call that ends leaves an empty session.
LEMMA ClosedSession ==
  ASSUME TypeOK, NEW c \in Calls, Close(c)
  PROVE  /\ pc'[c] = "done" /\ request'[c] = NoRequest /\ new'[c] = NoRows /\ minted'[c] = {}
         /\ Session(c)'
BY DEF Close, TypeOK, Session, Writing

\* Every step keeps the sessions.
LEMMA StepSessionInv ==
  ASSUME TypeOK, SessionInv, [Next]_vars
  PROVE  SessionInv'
<1> SUFFICES ASSUME NEW k \in Calls
             PROVE  Session(k)'
  BY DEF SessionInv, Session
<1>0. Session(k)
  BY DEF SessionInv, Session
<1>1. CASE UNCHANGED vars \/ Tick \/ \E u \in users : Disable(u)
  BY <1>0, <1>1, SessionStays DEF vars, Tick, Disable
<1>2. ASSUME NEW c \in Calls, c # k,
             \/ Starts(c) \/ Ends(c) \/ Issue(c) \/ Find(c)
             \/ InsertUser(c) \/ InsertCompany(c) \/ InsertOwner(c) \/ InsertMember(c)
             \/ Commit(c)
      PROVE  Session(k)'
  BY <1>0, <1>2, SessionStays, OthersStay
<1>3. CASE Starts(k)
  BY <1>0, <1>3 DEF Starts, Begin, MayOpen, Session, Writing, TypeOK
<1>4. CASE Ends(k) \/ Issue(k) \/ Commit(k)
  BY <1>4, ClosedSession DEF Ends, Issue, Commit
<1>5. CASE Find(k)
  BY <1>0, <1>5 DEF Find, Goto, Session, Writing, TypeOK
<1>6. CASE InsertUser(k)
  <2>1. /\ pc'[k] = "commit" /\ request'[k] = request[k] /\ request[k].kind = "register"
        /\ new'[k] = UserOf(k)' /\ minted'[k] = Minted(k)
    BY <1>0, <1>6 DEF InsertUser, MayInsert, Goto, Session, Writing, TypeOK, UserOf, NoRows
  <2>2. \A t \in minted'[k] : t.user = k
    BY <2>1 DEF Minted
  <2>3. QED
    BY <2>1, <2>2 DEF Session, Writing
<1>7. CASE InsertCompany(k)
  <2>1. /\ pc'[k] = "insert_owner" /\ request'[k] = request[k] /\ request[k].kind = "create"
        /\ new'[k] = CompanyOf(k)' /\ minted'[k] = {}
    BY <1>0, <1>7 DEF InsertCompany, MayInsert, Goto, Session, Writing, TypeOK, CompanyOf, NoRows
  <2>2. QED
    BY <2>1 DEF Session, Writing
<1>8. CASE InsertOwner(k)
  <2>1. /\ pc'[k] = "commit" /\ request'[k] = request[k] /\ request[k].kind = "create"
        /\ new'[k] = FoundedBy(k)' /\ minted'[k] = {}
    BY <1>0, <1>8 DEF InsertOwner, Goto, Session, Writing, TypeOK, CompanyOf, FoundedBy, NoRows
  <2>2. QED
    BY <2>1 DEF Session, Writing
<1>9. CASE InsertMember(k)
  <2>1. /\ pc'[k] = "commit" /\ request'[k] = request[k] /\ request[k].kind = "add"
        /\ new'[k] = MemberOf(k)' /\ minted'[k] = {}
    BY <1>0, <1>9 DEF InsertMember, MayInsert, Goto, Session, Writing, TypeOK, MemberOf, NoRows
  <2>2. QED
    BY <2>1 DEF Session, Writing
<1>10. QED
  BY <1>1, <1>2, <1>3, <1>4, <1>5, <1>6, <1>7, <1>8, <1>9, Steps

-----------------------------------------------------------------------------
(* Names and keys *)

\* What a call that commits adds to the tables.
LEMMA CommittedRows ==
  ASSUME SessionInv, NEW c \in Calls, Commit(c)
  PROVE  /\ users' = users \cup new[c].users
         /\ companies' = companies \cup new[c].companies
         /\ members' = members \cup new[c].members
         /\ \/ /\ request[c].kind = "register"
               /\ new[c].users = {[id |-> c, email |-> request[c].email, status |-> "ACTIVE"]}
               /\ new[c].companies = {} /\ new[c].members = {}
            \/ /\ request[c].kind = "create"
               /\ new[c].users = {}
               /\ new[c].companies = {[id |-> c, document |-> request[c].document]}
               /\ new[c].members =
                    {[id |-> c, company |-> c, user |-> request[c].user, role |-> "OWNER"]}
            \/ /\ request[c].kind = "add"
               /\ new[c].users = {} /\ new[c].companies = {}
               /\ new[c].members =
                    {[id |-> c, company |-> request[c].company, user |-> request[c].target,
                      role |-> request[c].role]}
BY DEF SessionInv, Commit, UserOf, CompanyOf, FoundedBy, MemberOf, NoRows

\* Only a commit adds rows, and no step takes any away; a user keeps name and address.
LEMMA RowsStay ==
  ASSUME TypeOK, [Next]_vars
  PROVE  /\ companies \subseteq companies' /\ members \subseteq members'
         /\ \A x \in users : \E y \in users' : y.id = x.id /\ y.email = x.email
         /\ \/ \E c \in Calls : Commit(c)
            \/ /\ companies' = companies /\ members' = members
               /\ \A y \in users' : \E x \in users : x.id = y.id /\ x.email = y.email
<1>1. ASSUME NEW u \in users, Disable(u)
      PROVE  /\ \A x \in users : \E y \in users' : y.id = x.id /\ y.email = x.email
             /\ \A y \in users' : \E x \in users : x.id = y.id /\ x.email = y.email
             /\ companies' = companies /\ members' = members
  <2> DEFINE v == [u EXCEPT !.status = "DISABLED"]
  <2>1. users' = (users \ {u}) \cup {v} /\ v.id = u.id /\ v.email = u.email
    BY <1>1 DEF Disable, TypeOK, User
  <2> HIDE DEF v
  <2>2. QED
    BY <1>1, <2>1 DEF Disable
<1>2. ASSUME NEW c \in Calls, Commit(c)
      PROVE  users \subseteq users' /\ companies \subseteq companies' /\ members \subseteq members'
  BY <1>2 DEF Commit
<1>3. ASSUME ~\E c \in Calls : Commit(c), ~\E u \in users : Disable(u)
      PROVE  UNCHANGED tables
  BY <1>3, Steps DEF vars, tables, Tick, Starts, Ends, Issue, Find, InsertUser, InsertCompany,
         InsertOwner, InsertMember, Begin, Goto
<1>4. QED
  BY <1>1, <1>2, <1>3 DEF tables

\* A call that has ended stays so.
LEMMA DoneStays ==
  ASSUME TypeOK, NEW k \in Calls, pc[k] = "done", [Next]_vars
  PROVE  pc'[k] = "done"
<1>1. ASSUME NEW c \in Calls, c # k,
             \/ Starts(c) \/ Ends(c) \/ Issue(c) \/ Find(c)
             \/ InsertUser(c) \/ InsertCompany(c) \/ InsertOwner(c) \/ InsertMember(c)
             \/ Commit(c)
      PROVE  pc'[k] = "done"
  BY <1>1, OthersStay
<1>2. QED
  BY <1>1, Steps DEF vars, TypeOK, Tick, Disable, Starts, Ends, Issue, Find, MayInsert, InsertUser,
         InsertCompany, InsertOwner, InsertMember, Commit, Begin, MayOpen, Goto, Close

\* Every step keeps the names.
LEMMA StepNamesInv ==
  ASSUME TypeOK, SessionInv, NamesInv, [Next]_vars
  PROVE  NamesInv'
<1>0. \A k \in Calls : pc[k] = "done" => pc'[k] = "done"
  BY DoneStays
<1>1. ASSUME NEW c \in Calls, Commit(c)
      PROVE  /\ \A x \in users' : x.id \in Calls => pc'[x.id] = "done"
             /\ \A x \in companies' : pc'[x.id] = "done"
             /\ \A x \in members' : pc'[x.id] = "done" /\ pc'[x.company] = "done"
  <2>1. pc'[c] = "done"
    BY <1>1, ClosedSession DEF Commit
  <2>2. \A x \in companies : x.id \in Calls
    BY DEF TypeOK, Company
  <2>3. \A x \in members : x.id \in Calls /\ x.company \in Calls
    BY DEF TypeOK, Member
  <2>4. request[c].kind = "add" => request[c].company \in Calls /\ pc'[request[c].company] = "done"
    BY <1>0, <2>3 DEF NamesInv
  <2>5. \A x \in users' : x.id \in Calls => pc'[x.id] = "done"
    BY <1>0, <1>1, <2>1, CommittedRows DEF NamesInv
  <2>6. \A x \in companies' : pc'[x.id] = "done"
    BY <1>0, <1>1, <2>1, <2>2, CommittedRows DEF NamesInv
  <2>7. \A x \in members' : pc'[x.id] = "done" /\ pc'[x.company] = "done"
    BY <1>0, <1>1, <2>1, <2>3, <2>4, CommittedRows DEF NamesInv
  <2>8. QED
    BY <2>5, <2>6, <2>7
<1>2. ASSUME ~\E c \in Calls : Commit(c)
      PROVE  /\ \A x \in users' : x.id \in Calls => pc'[x.id] = "done"
             /\ \A x \in companies' : pc'[x.id] = "done"
             /\ \A x \in members' : pc'[x.id] = "done" /\ pc'[x.company] = "done"
  BY <1>0, <1>2, RowsStay DEF NamesInv, TypeOK, Company, Member
<1>3. ASSUME NEW k \in Calls, request'[k].kind = "add"
      PROVE  \E a \in members' :
               /\ a.user = request'[k].user
               /\ a.company = request'[k].company
               /\ a.role \in COMPANY_ADMIN_ROLES
  <2>1. members \subseteq members'
    BY RowsStay
  <2>2. CASE request'[k] = request[k]
    BY <1>3, <2>1, <2>2 DEF NamesInv
  <2>3. CASE Starts(k)
    <3>1. PICK asked \in Request, statement \in {"issue", "find"} :
            /\ Begin(k, asked, statement)
            /\ asked.kind = "add" =>
                 \E a \in members :
                   /\ a.user = asked.user /\ a.company = asked.company
                   /\ a.role \in COMPANY_ADMIN_ROLES
      BY <2>3 DEF Starts
    <3>2. request'[k] = asked
      BY <3>1 DEF Begin, TypeOK
    <3>3. QED
      BY <1>3, <2>1, <3>1, <3>2
  <2>4. CASE Close(k)
    BY <1>3, <2>4, ClosedSession DEF NoRequest
  <2>5. ASSUME NEW c \in Calls, c # k,
               \/ Starts(c) \/ Ends(c) \/ Issue(c) \/ Find(c)
               \/ InsertUser(c) \/ InsertCompany(c) \/ InsertOwner(c) \/ InsertMember(c)
               \/ Commit(c)
        PROVE  request'[k] = request[k]
    BY <2>5, OthersStay
  <2>6. QED
    BY <2>2, <2>3, <2>4, <2>5, Steps DEF vars, Tick, Disable, Ends, Issue, Find, InsertUser,
           InsertCompany, InsertOwner, InsertMember, Commit, Goto
<1>4. QED
  BY <1>1, <1>2, <1>3 DEF NamesInv

\* A call without rows holds no key.
LEMMA NoRowsHoldNothing ==
  ASSUME NEW k, NEW c, new[k] = NoRows
  PROVE  ~HeldBy(k, c)
BY DEF HeldBy, Holding, NoRows

\* What a call may not insert twice is the key it asks for.
LEMMA InsertIsFresh ==
  ASSUME SessionInv, NEW c \in Calls, MayInsert(c)
  PROVE  ~Held(c) /\ \A k \in Calls \ {c} : ~HeldBy(k, c)
<1>1. \A k \in Calls : k \notin Open => new[k] = NoRows
  BY DEF SessionInv, Open, Writing
<1>2. QED
  BY <1>1, NoRowsHoldNothing DEF MayInsert, Raises

\* Holding a key is mutual between calls that have inserted.
LEMMA HoldingIsMutual ==
  ASSUME TypeOK, SessionInv, NamesInv, FreshInv, [Next]_vars,
         NEW c \in Calls, NEW d \in Calls \ {c}, Writing(c),
         \/ InsertUser(d) \/ InsertCompany(d) \/ InsertOwner(d) \/ InsertMember(d)
  PROVE  ~HeldBy(d, c)'
<1>0. Session(c) /\ request'[c] = request[c]
  BY OthersStay DEF SessionInv, Session
<1>1. request[c].kind = "add" => pc[request[c].company] = "done"
  <2>1. ASSUME request[c].kind = "add"
        PROVE  \E a \in members : a.company = request[c].company
    BY <2>1 DEF NamesInv
  <2>2. QED
    BY <2>1 DEF NamesInv
<1>2. ASSUME MayInsert(d)
      PROVE  ~HeldBy(c, d)
  BY <1>2, InsertIsFresh
<1>3. CASE InsertUser(d)
  <2>1. /\ new'[d].users = {[id |-> d, email |-> request[d].email, status |-> "ACTIVE"]}
        /\ new'[d].companies = {} /\ new'[d].members = {}
    BY <1>3 DEF InsertUser, MayInsert, SessionInv, Writing, TypeOK, NoRows
  <2>2. request[d].kind = "register" /\ ~HeldBy(c, d)
    BY <1>2, <1>3 DEF InsertUser
  <2>3. request[c].kind = "register" =>
          [id |-> c, email |-> request[c].email, status |-> "ACTIVE"] \in new[c].users
    BY <1>0 DEF Session, Writing, UserOf, NoRows
  <2>4. request[c].kind = "register" => request[c].email # request[d].email
    <3>1. {r \in new[c].users : r.email = request[d].email} = {}
      BY <2>2 DEF HeldBy, Holding
    <3>2. \A r \in new[c].users : ~(r.email = request[d].email)
      BY <3>1
    <3>3. QED
      BY <2>3, <3>2
  <2>5. QED
    BY <1>0, <2>1, <2>4 DEF HeldBy, Holding
<1>4. CASE InsertCompany(d)
  <2>1. /\ new'[d].companies = {[id |-> d, document |-> request[d].document]}
        /\ new'[d].users = {} /\ new'[d].members = {}
    BY <1>4 DEF InsertCompany, MayInsert, SessionInv, Writing, TypeOK, NoRows
  <2>2. request[d].kind = "create" /\ ~HeldBy(c, d)
    BY <1>2, <1>4 DEF InsertCompany
  <2>3. request[c].kind = "create" =>
          [id |-> c, document |-> request[c].document] \in new[c].companies
    BY <1>0 DEF Session, Writing, CompanyOf, FoundedBy, NoRows
  <2>4. request[c].kind = "create" => request[c].document # request[d].document
    <3>1. {r \in new[c].companies : r.document = request[d].document} = {}
      BY <2>2 DEF HeldBy, Holding
    <3>2. \A r \in new[c].companies : ~(r.document = request[d].document)
      BY <3>1
    <3>3. QED
      BY <2>3, <3>2
  <2>5. QED
    BY <1>0, <2>1, <2>4 DEF HeldBy, Holding
<1>5. CASE InsertOwner(d)
  <2>1. /\ new'[d] = [new[d] EXCEPT !.members = {[id |-> d, company |-> d,
                                       user |-> request[d].user, role |-> "OWNER"]}]
        /\ new[d] = CompanyOf(d) /\ pc[d] # "done" /\ ~HeldBy(d, c)
    BY <1>5 DEF InsertOwner, SessionInv, FreshInv, TypeOK
  <2>2. QED
    BY <1>0, <1>1, <2>1 DEF HeldBy, Holding, Session, Writing, CompanyOf, NoRows
<1>6. CASE InsertMember(d)
  <2>1. /\ new'[d].members = {[id |-> d, company |-> request[d].company,
                               user |-> request[d].target, role |-> request[d].role]}
        /\ new'[d].users = {} /\ new'[d].companies = {}
    BY <1>6 DEF InsertMember, MayInsert, SessionInv, Writing, TypeOK, NoRows
  <2>2. request[d].kind = "add" /\ ~HeldBy(c, d)
    BY <1>2, <1>6 DEF InsertMember
  <2>3. request[c].kind = "add" =>
          [id |-> c, company |-> request[c].company, user |-> request[c].target,
           role |-> request[c].role] \in new[c].members
    BY <1>0 DEF Session, Writing, MemberOf, NoRows
  <2>4. request[c].kind = "add" =>
          request[c].company # request[d].company \/ request[c].target # request[d].target
    <3>1. {r \in new[c].members : r.company = request[d].company /\ r.user = request[d].target} = {}
      BY <2>2 DEF HeldBy, Holding
    <3>2. \A r \in new[c].members : ~(r.company = request[d].company /\ r.user = request[d].target)
      BY <3>1
    <3>3. QED
      BY <2>3, <3>2
  <2>5. QED
    BY <1>0, <2>1, <2>4 DEF HeldBy, Holding
<1>7. QED
  BY <1>3, <1>4, <1>5, <1>6

\* Every step keeps the keys under way apart from all others.
LEMMA StepFreshInv ==
  ASSUME TypeOK, SessionInv, NamesInv, FreshInv, [Next]_vars
  PROVE  FreshInv'
<1> SUFFICES ASSUME NEW c \in Calls, Writing(c)'
             PROVE  ~Held(c)' /\ \A k \in Calls \ {c} : ~HeldBy(k, c)'
  BY DEF FreshInv
<1>1. ASSUME Writing(c), request'[c] = request[c], ~\E d \in Calls : Commit(d)
      PROVE  ~Held(c)'
  BY <1>1, RowsStay DEF FreshInv, Held, Holding
<1>2. ASSUME Writing(c), request'[c] = request[c],
             NEW k \in Calls \ {c}, new'[k] = new[k] \/ new'[k] = NoRows
      PROVE  ~HeldBy(k, c)'
  BY <1>2 DEF FreshInv, HeldBy, Holding, NoRows
<1>3. CASE UNCHANGED vars \/ Tick \/ \E u \in users : Disable(u)
  <2>1. UNCHANGED <<pc, request, new>>
    BY <1>3 DEF vars, Tick, Disable
  <2>2. ASSUME NEW d \in Calls, Commit(d)
        PROVE  FALSE
    BY <2>1, <2>2 DEF Commit, Close, TypeOK
  <2>3. QED
    BY <1>1, <1>2, <2>1, <2>2 DEF Writing
<1>4. ASSUME NEW d \in Calls \ {c}, Starts(d) \/ Ends(d) \/ Issue(d) \/ Find(d)
      PROVE  ~Held(c)' /\ \A k \in Calls \ {c} : ~HeldBy(k, c)'
  <2>1. Writing(c) /\ request'[c] = request[c] /\ \A k \in Calls \ {d} : new'[k] = new[k]
    BY <1>4, OthersStay DEF Writing
  <2>2. new'[d] = new[d] \/ new'[d] = NoRows
    BY <1>4, ClosedSession DEF Starts, Begin, Ends, Issue, Find, Goto, TypeOK
  <2>3. users' = users /\ companies' = companies /\ members' = members
    BY <1>4 DEF Starts, Begin, Ends, Issue, Find, Goto, tables
  <2>4. ~Held(c)'
    BY <2>1, <2>3 DEF FreshInv, Held, Holding
  <2>5. QED
    BY <1>2, <2>1, <2>2, <2>4
<1>5. ASSUME NEW d \in Calls \ {c},
             InsertUser(d) \/ InsertCompany(d) \/ InsertOwner(d) \/ InsertMember(d)
      PROVE  ~Held(c)' /\ \A k \in Calls \ {c} : ~HeldBy(k, c)'
  <2>1. Writing(c) /\ request'[c] = request[c] /\ \A k \in Calls \ {d} : new'[k] = new[k]
    BY <1>5, OthersStay DEF Writing
  <2>2. users' = users /\ companies' = companies /\ members' = members
    BY <1>5 DEF InsertUser, InsertCompany, InsertOwner, InsertMember, Goto, tables
  <2>3. ~Held(c)'
    BY <2>1, <2>2 DEF FreshInv, Held, Holding
  <2>4. ~HeldBy(d, c)'
    BY <1>5, <2>1, HoldingIsMutual
  <2>5. QED
    BY <1>2, <2>1, <2>3, <2>4
<1>6. ASSUME NEW d \in Calls \ {c}, Commit(d)
      PROVE  ~Held(c)' /\ \A k \in Calls \ {c} : ~HeldBy(k, c)'
  <2>1. Writing(c) /\ request'[c] = request[c] /\ \A k \in Calls \ {d} : new'[k] = new[k]
    BY <1>6, OthersStay DEF Writing
  <2>2. new'[d] = NoRows
    BY <1>6, ClosedSession DEF Commit
  <2>3. ~Held(c)'
    <3>1. ~Held(c) /\ ~HeldBy(d, c)
      BY <2>1 DEF FreshInv
    <3>2. /\ users' = users \cup new[d].users
          /\ companies' = companies \cup new[d].companies
          /\ members' = members \cup new[d].members
      BY <1>6 DEF Commit
    <3>3. QED
      BY <2>1, <3>1, <3>2 DEF Held, HeldBy, Holding
  <2>4. QED
    BY <1>2, <2>1, <2>2, <2>3
<1>7. CASE Starts(c) \/ Ends(c) \/ Issue(c) \/ Find(c) \/ Commit(c)
  BY <1>7, ClosedSession DEF Starts, Begin, Ends, Issue, Find, Goto, Commit, Writing, TypeOK
<1>8. CASE InsertUser(c) \/ InsertCompany(c) \/ InsertOwner(c) \/ InsertMember(c)
  <2>1. ~Held(c) /\ \A k \in Calls \ {c} : ~HeldBy(k, c)
    BY <1>8, InsertIsFresh DEF InsertUser, InsertCompany, InsertMember, InsertOwner, FreshInv,
           Writing
  <2>2. /\ request' = request /\ UNCHANGED tables
        /\ \A k \in Calls \ {c} : new'[k] = new[k]
    BY <1>8, OthersStay DEF InsertUser, InsertCompany, InsertOwner, InsertMember, Goto
  <2>3. QED
    BY <2>1, <2>2 DEF Held, HeldBy, Holding, tables
<1>9. QED
  BY <1>3, <1>4, <1>5, <1>6, <1>7, <1>8, Steps

\* Every step keeps the keys unique.
LEMMA StepKeysAreUnique ==
  ASSUME TypeOK, SessionInv, NamesInv, FreshInv, KeysAreUnique, [Next]_vars
  PROVE  KeysAreUnique'
<1>1. ASSUME ~\E c \in Calls : Commit(c)
      PROVE  KeysAreUnique'
  <2>1. /\ companies' = companies /\ members' = members
        /\ \A y \in users' : \E x \in users : x.id = y.id /\ x.email = y.email
    BY <1>1, RowsStay
  <2>2. QED
    BY <2>1 DEF KeysAreUnique
<1>2. ASSUME NEW c \in Calls, Commit(c)
      PROVE  KeysAreUnique'
  <2>1. ~Held(c)
    BY <1>2 DEF Commit, FreshInv, Writing
  <2>2. \A m \in members : m.company # c
    BY <1>2 DEF NamesInv, Commit
  <2>3. CASE request[c].kind = "register"
    BY <1>2, <2>1, <2>3, CommittedRows DEF KeysAreUnique, Held, Holding
  <2>4. CASE request[c].kind = "create"
    BY <1>2, <2>1, <2>2, <2>4, CommittedRows DEF KeysAreUnique, Held, Holding
  <2>5. CASE request[c].kind = "add"
    BY <1>2, <2>1, <2>5, CommittedRows DEF KeysAreUnique, Held, Holding
  <2>6. QED
    BY <1>2, <2>3, <2>4, <2>5, CommittedRows
<1>3. QED
  BY <1>1, <1>2

\* Every step leaves each company an owner.
LEMMA StepCompanyHasOwner ==
  ASSUME TypeOK, SessionInv, CompanyHasOwner, [Next]_vars
  PROVE  CompanyHasOwner'
<1>1. ASSUME NEW c \in Calls, Commit(c)
      PROVE  CompanyHasOwner'
  <2>1. members \subseteq members' /\ companies' = companies \cup new[c].companies
    BY <1>1 DEF Commit
  <2>2. ASSUME NEW x \in new[c].companies
        PROVE  \E m \in members' : m.company = x.id /\ m.role = "OWNER"
    <3>1. /\ x.id = c
          /\ [id |-> c, company |-> c, user |-> request[c].user, role |-> "OWNER"] \in members'
      BY <1>1, <2>2, CommittedRows
    <3>2. QED
      BY <3>1
  <2>3. QED
    BY <2>1, <2>2 DEF CompanyHasOwner
<1>2. QED
  BY <1>1, RowsStay DEF CompanyHasOwner

-----------------------------------------------------------------------------
(* Tokens *)

\* Every step keeps the users of those who are about to get tokens.
LEMMA StepLoginsInv ==
  ASSUME TypeOK, LoginsInv, [Next]_vars
  PROVE  LoginsInv'
<1> SUFFICES ASSUME NEW k \in Calls, request'[k].kind = "login"
             PROVE  \E x \in users' : x.id = request'[k].user
  BY DEF LoginsInv
<1>0. \A x \in users : \E y \in users' : y.id = x.id
  BY RowsStay
<1>1. CASE request'[k] = request[k]
  BY <1>0, <1>1 DEF LoginsInv
<1>2. CASE Starts(k)
  <2>1. PICK asked \in Request, statement \in {"issue", "find"} :
          /\ Begin(k, asked, statement)
          /\ statement = "issue" => asked.kind = "login" /\ \E x \in users : x.id = asked.user
          /\ statement = "find" => asked.kind \in {"register", "create", "add"}
    BY <1>2 DEF Starts
  <2>2. request'[k] = asked
    BY <2>1 DEF Begin, TypeOK
  <2>3. QED
    BY <1>0, <2>1, <2>2
<1>3. CASE Close(k)
  BY <1>3, ClosedSession DEF NoRequest
<1>4. ASSUME NEW c \in Calls, c # k,
             \/ Starts(c) \/ Ends(c) \/ Issue(c) \/ Find(c)
             \/ InsertUser(c) \/ InsertCompany(c) \/ InsertOwner(c) \/ InsertMember(c)
             \/ Commit(c)
      PROVE  request'[k] = request[k]
  BY <1>4, OthersStay
<1>5. QED
  BY <1>1, <1>2, <1>3, <1>4, Steps DEF vars, Tick, Disable, Ends, Issue, Find, InsertUser,
         InsertCompany, InsertOwner, InsertMember, Commit, Goto

\* Only logins, refreshes and registrations that commit hand tokens out.
LEMMA TokensComeFrom ==
  ASSUME TypeOK, [Next]_vars
  PROVE  \/ tokens' = tokens
         \/ \E c \in Calls : Issue(c) /\ tokens' = tokens \cup Minted(request[c].user)
         \/ \E c \in Calls : Commit(c) /\ tokens' = tokens \cup minted[c]
BY Steps DEF vars, Tick, Disable, Starts, Begin, Ends, Issue, Find, InsertUser, InsertCompany,
       InsertOwner, InsertMember, Commit, Goto

\* Every step leaves the tokens with users.
LEMMA StepTokensHaveUsers ==
  ASSUME TypeOK, SessionInv, LoginsInv, TokensHaveUsers, [Next]_vars
  PROVE  TokensHaveUsers'
<1>0. \A x \in users : \E y \in users' : y.id = x.id
  BY RowsStay
<1>1. CASE tokens' = tokens
  BY <1>0, <1>1 DEF TokensHaveUsers
<1>2. ASSUME NEW c \in Calls, Issue(c), tokens' = tokens \cup Minted(request[c].user)
      PROVE  TokensHaveUsers'
  <2>1. \E x \in users : x.id = request[c].user
    BY <1>2 DEF Issue, SessionInv, LoginsInv
  <2>2. \A t \in Minted(request[c].user) : t.user = request[c].user
    BY DEF Minted
  <2>3. QED
    BY <1>0, <1>2, <2>1, <2>2 DEF TokensHaveUsers
<1>3. ASSUME NEW c \in Calls, Commit(c), tokens' = tokens \cup minted[c]
      PROVE  TokensHaveUsers'
  <2>1. ASSUME NEW t \in minted[c]
        PROVE  \E x \in users' : x.id = t.user
    <3>1. t.user = c /\ request[c].kind = "register"
      BY <1>3, <2>1 DEF Commit, SessionInv
    <3>2. [id |-> c, email |-> request[c].email, status |-> "ACTIVE"] \in users'
      BY <1>3, <3>1, CommittedRows
    <3>3. QED
      BY <3>1, <3>2
  <2>2. QED
    BY <1>0, <1>3, <2>1 DEF TokensHaveUsers
<1>4. QED
  BY <1>1, <1>2, <1>3, TokensComeFrom

\* Tokens are minted in pairs.
LEMMA MintedPaired ==
  ASSUME clock \in Nat, NEW u
  PROVE  Paired(Minted(u))
<1> DEFINE access == [type |-> "access", user |-> u, exp |-> clock + AccessLife]
           refresh == [type |-> "refresh", user |-> u, exp |-> clock + RefreshLife]
<1>1. refresh.exp = access.exp - AccessLife + RefreshLife
  OBVIOUS
<1>2. \A t \in Minted(u) : t = access \/ t = refresh
  BY DEF Minted
<1>3. refresh \in Minted(u) /\ refresh.type = "refresh" /\ access.user = refresh.user
  BY DEF Minted
<1>4. QED
  BY <1>1, <1>2, <1>3 DEF Paired

\* So are they handed out.
LEMMA PairedUnion ==
  ASSUME NEW S, NEW T, Paired(S), Paired(T)
  PROVE  Paired(S \cup T)
BY DEF Paired

\* Every step keeps the pairs.
LEMMA StepPairsInv ==
  ASSUME TypeOK, PairsInv, [Next]_vars
  PROVE  PairsInv'
<1>0. Paired({}) /\ clock \in Nat
  BY DEF Paired, TypeOK
<1>1. Paired(tokens')
  BY <1>0, TokensComeFrom, MintedPaired, PairedUnion DEF PairsInv
<1>2. ASSUME NEW k \in Calls
      PROVE  Paired(minted'[k])
  <2>1. minted'[k] \in {minted[k], {}, Minted(k)}
    <3>1. ASSUME NEW c \in Calls, c # k,
                 \/ Starts(c) \/ Ends(c) \/ Issue(c) \/ Find(c)
                 \/ InsertUser(c) \/ InsertCompany(c) \/ InsertOwner(c) \/ InsertMember(c)
                 \/ Commit(c)
          PROVE  minted'[k] = minted[k]
      BY <3>1, OthersStay
    <3>2. CASE Close(k)
      BY <3>2, ClosedSession
    <3>3. CASE InsertUser(k)
      BY <3>3 DEF InsertUser, TypeOK
    <3>4. QED
      BY <3>1, <3>2, <3>3, Steps DEF vars, Tick, Disable, Starts, Begin, Ends, Issue, Find,
             InsertCompany, InsertOwner, InsertMember, Commit
  <2>2. QED
    BY <1>0, <2>1, MintedPaired DEF PairsInv
<1>3. QED
  BY <1>1, <1>2 DEF PairsInv, Paired

-----------------------------------------------------------------------------
(* The invariant *)

LEMMA InitIInv == Init => IInv
<1> SUFFICES ASSUME Init PROVE IInv
  OBVIOUS
<1>1. TypeOK
  BY InitTypeOK
<1>2. SessionInv
  BY DEF Init, SessionInv, Writing
<1>3. NamesInv /\ FreshInv /\ LoginsInv
  BY DEF Init, NamesInv, FreshInv, LoginsInv, Writing, NoRequest
<1>4. PairsInv
  <2>1. \A e \in Registered : Paired(Minted(e))
    BY <1>1, MintedPaired DEF TypeOK
  <2>2. Paired(tokens)
    BY <2>1 DEF Init, Paired
  <2>3. QED
    BY <2>2 DEF Init, PairsInv, Paired
<1>5. KeysAreUnique /\ CompanyHasOwner
  BY DEF Init, KeysAreUnique, CompanyHasOwner
<1>6. TokensHaveUsers
  <2>1. ASSUME NEW t \in tokens
        PROVE  \E x \in users : x.id = t.user
    <3>1. PICK e \in Registered : t \in Minted(e)
      BY DEF Init
    <3>2. t.user = e
      BY <3>1 DEF Minted
    <3>3. [id |-> e, email |-> e, status |-> "ACTIVE"] \in users
      BY DEF Init
    <3>4. QED
      BY <3>2, <3>3
  <2>2. QED
    BY <2>1 DEF TokensHaveUsers
<1>7. QED
  BY <1>1, <1>2, <1>3, <1>4, <1>5, <1>6 DEF IInv

LEMMA StepIInv == IInv /\ [Next]_vars => IInv'
BY StepTypeOK, StepSessionInv, StepNamesInv, StepFreshInv, StepLoginsInv, StepPairsInv,
   StepKeysAreUnique, StepCompanyHasOwner, StepTokensHaveUsers DEF IInv

LEMMA InvariantHolds == Spec => []IInv
BY InitIInv, StepIInv, PTL DEF Spec

\* Rows, sessions and tokens are of their kind in every behaviour.
THEOREM AccessTypeCorrect == Spec => []TypeOK
<1>1. IInv => TypeOK
  BY DEF IInv
<1>2. QED
  BY <1>1, InvariantHolds, PTL

\* However many calls overlap, an address has one user, a document one company, and a user one
\* membership in a company: what SELECT, wait and constraint of the inserts do together.
THEOREM KeysStayUnique == Spec => []KeysAreUnique
<1>1. IInv => KeysAreUnique
  BY DEF IInv
<1>2. QED
  BY <1>1, InvariantHolds, PTL

\* No failure leaves a company without an owner: create_company commits both or none.
THEOREM CompaniesHaveOwners == Spec => []CompanyHasOwner
<1>1. IInv => CompanyHasOwner
  BY DEF IInv
<1>2. QED
  BY <1>1, InvariantHolds, PTL

\* No client ever holds a token of a user that is not there.
THEOREM TokensBelongToUsers == Spec => []TokensHaveUsers
<1>1. IInv => TokensHaveUsers
  BY DEF IInv
<1>2. QED
  BY <1>1, InvariantHolds, PTL

\* Memberships come from founding the company or from the grant of an administrator of it.
THEOREM GrantsComeFromAdmins == Spec => GrantedByAdmin
<1> DEFINE Granted(m) ==
      \E c \in Calls :
        /\ pc[c] = "commit" /\ pc'[c] = "done"
        /\ \/ request[c].kind = "create" /\ m.user = request[c].user /\ m.company = c
           \/ /\ request[c].kind = "add"
              /\ \E a \in members :
                   /\ a.user = request[c].user
                   /\ a.company = m.company
                   /\ a.role \in COMPANY_ADMIN_ROLES
<1>1. ASSUME IInv, [Next]_vars, NEW m \in members' \ members
      PROVE  Granted(m)
  <2> USE DEF IInv
  <2>1. PICK c \in Calls : Commit(c)
    BY <1>1, RowsStay
  <2>2. pc[c] = "commit" /\ pc'[c] = "done"
    BY <1>1, <2>1, ClosedSession DEF Commit
  <2>3. m \in new[c].members
    BY <1>1, <2>1, CommittedRows
  <2>4. CASE request[c].kind = "create"
    BY <1>1, <2>1, <2>2, <2>3, <2>4, CommittedRows
  <2>5. CASE request[c].kind = "add"
    <3>1. m.company = request[c].company
      BY <1>1, <2>1, <2>3, <2>5, CommittedRows
    <3>2. QED
      BY <1>1, <2>2, <2>5, <3>1 DEF NamesInv
  <2>6. QED
    BY <1>1, <2>1, <2>3, <2>4, <2>5, CommittedRows
<1>2. IInv /\ [Next]_vars => [\A m \in members' \ members : Granted(m)]_vars
  BY <1>1
<1>3. QED
  BY <1>2, InvariantHolds, PTL DEF Spec, GrantedByAdmin

\* A protected call is made by an active user within AccessLife of a registration, login or
\* refresh.
THEOREM CallsComeFromSessions == Spec => CallsAreAuthenticated
<1> DEFINE Authenticated(c) ==
      (pc[c] = "idle" /\ pc'[c] = "find" /\ request'[c].kind \in {"create", "add"}) =>
        /\ \E x \in users : x.id = request'[c].user /\ x.status = "ACTIVE"
        /\ \E t \in tokens :
             /\ t.type = "refresh" /\ t.user = request'[c].user
             /\ clock <= t.exp - RefreshLife + AccessLife
<1>1. ASSUME TypeOK, PairsInv, NEW u \in CurrentUsers
      PROVE  /\ \E x \in users : x.id = u /\ x.status = "ACTIVE"
             /\ \E t \in tokens :
                  /\ t.type = "refresh" /\ t.user = u
                  /\ clock <= t.exp - RefreshLife + AccessLife
  <2>1. PICK t \in tokens : t.user = u /\ t.type = "access" /\ clock <= t.exp
    BY DEF CurrentUsers, Valid
  <2>2. PICK r \in tokens :
          r.type = "refresh" /\ r.user = u /\ r.exp = t.exp - AccessLife + RefreshLife
    BY <1>1, <2>1 DEF PairsInv, Paired
  <2>3. t.exp \in Nat /\ clock \in Nat
    BY <1>1 DEF TypeOK, Token
  <2>4. clock <= r.exp - RefreshLife + AccessLife
    BY <2>1, <2>2, <2>3
  <2>5. QED
    BY <2>2, <2>4 DEF CurrentUsers, Active
<1>2. ASSUME IInv, [Next]_vars, NEW c \in Calls
      PROVE  Authenticated(c)
  <2> SUFFICES ASSUME pc[c] = "idle", pc'[c] = "find", request'[c].kind \in {"create", "add"}
               PROVE  request'[c].user \in CurrentUsers
    BY <1>1, <1>2 DEF IInv
  <2>1. TypeOK
    BY <1>2 DEF IInv
  <2>2. Start(c)
    <3>1. ASSUME NEW d \in Calls, d # c, Start(d) \/ Refuse(d) \/ Continue(d) \/ Fail(d)
          PROVE  pc'[c] = pc[c]
      BY <2>1, <3>1, StartStarts, OthersStay DEF Continue, Refuse, Fail, Conflict, Ends
    <3>2. ASSUME Refuse(c) \/ Continue(c) \/ Fail(c)
          PROVE  FALSE
      BY <2>1, <3>2, ClosedSession DEF Refuse, Fail, Open, Continue, Issue, Find, Conflict, Raises,
             MayInsert, InsertUser, InsertCompany, InsertOwner, InsertMember, Commit
    <3>3. QED
      BY <1>2, <3>1, <3>2 DEF Next, vars, Tick, Disable
  <2>3. QED
    BY <2>1, <2>2 DEF Start, StartRegister, StartLogin, StartRefresh, StartCreate, StartAdd, Begin,
           TypeOK
<1>3. IInv /\ [Next]_vars => [\A c \in Calls : Authenticated(c)]_vars
  BY <1>2
<1>4. QED
  BY <1>3, InvariantHolds, PTL DEF Spec, CallsAreAuthenticated

-----------------------------------------------------------------------------
(* The contract *)

\* Whoever acts in a call under way is there and has been given an access token; so are the
\* company and the user of a grant; the tokens of a registration count from one instant.
Actors(c) ==
  /\ request[c].kind \in {"create", "add"} =>
       /\ \E x \in users : x.id = request[c].user
       /\ \E t \in tokens : t.user = request[c].user /\ t.type = "access"
  /\ request[c].kind = "add" =>
       /\ \E x \in users : x.id = request[c].target
       /\ \E x \in companies : x.id = request[c].company
  /\ pc[c] = "commit" /\ request[c].kind = "register" =>
       \E instant \in 0..clock : minted[c] = Contract!Pair(c, instant)
ActorsInv == \A c \in Calls : Actors(c)

\* Users, tokens, companies and instants that are there stay.
LEMMA ActorsStay ==
  ASSUME TypeOK, SessionInv, [Next]_vars, NEW k \in Calls, Actors(k), request'[k] = request[k],
         pc'[k] = "commit" => pc[k] = "commit" /\ minted'[k] = minted[k]
  PROVE  Actors(k)'
<1>1. clock \in Nat /\ clock' \in Nat /\ clock <= clock'
  BY Steps DEF TypeOK, vars, Tick, Disable, Starts, Begin, Ends, Issue, Find,
     InsertUser, InsertCompany, InsertOwner, InsertMember, Commit, Goto
<1>2. 0..clock \subseteq 0..clock'
  BY <1>1
<1>3. tokens \subseteq tokens'
  BY TokensComeFrom
<1>4. \A u : Contract!Pair(k, u) = Contract!Pair(k, u)'
  BY DEF Contract!Pair
<1>5. QED
  BY <1>2, <1>3, <1>4, RowsStay DEF Actors

\* Every step keeps the actors.
LEMMA StepActors ==
  ASSUME TypeOK, SessionInv, [Next]_vars, NEW k \in Calls, Actors(k)
  PROVE  Actors(k)'
<1>1. CASE Starts(k)
  <2>1. PICK asked \in Request, statement \in {"issue", "find"} :
          /\ Begin(k, asked, statement)
          /\ asked.kind \in {"create", "add"} => asked.user \in CurrentUsers
          /\ asked.kind = "add" =>
               (\E x \in companies : x.id = asked.company) /\ \E x \in users : x.id = asked.target
    BY <1>1 DEF Starts
  <2>2. /\ request'[k] = asked /\ pc'[k] # "commit"
        /\ users' = users /\ companies' = companies /\ tokens' = tokens
    BY <2>1 DEF Begin, TypeOK, tables
  <2>3. \A u \in CurrentUsers :
          (\E x \in users : x.id = u) /\ \E t \in tokens : t.user = u /\ t.type = "access"
    BY DEF CurrentUsers, Active, Valid
  <2>4. QED
    BY <2>1, <2>2, <2>3 DEF Actors
<1>2. CASE Close(k)
  BY <1>2, ClosedSession DEF NoRequest, Actors
<1>3. CASE InsertUser(k)
  <2>1. /\ request'[k] = request[k] /\ request[k].kind = "register"
        /\ minted'[k] = Minted(k) /\ clock' = clock
    BY <1>3 DEF InsertUser, Goto, TypeOK
  <2>2. Minted(k) = Contract!Pair(k, clock) /\ clock \in 0..clock
    BY DEF Minted, Contract!Pair, TypeOK
  <2>3. QED
    BY <2>1, <2>2 DEF Actors, Contract!Pair
<1>4. CASE InsertOwner(k) \/ InsertMember(k)
  <2>1. /\ request'[k] = request[k] /\ request[k].kind # "register"
        /\ users' = users /\ companies' = companies /\ tokens' = tokens
    BY <1>4 DEF InsertOwner, InsertMember, Goto, SessionInv, tables
  <2>2. QED
    BY <2>1 DEF Actors
<1>5. ASSUME NEW c \in Calls, c # k,
             \/ Starts(c) \/ Ends(c) \/ Issue(c) \/ Find(c)
             \/ InsertUser(c) \/ InsertCompany(c) \/ InsertOwner(c) \/ InsertMember(c)
             \/ Commit(c)
      PROVE  Actors(k)'
  BY <1>5, OthersStay, ActorsStay
<1>6. CASE UNCHANGED vars \/ Tick \/ (\E u \in users : Disable(u)) \/ Find(k) \/ InsertCompany(k)
  <2>1. /\ request'[k] = request[k]
        /\ pc'[k] = "commit" => pc[k] = "commit" /\ minted'[k] = minted[k]
    BY <1>6 DEF vars, Tick, Disable, Find, InsertCompany, Goto, TypeOK
  <2>2. QED
    BY <2>1, ActorsStay
<1>7. QED
  BY <1>1, <1>2, <1>3, <1>4, <1>5, <1>6, Steps DEF Ends, Issue, Commit

\* The actors are there in every behaviour.
LEMMA ActorsInvHolds == Spec => [](IInv /\ ActorsInv)
<1>1. Init => ActorsInv
  BY DEF Init, ActorsInv, Actors, NoRequest
<1>2. IInv /\ ActorsInv /\ [Next]_vars => ActorsInv'
  BY StepActors DEF IInv, ActorsInv
<1>3. QED
  BY <1>1, <1>2, InvariantHolds, PTL DEF Spec

\* A commit is the contract's registration, founding or grant.
LEMMA CommitIsContract ==
  ASSUME IInv, ActorsInv, NEW c \in Calls, Commit(c)
  PROVE  Contract!Next
<1> USE DEF IInv
<1>1. ~Held(c) /\ pc[c] = "commit"
  BY DEF Commit, FreshInv, Writing
<1>2. /\ \A x \in users : x.id # c
      /\ \A x \in companies : x.id # c
      /\ \A x \in members : x.id # c
  BY <1>1 DEF NamesInv
<1>3. clock' = clock /\ tokens' = tokens \cup minted[c]
  BY DEF Commit
<1>4. CASE request[c].kind = "register"
  <2>1. PICK instant \in 0..clock : minted[c] = Contract!Pair(c, instant)
    BY <1>1, <1>4 DEF ActorsInv, Actors
  <2>2. request[c].email \in Emails
    BY <1>4, RequestTyped
  <2>3. \A x \in users : x.email # request[c].email
    BY <1>1, <1>4 DEF Held, Holding
  <2>4. /\ users' = users \cup {[id |-> c, email |-> request[c].email, status |-> "ACTIVE"]}
        /\ companies' = companies /\ members' = members
    BY <1>4, CommittedRows
  <2>5. Contract!Register(c, request[c].email)
    BY <1>2, <1>3, <2>1, <2>3, <2>4 DEF Contract!Register
  <2>6. QED
    BY <2>2, <2>5 DEF Contract!Next
<1>5. CASE request[c].kind = "create"
  <2>1. PICK u \in users : u.id = request[c].user
    BY <1>5 DEF ActorsInv, Actors
  <2>2. request[c].document \in Documents
    BY <1>5, RequestTyped
  <2>3. \A x \in companies : x.document # request[c].document
    BY <1>1, <1>5 DEF Held, Holding
  <2>4. /\ users' = users
        /\ companies' = companies \cup {[id |-> c, document |-> request[c].document]}
        /\ members' = members \cup
             {[id |-> c, company |-> c, user |-> request[c].user, role |-> "OWNER"]}
    BY <1>5, CommittedRows
  <2>5. tokens' = tokens
    BY <1>1, <1>3, <1>5 DEF SessionInv
  <2>6. Contract!Found(c, u.id, request[c].document)
    BY <1>2, <1>3, <1>5, <2>1, <2>3, <2>4, <2>5 DEF Contract!Found, Contract!Known, Contract!Signed,
       ActorsInv, Actors
  <2>7. QED
    BY <2>1, <2>2, <2>6 DEF Contract!Next
<1>6. CASE request[c].kind = "add"
  <2>1. PICK u \in users, company \in companies, target \in users :
          u.id = request[c].user /\ company.id = request[c].company /\ target.id = request[c].target
    BY <1>6 DEF ActorsInv, Actors
  <2>2. request[c].role \in Roles
    BY <1>6, RequestTyped
  <2>3. \A m \in members : ~(m.company = request[c].company /\ m.user = request[c].target)
    BY <1>1, <1>6 DEF Held, Holding
  <2>4. /\ users' = users /\ companies' = companies
        /\ members' = members \cup
             {[id |-> c, company |-> request[c].company, user |-> request[c].target,
               role |-> request[c].role]}
    BY <1>6, CommittedRows
  <2>5. tokens' = tokens
    BY <1>1, <1>3, <1>6 DEF SessionInv
  <2>6. \E a \in members : /\ a.user = request[c].user /\ a.company = request[c].company
                           /\ a.role \in {"OWNER", "ADMIN"}
    BY <1>6 DEF NamesInv, COMPANY_ADMIN_ROLES
  <2>7. Contract!Grant(c, u.id, company.id, target.id, request[c].role)
    BY <1>2, <1>3, <1>6, <2>1, <2>3, <2>4, <2>5, <2>6 DEF Contract!Grant, Contract!Known,
       Contract!Signed, ActorsInv, Actors
  <2>8. QED
    BY <2>1, <2>2, <2>7 DEF Contract!Next
<1>7. QED
  BY <1>4, <1>5, <1>6, CommittedRows

\* However many calls overlap, each that succeeds finds its key free and writes all its rows at
\* one instant, its commit, and each that fails leaves nothing.
THEOREM AccessImplementsContract == Spec => ImplementsContract
<1>1. Init => Contract!Init
  <2> SUFFICES ASSUME Init PROVE Contract!Init
    OBVIOUS
  <2>1. \A e : Minted(e) = Contract!Pair(e, 0)
    BY DEF Init, Minted, Contract!Pair
  <2>2. QED
    BY <2>1 DEF Init, Contract!Init
<1>2. ASSUME IInv, ActorsInv, [Next]_vars
      PROVE  [Contract!Next]_(Contract!contract)
  <2> USE DEF IInv
  <2>1. CASE Tick
    BY <2>1 DEF Tick, tables, Contract!Next, Contract!Tick
  <2>2. ASSUME NEW u \in users, Disable(u)
        PROVE  Contract!Next
    BY <2>2 DEF Disable, Contract!Next, Contract!Disable
  <2>3. ASSUME NEW c \in Calls, Issue(c)
        PROVE  Contract!Next
    <3>1. PICK x \in users : x.id = request[c].user
      BY <1>2, <2>3 DEF Issue, SessionInv, LoginsInv
    <3>2. Minted(x.id) = Contract!Pair(x.id, clock)
      BY DEF Minted, Contract!Pair
    <3>3. Contract!OpenSession(x.id)
      BY <2>3, <3>1, <3>2 DEF Issue, tables, Contract!OpenSession, Contract!Known
    <3>4. QED
      BY <3>3 DEF Contract!Next
  <2>4. ASSUME NEW c \in Calls, Commit(c)
        PROVE  Contract!Next
    BY <1>2, <2>4, CommitIsContract
  <2>5. CASE UNCHANGED <<clock, users, companies, members, tokens>>
    BY <2>5 DEF Contract!contract
  <2>6. QED
    BY <1>2, <2>1, <2>2, <2>3, <2>4, <2>5, Steps
    DEF vars, tables, Starts, Begin, Ends, Find, InsertUser, InsertCompany, InsertOwner,
        InsertMember, Goto
<1>3. IInv /\ ActorsInv /\ [Next]_vars => [Contract!Next]_(Contract!contract)
  BY <1>2
<1>4. QED
  BY <1>1, <1>3, ActorsInvHolds, PTL DEF Spec, ImplementsContract, Contract!Spec

=============================================================================
