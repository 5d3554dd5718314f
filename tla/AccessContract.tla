---------------------------- MODULE AccessContract ----------------------------
(***************************************************************************)
(* What accounts, companies and memberships promise, however calls         *)
(* overlap: a call that succeeds looks for its key and writes all its rows *)
(* at one instant; one that fails leaves nothing.                          *)
(***************************************************************************)
EXTENDS Naturals

CONSTANTS
  Names,        \* the rows that calls may add
  Emails, Documents, Roles,
  Registered,   \* addresses registered before
  AccessLife, RefreshLife

VARIABLES clock, users, companies, members, tokens

contract == <<clock, users, companies, members, tokens>>

\* The tokens of a user that are made together.
Pair(u, instant) ==
  {[type |-> "access", user |-> u, exp |-> instant + AccessLife],
   [type |-> "refresh", user |-> u, exp |-> instant + RefreshLife]}

Init ==
  /\ clock = 0
  /\ users = {[id |-> e, email |-> e, status |-> "ACTIVE"] : e \in Registered}
  /\ companies = {}
  /\ members = {}
  /\ tokens = UNION {Pair(e, 0) : e \in Registered}

Tick == clock' = clock + 1 /\ UNCHANGED <<users, companies, members, tokens>>

Disable(u) ==
  /\ users' = (users \ {u}) \cup {[u EXCEPT !.status = "DISABLED"]}
  /\ UNCHANGED <<clock, companies, members, tokens>>

Known(u) == \E x \in users : x.id = u

\* Whoever acts has been given an access token.
Signed(u) == \E t \in tokens : t.user = u /\ t.type = "access"

\* The tokens may be older than the user they come with.
Register(id, email) ==
  /\ \A x \in users : x.id # id /\ x.email # email
  /\ users' = users \cup {[id |-> id, email |-> email, status |-> "ACTIVE"]}
  /\ \E instant \in 0..clock : tokens' = tokens \cup Pair(id, instant)
  /\ UNCHANGED <<clock, companies, members>>

OpenSession(u) ==
  /\ Known(u)
  /\ tokens' = tokens \cup Pair(u, clock)
  /\ UNCHANGED <<clock, users, companies, members>>

Found(id, u, document) ==
  /\ Known(u) /\ Signed(u)
  /\ \A x \in companies : x.id # id /\ x.document # document
  /\ companies' = companies \cup {[id |-> id, document |-> document]}
  /\ members' = members \cup {[id |-> id, company |-> id, user |-> u, role |-> "OWNER"]}
  /\ UNCHANGED <<clock, users, tokens>>

Grant(id, u, company, target, role) ==
  /\ Known(u) /\ Signed(u) /\ Known(target)
  /\ \E a \in members : a.user = u /\ a.company = company /\ a.role \in {"OWNER", "ADMIN"}
  /\ \A m \in members : m.id # id /\ ~(m.company = company /\ m.user = target)
  /\ members' = members \cup {[id |-> id, company |-> company, user |-> target, role |-> role]}
  /\ UNCHANGED <<clock, users, companies, tokens>>

Next ==
  \/ Tick
  \/ \E u \in users : Disable(u) \/ OpenSession(u.id)
  \/ \E id \in Names :
       \/ \E email \in Emails : Register(id, email)
       \/ \E u \in users :
            \/ \E document \in Documents : Found(id, u.id, document)
            \/ \E company \in companies, target \in users, role \in Roles :
                 Grant(id, u.id, company.id, target.id, role)

Spec == Init /\ [][Next]_contract

=============================================================================
