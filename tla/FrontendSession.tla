--------------------------- MODULE FrontendSession ---------------------------
(***************************************************************************)
(* The session of the browser: AuthProvider in several tabs that share one *)
(* localStorage, and the answers of the API it waits for.                  *)
(*                                                                         *)
(* A load is the Promise.all of a bootstrap or of setSession (/auth/me and *)
(* the companies), or a refresh: the form that creates a company, and the  *)
(* companies alone once it is created.  Any request may fail.  The list is *)
(* read by the server at one moment and installed at a later one; it is    *)
(* installed even when the other request of its load has failed before.    *)
(*                                                                         *)
(* A load has the token its closure captured when it began, and goes on    *)
(* with it whoever is signed in when an answer arrives: a refresh may put  *)
(* the companies of one user into a tab of another, or of nobody.          *)
(*                                                                         *)
(* Access and refresh token are always set and removed together: both are  *)
(* one number, that of the login that brought them, and 0 for none.        *)
(* Companies are numbered as they are created, and belong to their founder.*)
(***************************************************************************)
EXTENDS Naturals, Sequences, FiniteSets, FiniteSetsExt

CONSTANTS
  Tabs,
  Users,
  None,          \* no user
  MaxLogins,     \* bound: logins and registrations
  MaxCompanies,  \* bound: companies created
  MaxLoads       \* bound: loads ever begun

ASSUME FrontendSessionAssumption ==
  /\ IsFiniteSet(Tabs)
  /\ None \notin Users
  /\ MaxLogins \in Nat
  /\ MaxCompanies \in Nat
  /\ MaxLoads \in Nat

Tokens == 0..MaxLogins
Companies == 1..MaxCompanies

\* The state of one AuthProvider.
Page ==
  [token : Tokens, user : Users \cup {None}, companies : SUBSET Companies,
   company : 0..MaxCompanies, booting : BOOLEAN]

\* kind: a refresh whose page was left before the server had handled the form is "left".
\* me, list: the two requests; a refresh asks for the list once its company was created.
\* answer: the list as the server has read it; select: the company to select at the end.
\* alone: nothing else has happened to the tab since the load began and took its token.
Over == [kind |-> "over"]
Load ==
  {Over} \cup
  [kind : {"bootstrap", "session", "refresh", "left"}, tab : Tabs, token : Tokens \ {0},
   me : {"wait", "ok", "failed"},
   list : {"create", "created", "wait", "read", "ok", "failed"},
   answer : SUBSET Companies, select : 0..MaxCompanies, alone : BOOLEAN]

VARIABLES
  stored,    \* localStorage: token and active company
  page,      \* of each tab
  loads,     \* every load so far, in the order in which they began
  accounts,  \* the user of each login
  founders,  \* the user who created each company
  out        \* tabs whose user has logged out and done nothing about it since

vars == <<stored, page, loads, accounts, founders, out>>

\* Mutated: the keys are set to null instead of removed.
NullSession == [token |-> None, company |-> None]

NoSession == [token |-> 0, company |-> 0]
Cleared(p) == [p EXCEPT !.token = 0, !.user = None, !.companies = {}, !.company = 0]
EmptyPage(booting) ==
  [token |-> 0, user |-> None, companies |-> {}, company |-> 0, booting |-> booting]

Init ==
  /\ stored = NoSession
  /\ page = [t \in Tabs |-> EmptyPage(FALSE)]
  /\ loads = <<>>
  /\ accounts = <<>>
  /\ founders = <<>>
  /\ out = {}

-----------------------------------------------------------------------------
(* Loads *)

\* A tab waits for its loads, but not for a form of a page that was left.
PendingIn(t) ==
  {i \in DOMAIN loads : loads[i] # Over /\ loads[i].kind # "left" /\ loads[i].tab = t}

\* What else happens in a tab disturbs its loads.
Disturbed(t) ==
  [i \in DOMAIN loads |->
     IF i \in PendingIn(t) THEN [loads[i] EXCEPT !.alone = FALSE] ELSE loads[i]]

\* The requests of a page that is left are never answered; a form may still reach the server.
Abandoned(l) == IF l.list = "create" THEN [l EXCEPT !.kind = "left", !.alone = FALSE] ELSE Over

Left(t) == [i \in DOMAIN loads |-> IF i \in PendingIn(t) THEN Abandoned(loads[i]) ELSE loads[i]]

Begin(t, kind, token, me, list) ==
  /\ Len(loads) < MaxLoads
  /\ loads' = Append(Disturbed(t),
       [kind |-> kind, tab |-> t, token |-> token, me |-> me, list |-> list,
        answer |-> {}, select |-> 0, alone |-> PendingIn(t) = {}])

-----------------------------------------------------------------------------
(* What users do *)

\* A page is opened or reloaded: bootstrap reads the tokens that are stored.
Open(t) ==
  /\ page' = [page EXCEPT ![t] = EmptyPage(stored.token # 0)]
  /\ IF stored.token = 0
     THEN loads' = Left(t)
     ELSE /\ Len(loads) < MaxLoads
          /\ loads' = Append(Left(t),
               [kind |-> "bootstrap", tab |-> t, token |-> stored.token, me |-> "wait",
                list |-> "wait", answer |-> {}, select |-> 0, alone |-> TRUE])
  /\ out' = out \ {t}
  /\ UNCHANGED <<stored, accounts, founders>>

\* Login or registration has answered: setSession.  Both pages are open to a tab at any time,
\* while it is bootstrapping as well.
Login(t, u) ==
  /\ Len(accounts) < MaxLogins
  /\ accounts' = Append(accounts, u)
  /\ stored' = [stored EXCEPT !.token = Len(accounts')]
  /\ page' = [page EXCEPT ![t].token = Len(accounts')]
  /\ Begin(t, "session", Len(accounts'), "wait", "wait")
  /\ out' = out \ {t}
  /\ UNCHANGED founders

\* Mutated: the button is there while the session is being restored.
ShellEarly(t) == page[t].token # 0 \/ page[t].booting

\* ProtectedLayout renders the shell, with its menus and pages, only then.
Shell(t) == page[t].token # 0 /\ ~page[t].booting

Logout(t) ==
  /\ Shell(t)
  /\ stored' = NoSession
  /\ page' = [page EXCEPT ![t] = Cleared(@)]
  /\ loads' = Disturbed(t)
  /\ out' = out \cup {t}
  /\ UNCHANGED <<accounts, founders>>

\* The active company may be selected again.
SelectCompany(t, c) ==
  /\ Shell(t)
  /\ c \in page[t].companies
  /\ page' = [page EXCEPT ![t].company = c]
  /\ stored' = [stored EXCEPT !.company = c]
  /\ loads' = Disturbed(t)
  /\ UNCHANGED <<accounts, founders, out>>

\* The form of a company is sent.  All that follows goes with the token of this moment, also
\* after a logout or another login in the tab.
SubmitCompany(t) ==
  /\ Shell(t)
  /\ page[t].token # 0
  /\ Begin(t, "refresh", page[t].token, "ok", "create")
  /\ UNCHANGED <<stored, page, accounts, founders, out>>

-----------------------------------------------------------------------------
(* Answers *)

Owned(u) == {c \in DOMAIN founders : founders[c] = u}

\* Both promises of a load are fulfilled.
Resolved(l, p) ==
  CASE l.kind = "bootstrap" ->
         [p EXCEPT !.token = l.token, !.user = accounts[l.token], !.booting = FALSE]
    [] l.kind = "session" -> [p EXCEPT !.user = accounts[l.token]]
    [] l.kind = "refresh" -> [p EXCEPT !.company = l.select]

\* Mutated: nothing ends the bootstrap when it fails.
ClearedOnly(l, p) == IF l.kind = "bootstrap" THEN Cleared(p) ELSE p

\* The first of them is rejected: only a bootstrap has a catch that clears the session.
Rejected(l, p) == IF l.kind = "bootstrap" THEN [Cleared(p) EXCEPT !.booting = FALSE] ELSE p

StoredAfterRejection(l) == IF l.kind = "bootstrap" THEN NoSession ELSE stored

\* Mutated: the company that is stored is taken as it is.
ChosenUnseen(answer) ==
  CASE stored.company # 0 -> stored.company
    [] answer = {} -> 0
    [] OTHER -> Max(answer)

\* loadCompanies: the stored company if it is in the list, else the newest, which comes first.
Chosen(answer) ==
  CASE stored.company \in answer -> stored.company
    [] answer = {} -> 0
    [] OTHER -> Max(answer)

\* Mutated: the tokens are stored once the session is loaded.
StoredLate(l, company) ==
  [token |-> l.token, company |-> IF company = 0 THEN stored.company ELSE company]

\* Only a company is stored when a load goes on.
StoredWith(l, company) == IF company = 0 THEN stored ELSE [stored EXCEPT !.company = company]

Settled(l) == l.me # "wait" /\ l.list \in {"ok", "failed"}

\* A load is over with the last answer to it.
Becomes(i, l) == loads' = [loads EXCEPT ![i] = IF Settled(l) THEN Over ELSE l]

Fails(i, l) ==
  /\ Becomes(i, [l EXCEPT !.alone = FALSE])
  /\ IF "failed" \in {loads[i].me, loads[i].list}
     THEN UNCHANGED <<page, stored>>
     ELSE /\ page' = [page EXCEPT ![l.tab] = Rejected(l, @)]
          /\ stored' = StoredAfterRejection(l)
  /\ UNCHANGED <<accounts, founders, out>>

FailMe(i) == loads[i].me = "wait" /\ Fails(i, [loads[i] EXCEPT !.me = "failed"])

\* The list fails, or the creation before it, also when the server has done it.
FailList(i) ==
  /\ loads[i].list \in {"create", "created", "wait", "read"}
  /\ Fails(i, [loads[i] EXCEPT !.list = "failed", !.answer = {}])

AnswerMe(i) ==
  LET l == loads[i] IN
  /\ l.me = "wait"
  /\ Becomes(i, [l EXCEPT !.me = "ok"])
  /\ page' = IF l.list = "ok" THEN [page EXCEPT ![l.tab] = Resolved(l, @)] ELSE page
  /\ UNCHANGED <<stored, accounts, founders, out>>

\* The server creates the company of a form, for the user of its token.
CreateCompany(i) ==
  LET l == loads[i] IN
  /\ l.list = "create"
  /\ Len(founders) < MaxCompanies
  /\ founders' = Append(founders, accounts[l.token])
  /\ Becomes(i, [l EXCEPT !.list = IF l.kind = "left" THEN "ok" ELSE "created",
                          !.select = Len(founders')])
  /\ UNCHANGED <<stored, page, accounts, out>>

\* createCompany has answered: refreshCompanies asks for the list, with the token of the form.
CompanyCreated(i) ==
  /\ loads[i].list = "created"
  /\ loads' = [loads EXCEPT ![i].list = "wait"]
  /\ UNCHANGED <<stored, page, accounts, founders, out>>

\* The server reads the companies of the user.
ReadList(i) ==
  /\ loads[i].list = "wait"
  /\ loads' = [loads EXCEPT ![i].list = "read", ![i].answer = Owned(accounts[loads[i].token])]
  /\ UNCHANGED <<stored, page, accounts, founders, out>>

\* The list arrives and is installed, whatever has become of the rest of the load.
InstallList(i) ==
  LET l == loads[i]
      chosen == Chosen(l.answer)
      listed == [page[l.tab] EXCEPT !.companies = l.answer, !.company = chosen]
      latest == IF l.kind = "refresh" THEN l.select ELSE chosen
  IN
  /\ l.list = "read"
  /\ Becomes(i, [l EXCEPT !.list = "ok", !.answer = {}])
  /\ page' = [page EXCEPT ![l.tab] = IF l.me = "ok" THEN Resolved(l, listed) ELSE listed]
  /\ stored' = StoredWith(l, latest)
  /\ UNCHANGED <<accounts, founders, out>>

Answer(i) ==
  /\ i \in DOMAIN loads
  /\ loads[i] # Over
  /\ \/ FailMe(i) \/ FailList(i) \/ AnswerMe(i)
     \/ CreateCompany(i) \/ CompanyCreated(i) \/ ReadList(i) \/ InstallList(i)

-----------------------------------------------------------------------------
Next ==
  \/ \E t \in Tabs :
       \/ Open(t) \/ Logout(t) \/ SubmitCompany(t)
       \/ \E u \in Users : Login(t, u)
       \/ \E c \in Companies : SelectCompany(t, c)
  \/ \E i \in 1..MaxLoads : Answer(i)

Spec == Init /\ [][Next]_vars

\* A fetch is answered or fails in the end; users may do nothing.
FairSpec == Spec /\ \A i \in 1..MaxLoads : WF_vars(Answer(i))

-----------------------------------------------------------------------------
(* Properties *)

\* Storage, pages and loads hold values of their kind.
TypeOK ==
  /\ stored \in [token : Tokens, company : 0..MaxCompanies]
  /\ page \in [Tabs -> Page]
  /\ loads \in Seq(Load)
  /\ accounts \in Seq(Users)
  /\ founders \in Seq(Users)
  /\ out \subseteq Tabs

\* However late answers are and whichever tab they come to, the browser never keeps the tokens
\* of a login that is not the latest.
StoredIsLatest == stored.token \in {0, Len(accounts)}

\* Once its user has logged out, no answer that is still on its way gives a tab a session: only
\* a login in it or opening it again does.
LogoutSticks == \A t \in out : page[t].token = 0

\* The loading screen goes away, whatever fails.
BootstrapEnds == \A t \in Tabs : page[t].booting ~> ~page[t].booting

\* Whatever earlier answers have left in a tab and in the storage, a load that nothing disturbs
\* since it took its token, for a refresh since the form was sent, and whose requests succeed
\* makes them agree: the user is that of the tokens, the companies are among those of the user,
\* and the active company is one of them.  A logout, another login or another load before the
\* last answer is a disturbance: the code does not look whether it happened.
LoneLoadAgrees ==
  [][ \A i \in DOMAIN loads :
        LET l == loads[i]
            p == page'[l.tab]
            u == accounts[l.token]
        IN (l # Over /\ l.alone /\ loads'[i] = Over /\ (AnswerMe(i) \/ InstallList(i))) =>
             /\ p.token = l.token
             /\ l.kind # "refresh" => p.user = u
             /\ p.companies \subseteq Owned(u)
             /\ p.company \in p.companies \cup {0} ]_vars

=============================================================================
