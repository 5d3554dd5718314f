------------------------ MODULE FrontendSessionProofs ------------------------
(***************************************************************************)
(* Proofs about FrontendSession, for any tabs, users and bounds.           *)
(***************************************************************************)
EXTENDS FrontendSession, SequenceTheorems, FiniteSetTheorems, WellFoundedInduction, TLAPS

Pending(i) == i \in DOMAIN loads /\ loads[i] # Over

\* A bootstrap none of whose requests has failed.
Booting(i) ==
  Pending(i) /\ loads[i].kind = "bootstrap" /\ "failed" \notin {loads[i].me, loads[i].list}

\* The tokens in storage and pages are those of logins that happened.
TokensInv ==
  /\ \A t \in Tabs : page[t].token \in 0..Len(accounts)
  /\ StoredIsLatest

\* A tab shows the loading screen while its bootstrap may still succeed, and has one at most.
BootsInv ==
  /\ \A i \in DOMAIN loads : Booting(i) => page[loads[i].tab].booting
  /\ \A i, j \in DOMAIN loads : Booting(i) /\ Booting(j) /\ loads[i].tab = loads[j].tab => i = j

\* A tab that is out has no session, and no bootstrap could bring one.
OutInv == \A t \in out : page[t].token = 0 /\ ~page[t].booting

\* A load has the tokens of a login and reads companies of that user; a refresh creates a
\* company of that user first, and goes on to select it.  Nobody waits for a form that was left.
Sound(i) ==
  LET l == loads[i]
      u == accounts[l.token]
  IN /\ l.token \in 1..Len(accounts)
     /\ l.answer \subseteq Owned(u)
     /\ l.list = "create" => l.kind \in {"refresh", "left"}
     /\ l.kind = "left" => l.me = "ok" /\ l.list = "create" /\ ~l.alone
     /\ l.kind = "refresh" =>
          /\ l.me = "ok"
          /\ l.list # "create" => l.select \in Owned(u)
          /\ l.list # "ok"
          /\ l.list = "read" => l.select \in l.answer
LoadsInv == \A i \in DOMAIN loads : Pending(i) => Sound(i)

\* While nothing disturbs a load, since it took its token, it is the only one its tab waits for,
\* which holds its tokens and, once the list has come, what was in the list.
Alone(i) ==
  LET l == loads[i]
      p == page[l.tab]
      u == accounts[l.token]
  IN /\ \A j \in DOMAIN loads :
          Pending(j) /\ loads[j].kind # "left" /\ loads[j].tab = l.tab => j = i
     /\ l.me # "failed" /\ l.list # "failed"
     /\ l.kind # "bootstrap" => p.token = l.token
     /\ l.list = "ok" => p.companies \subseteq Owned(u) /\ p.company \in p.companies \cup {0}
AloneInv == \A i \in DOMAIN loads : Pending(i) /\ loads[i].alone => Alone(i)

\* A number is left for every company.
BoundInv == Len(founders) <= MaxCompanies

IInv ==
  /\ TypeOK
  /\ BoundInv
  /\ TokensInv
  /\ BootsInv
  /\ OutInv
  /\ LoadsInv
  /\ AloneInv

-----------------------------------------------------------------------------
(* What a step makes of the loads *)

\* A load that is not over.
Fetch == Load \ {Over}

\* Max of FiniteSetsExt is a choice: in a set of numbers with a bound there is one to choose.
LEMMA MaxIsAMember ==
  ASSUME NEW n \in Nat, NEW S \in SUBSET (1..n), S # {}
  PROVE  Max(S) \in S
<1> DEFINE T == {x..n : x \in S}
<1>1. T \subseteq FiniteSubsetsOf(1..n) /\ T # {}
  <2>1. ASSUME NEW x \in S PROVE x..n \in FiniteSubsetsOf(1..n)
    <3>1. x \in 1..n
      OBVIOUS
    <3>2. IsFiniteSet(x..n)
      BY <3>1, FS_Interval
    <3>3. x..n \subseteq 1..n
      BY <3>1
    <3>4. QED
      BY <3>2, <3>3 DEF FiniteSubsetsOf
  <2>2. QED
    BY <2>1
<1>2. PICK m \in T : \A y \in T : ~(<<y, m>> \in StrictSubsetOrdering(1..n))
  <2>1. IsWellFoundedOn(StrictSubsetOrdering(1..n), FiniteSubsetsOf(1..n))
    BY FS_StrictSubsetOrderingWellFounded
  <2> HIDE DEF T
  <2>2. QED
    BY <1>1, <2>1, WFMin
<1>3. PICK x \in S : m = x..n
  OBVIOUS
<1>4. \A y \in S : x >= y
  <2>1. SUFFICES ASSUME NEW y \in S, y > x PROVE FALSE
    OBVIOUS
  <2>2. y..n \in T /\ y..n \subseteq x..n /\ x \in x..n /\ x \notin y..n /\ x..n \subseteq 1..n
    BY <2>1
  <2>3. y..n # x..n /\ y..n \subseteq 1..n
    BY <2>2
  <2> DEFINE Y == y..n
             X == x..n
  <2>4. Y \in SUBSET (1..n) /\ X \in SUBSET (1..n) /\ Y \subseteq X /\ Y # X
    BY <2>2, <2>3
  <2> HIDE DEF Y, X
  <2>5. <<Y, X>> \in StrictSubsetOrdering(1..n)
    BY <2>4 DEF StrictSubsetOrdering
  <2>6. QED
    BY <1>2, <1>3, <2>2, <2>5 DEF X, Y
<1>5. QED
  BY <1>4 DEF Max

\* The sequences are functions on an interval, and what is in them has its type.
LEMMA SequenceFacts ==
  ASSUME TypeOK
  PROVE  /\ Len(loads) \in Nat /\ DOMAIN loads = 1..Len(loads)
         /\ \A i \in 1..Len(loads) : loads[i] \in Load
         /\ \A i \in 1..Len(loads) : Pending(i) <=> loads[i] # Over
         /\ \A i \in 1..Len(loads) : Pending(i) => loads[i] \in Fetch
         /\ Len(accounts) \in Nat /\ DOMAIN accounts = 1..Len(accounts)
         /\ \A k \in 1..Len(accounts) : accounts[k] \in Users
         /\ Len(founders) \in Nat /\ DOMAIN founders = 1..Len(founders)
         /\ \A k \in 1..Len(founders) : founders[k] \in Users
<1>1. loads \in Seq(Load) /\ accounts \in Seq(Users) /\ founders \in Seq(Users)
  BY DEF TypeOK
<1>2. Len(loads) \in Nat /\ DOMAIN loads = 1..Len(loads) /\ loads \in [1..Len(loads) -> Load]
  BY <1>1, LenProperties
<1>3. /\ Len(accounts) \in Nat /\ DOMAIN accounts = 1..Len(accounts)
      /\ accounts \in [1..Len(accounts) -> Users]
  BY <1>1, LenProperties
<1>4. /\ Len(founders) \in Nat /\ DOMAIN founders = 1..Len(founders)
      /\ founders \in [1..Len(founders) -> Users]
  BY <1>1, LenProperties
<1>5. QED
  BY <1>2, <1>3, <1>4 DEF Pending, Fetch

\* The fields of a load that is not over.
LEMMA FetchFields ==
  Fetch = [kind : {"bootstrap", "session", "refresh", "left"}, tab : Tabs,
           token : Tokens \ {0}, me : {"wait", "ok", "failed"},
           list : {"create", "created", "wait", "read", "ok", "failed"},
           answer : SUBSET Companies, select : 0..MaxCompanies, alone : BOOLEAN]
<1>1. Over.kind = "over"
  BY DEF Over
<1>2. QED
  BY <1>1 DEF Fetch, Load

\* What a load of tab t becomes when something else happens there, or when the page is left.
Awaited(l, t) == l # Over /\ l.kind # "left" /\ l.tab = t
Disturb(l, t) == IF Awaited(l, t) THEN [l EXCEPT !.alone = FALSE] ELSE l
Leave(l, t) == IF Awaited(l, t) THEN Abandoned(l) ELSE l

\* Disturbed and Left are sequences of loads, one for one.
LEMMA DisturbedIs ==
  ASSUME TypeOK, NEW t \in Tabs
  PROVE  /\ Disturbed(t) \in Seq(Load) /\ Len(Disturbed(t)) = Len(loads)
         /\ \A i \in 1..Len(loads) : Disturbed(t)[i] = Disturb(loads[i], t)
         /\ Left(t) \in Seq(Load) /\ Len(Left(t)) = Len(loads)
         /\ \A i \in 1..Len(loads) : Left(t)[i] = Leave(loads[i], t)
<1> DEFINE n == Len(loads)
<1>1. n \in Nat /\ DOMAIN loads = 1..n /\ \A i \in 1..n : loads[i] \in Load
  BY SequenceFacts
<1>2. \A i \in 1..n : Disturb(loads[i], t) \in Load /\ Leave(loads[i], t) \in Load
  <2>1. TAKE i \in 1..n
  <2>2. Over \in Load
    BY DEF Load
  <2>3. CASE loads[i] # Over
    <3> DEFINE l == loads[i]
               d == [l EXCEPT !.alone = FALSE]
               a == [l EXCEPT !.kind = "left", !.alone = FALSE]
    <3>1. l \in Fetch
      BY <1>1, <2>3 DEF Fetch
    <3>2. d \in Fetch /\ a \in Fetch
      BY <3>1, FetchFields
    <3>3. l \in Load /\ d \in Load /\ a \in Load
      BY <3>1, <3>2 DEF Fetch
    <3>4. Disturb(l, t) \in {d, l} /\ Leave(l, t) \in {a, Over, l}
      BY DEF Disturb, Leave, Abandoned
    <3>5. QED
      BY <2>2, <3>3, <3>4
  <2>4. CASE loads[i] = Over
    BY <2>2, <2>4 DEF Disturb, Leave, Awaited
  <2>5. QED
    BY <2>3, <2>4
<1>3. /\ DOMAIN Disturbed(t) = 1..n /\ \A i \in 1..n : Disturbed(t)[i] = Disturb(loads[i], t)
      /\ DOMAIN Left(t) = 1..n /\ \A i \in 1..n : Left(t)[i] = Leave(loads[i], t)
  BY <1>1 DEF Disturbed, Left, Disturb, Leave, Awaited, PendingIn
<1>4. Disturbed(t) \in [1..n -> Load] /\ Left(t) \in [1..n -> Load]
  <2>1. Disturbed(t) = [i \in 1..n |-> Disturb(loads[i], t)]
    BY <1>1 DEF Disturbed, Disturb, Awaited, PendingIn
  <2>2. Left(t) = [i \in 1..n |-> Leave(loads[i], t)]
    BY <1>1 DEF Left, Leave, Awaited, PendingIn
  <2>3. QED
    BY <1>2, <2>1, <2>2
<1>5. Disturbed(t) \in Seq(Load) /\ Left(t) \in Seq(Load)
  BY <1>1, <1>4, SeqDef
<1>6. Len(Disturbed(t)) = n /\ Len(Left(t)) = n
  <2>1. /\ Len(Disturbed(t)) \in Nat /\ DOMAIN Disturbed(t) = 1..Len(Disturbed(t))
        /\ Len(Left(t)) \in Nat /\ DOMAIN Left(t) = 1..Len(Left(t))
    BY <1>5, LenProperties
  <2>2. QED
    BY <1>1, <1>3, <2>1
<1>7. QED
  BY <1>3, <1>5, <1>6

\* A load that changes is still in the sequence, and the others are as they were.
LEMMA BecomesIs ==
  ASSUME TypeOK, NEW i \in 1..Len(loads), NEW l \in Fetch, Becomes(i, l)
  PROVE  /\ loads' \in Seq(Load) /\ Len(loads') = Len(loads)
         /\ \A j \in 1..Len(loads) :
              loads'[j] = IF j # i THEN loads[j] ELSE IF Settled(l) THEN Over ELSE l
<1>1. loads \in Seq(Load)
  BY DEF TypeOK
<1> DEFINE e == IF Settled(l) THEN Over ELSE l
<1>2. e \in Load
  BY DEF Fetch, Load
<1>3. loads' = [loads EXCEPT ![i] = e]
  BY DEF Becomes
<1> HIDE DEF e
<1>4. /\ loads' \in Seq(Load) /\ Len(loads') = Len(loads)
      /\ \A j \in 1..Len(loads) : loads'[j] = IF j = i THEN e ELSE loads[j]
  BY <1>1, <1>2, <1>3, ExceptSeq
<1>5. QED
  BY <1>4 DEF e

\* A load that begins is the last one.
LEMMA AppendIs ==
  ASSUME TypeOK, NEW s \in Seq(Load), Len(s) = Len(loads), NEW l \in Load,
         loads' = Append(s, l)
  PROVE  /\ loads' \in Seq(Load) /\ Len(loads') = Len(loads) + 1
         /\ \A i \in 1..Len(loads) : loads'[i] = s[i]
         /\ loads'[Len(loads) + 1] = l
  BY AppendProperties

\* To disturb a load changes nothing else of it.
LEMMA DisturbFields ==
  ASSUME NEW t \in Tabs, NEW l \in Load
  PROVE  /\ Disturb(l, t) # Over <=> l # Over
         /\ l # Over =>
              /\ Disturb(l, t).kind = l.kind /\ Disturb(l, t).tab = l.tab
              /\ Disturb(l, t).token = l.token /\ Disturb(l, t).me = l.me
              /\ Disturb(l, t).list = l.list /\ Disturb(l, t).answer = l.answer
              /\ Disturb(l, t).select = l.select
              /\ Disturb(l, t).alone => l.alone /\ (l.kind = "left" \/ l.tab # t)
<1>1. CASE l = Over
  BY <1>1 DEF Disturb, Awaited
<1>2. CASE l # Over
  <2>1. l \in Fetch /\ Over.kind = "over"
    BY <1>2 DEF Fetch, Over
  <2>2. QED
    BY <1>2, <2>1, FetchFields DEF Disturb, Awaited
<1>3. QED
  BY <1>1, <1>2

-----------------------------------------------------------------------------
(* What users do *)

\* A session or a refresh that has just begun in tab t, which had no other load if it is alone.
Begun(l, t) ==
  /\ l \in Fetch /\ l.tab = t /\ l.answer = {}
  /\ \/ l.kind = "session" /\ l.me = "wait" /\ l.list = "wait"
     \/ l.kind = "refresh" /\ l.me = "ok" /\ l.list = "create"
  /\ l.alone =>
       \A j \in DOMAIN loads : ~(Pending(j) /\ loads[j].kind # "left" /\ loads[j].tab = t)

\* The companies of a user after the step.
OwnedThen(u) == {c \in DOMAIN founders' : founders'[c] = u}

\* It is of a login, and of the tokens of its tab.
Begins(t, token) ==
  \E l :
    /\ Begun(l, t)
    /\ loads' = Append(Disturbed(t), l)
    /\ l.token \in 1..Len(accounts')
    /\ token = l.token

\* Something happens in a tab that is loaded: it keeps its loading screen, its loads are no
\* longer alone, and a load may begin.
LEMMA DisturbingStep ==
  ASSUME IInv, NEW t \in Tabs,
         accounts' \in Seq(Users), Len(accounts) <= Len(accounts'),
         \A k \in 1..Len(accounts) : accounts'[k] = accounts[k], UNCHANGED founders,
         stored' \in [token : Tokens, company : 0..MaxCompanies], StoredIsLatest',
         NEW q \in Page, page' = [page EXCEPT ![t] = q], q.booting = page[t].booting,
         q.token \in 0..Len(accounts'),
         \/ out' = out \ {t}
         \/ out' = out /\ q.token = page[t].token
         \/ out' = out \cup {t} /\ q.token = 0 /\ ~q.booting,
         loads' = Disturbed(t) \/ Begins(t, q.token)
  PROVE  IInv'
<1> DEFINE n == Len(loads)
           m == Len(loads')
<1> USE DEF IInv
<1>1. /\ n \in Nat /\ DOMAIN loads = 1..n
      /\ \A i \in 1..n : loads[i] \in Load /\ (Pending(i) <=> loads[i] # Over)
      /\ \A i \in 1..n : Pending(i) => loads[i].tab \in Tabs
  BY SequenceFacts, FetchFields
<1>2. /\ loads' \in Seq(Load) /\ DOMAIN loads' = 1..m /\ m \in {n, n + 1}
      /\ \A i \in 1..n : loads'[i] = Disturb(loads[i], t)
      /\ m = n + 1 =>
           /\ Begun(loads'[m], t)
           /\ loads'[m].token \in 1..Len(accounts')
           /\ q.token = loads'[m].token
  <2>1. CASE loads' = Disturbed(t)
    <3>1. loads' \in Seq(Load) /\ m = n /\ \A i \in 1..n : loads'[i] = Disturb(loads[i], t)
      BY <2>1, DisturbedIs
    <3>2. DOMAIN loads' = 1..m
      BY <3>1, LenProperties
    <3> HIDE DEF n, m
    <3>3. m # n + 1
      <4>1. n \in Nat /\ m = n
        BY <1>1, <3>1
      <4>2. QED
        BY <4>1
    <3>4. QED
      BY <3>1, <3>2, <3>3
  <2>2. CASE Begins(t, q.token)
    <3>1. PICK l :
            /\ Begun(l, t)
            /\ loads' = Append(Disturbed(t), l)
            /\ l.token \in 1..Len(accounts')
            /\ q.token = l.token
      BY <2>2 DEF Begins
    <3>2. /\ Disturbed(t) \in Seq(Load) /\ Len(Disturbed(t)) = n
          /\ \A i \in 1..n : Disturbed(t)[i] = Disturb(loads[i], t)
      BY DisturbedIs
    <3>3. l \in Load
      BY <3>1 DEF Begun, Fetch
    <3>4. /\ loads' \in Seq(Load) /\ m = n + 1 /\ loads'[n + 1] = l
          /\ \A i \in 1..n : loads'[i] = Disturbed(t)[i]
      BY <3>1, <3>2, <3>3, AppendIs
    <3>5. DOMAIN loads' = 1..m
      BY <3>4, LenProperties
    <3>6. QED
      BY <1>1, <3>1, <3>2, <3>4, <3>5
  <2>3. QED
    BY <2>1, <2>2
<1> HIDE DEF n, m
<1>3. ASSUME NEW i \in 1..n
      PROVE  /\ i \in DOMAIN loads' /\ (Pending(i)' <=> Pending(i))
             /\ Pending(i) =>
                  /\ loads'[i].kind = loads[i].kind /\ loads'[i].tab = loads[i].tab
                  /\ loads'[i].token = loads[i].token /\ loads'[i].me = loads[i].me
                  /\ loads'[i].list = loads[i].list /\ loads'[i].answer = loads[i].answer
                  /\ loads'[i].select = loads[i].select
                  /\ loads'[i].alone =>
                       loads[i].alone /\ loads[i].tab # t /\ loads[i].kind # "left"
  <2>1. Pending(i) => (loads[i].alone => loads[i].kind # "left")
    BY <1>1, <1>3 DEF LoadsInv, Sound
  <2>2. QED
    BY <1>1, <1>2, <2>1, DisturbFields DEF Pending, n
<1>4. \A i \in 1..m : i \in 1..n \/ (i = m /\ m = n + 1)
  <2>1. n \in Nat /\ m \in {n, n + 1}
    BY <1>1, <1>2
  <2>2. QED
    BY <2>1
<1>5. /\ page \in [Tabs -> Page]
      /\ Len(accounts) \in Nat /\ Len(accounts') \in Nat
  BY LenProperties DEF TypeOK
<1>6. \A k \in 1..Len(accounts) :
        /\ k \in 1..Len(accounts') /\ accounts'[k] = accounts[k]
        /\ Owned(accounts[k]) \subseteq OwnedThen(accounts'[k])
  BY <1>5 DEF Owned, OwnedThen
<1>7. TypeOK'
  <2>1. page' \in [Tabs -> Page]
    BY <1>5
  <2>2. out' \subseteq Tabs
    BY DEF TypeOK
  <2>3. QED
    BY <1>2, <2>1, <2>2 DEF TypeOK
<1>8. TokensInv'
  BY <1>5 DEF TokensInv
<1>9. BootsInv'
  <2>1. \A i \in 1..n : Booting(i)' <=> Booting(i)
    BY <1>1, <1>3 DEF Booting
  <2>2. \A x \in Tabs : page'[x].booting = page[x].booting
    BY <1>5
  <2>3. \A i \in 1..n : Booting(i) => loads'[i].tab = loads[i].tab /\ loads[i].tab \in Tabs
    BY <1>1, <1>3 DEF Booting
  <2>4. \A i \in 1..m : Booting(i)' => i \in 1..n
    BY <1>2, <1>4 DEF Booting, Begun
  <2>5. QED
    BY <1>1, <1>2, <2>1, <2>2, <2>3, <2>4 DEF BootsInv
<1>10. OutInv'
  BY <1>5 DEF OutInv, TypeOK
<1>11. LoadsInv'
  <2>1. SUFFICES ASSUME NEW i \in 1..m, Pending(i)' PROVE Sound(i)'
    BY <1>2 DEF LoadsInv
  <2>2. CASE i \in 1..n
    <3>1. Sound(i) /\ Pending(i)
      BY <1>1, <1>3, <2>1, <2>2 DEF LoadsInv
    <3> DEFINE l == loads[i]
               e == loads'[i]
    <3>2. /\ e.kind = l.kind /\ e.token = l.token /\ e.me = l.me
          /\ e.list = l.list /\ e.answer = l.answer /\ e.select = l.select
          /\ e.alone => l.alone
      BY <1>3, <2>2, <3>1
    <3>3. /\ l.token \in 1..Len(accounts) /\ l.answer \subseteq Owned(accounts[l.token])
          /\ l.list = "create" => l.kind \in {"refresh", "left"}
          /\ l.kind = "left" => l.me = "ok" /\ l.list = "create" /\ ~l.alone
          /\ l.kind = "refresh" =>
               /\ l.me = "ok"
               /\ l.list # "create" => l.select \in Owned(accounts[l.token])
               /\ l.list # "ok"
               /\ l.list = "read" => l.select \in l.answer
      BY <3>1 DEF Sound
    <3>4. /\ l.token \in 1..Len(accounts')
          /\ Owned(accounts[l.token]) \subseteq OwnedThen(accounts'[l.token])
      BY <1>6, <3>3
    <3> HIDE DEF l, e
    <3>5. /\ e.token \in 1..Len(accounts') /\ e.answer \subseteq OwnedThen(accounts'[e.token])
          /\ e.list = "create" => e.kind \in {"refresh", "left"}
          /\ e.kind = "left" => e.me = "ok" /\ e.list = "create" /\ ~e.alone
          /\ e.kind = "refresh" =>
               /\ e.me = "ok"
               /\ e.list # "create" => e.select \in OwnedThen(accounts'[e.token])
               /\ e.list # "ok"
               /\ e.list = "read" => e.select \in e.answer
      BY <3>2, <3>3, <3>4
    <3>6. QED
      BY <3>5 DEF Sound, Owned, OwnedThen, e
  <2>3. CASE i = m /\ m = n + 1
    BY <1>2, <2>3 DEF Sound, Begun, Owned, OwnedThen
  <2>4. QED
    BY <1>4, <2>2, <2>3
<1>12. AloneInv'
  <2>1. SUFFICES ASSUME NEW i \in 1..m, Pending(i)', loads'[i].alone PROVE Alone(i)'
    BY <1>2 DEF AloneInv
  <2>2. CASE i \in 1..n
    <3>1. Pending(i) /\ loads[i].alone /\ loads[i].tab # t /\ loads'[i].tab = loads[i].tab
      BY <1>3, <2>1, <2>2
    <3>2. page'[loads[i].tab] = page[loads[i].tab] /\ Alone(i) /\ Sound(i)
      BY <1>1, <1>5, <2>2, <3>1 DEF AloneInv, LoadsInv
    <3>3. \A j \in DOMAIN loads' :
            Pending(j)' /\ loads'[j].kind # "left" /\ loads'[j].tab = loads[i].tab => j = i
      <4>1. TAKE j \in DOMAIN loads'
      <4>2. CASE j \in 1..n
        BY <1>1, <1>3, <3>2, <4>2 DEF Alone
      <4>3. CASE j = m /\ m = n + 1
        BY <1>2, <3>1, <4>3 DEF Begun
      <4>4. QED
        BY <1>2, <1>4, <4>2, <4>3
    <3>4. loads[i].token \in 1..Len(accounts)
      BY <3>2 DEF Sound
    <3>5. Owned(accounts[loads[i].token]) \subseteq OwnedThen(accounts'[loads'[i].token])
      BY <1>3, <1>6, <2>2, <3>1, <3>4
    <3>6. loads'[i].list = "ok" =>
            /\ page'[loads'[i].tab].companies \subseteq OwnedThen(accounts'[loads'[i].token])
            /\ page'[loads'[i].tab].company \in page'[loads'[i].tab].companies \cup {0}
      BY <1>3, <2>2, <3>1, <3>2, <3>5 DEF Alone
    <3>7. QED
      BY <1>3, <2>2, <3>1, <3>2, <3>3, <3>6 DEF Alone, Owned, OwnedThen
  <2>3. CASE i = m /\ m = n + 1
    <3>1. \A j \in 1..n : ~(Pending(j)' /\ loads'[j].kind # "left" /\ loads'[j].tab = t)
      BY <1>1, <1>2, <1>3, <2>1, <2>3 DEF Begun
    <3>2. \A j \in DOMAIN loads' :
            Pending(j)' /\ loads'[j].kind # "left" /\ loads'[j].tab = t => j = i
      BY <1>2, <1>4, <2>3, <3>1
    <3>3. page'[t].token = loads'[i].token
      BY <1>2, <1>5, <2>1, <2>3
    <3>4. QED
      BY <1>2, <2>3, <3>2, <3>3 DEF Alone, Begun
  <2>4. QED
    BY <1>4, <2>2, <2>3
<1>13. QED
  BY <1>7, <1>8, <1>9, <1>10, <1>11, <1>12 DEF BoundInv

\* What Begin begins.
LEMMA BeginBegins ==
  ASSUME TypeOK, NEW t \in Tabs, NEW kind, NEW me, NEW list,
         \/ kind = "session" /\ me = "wait" /\ list = "wait"
         \/ kind = "refresh" /\ me = "ok" /\ list = "create",
         NEW token \in Tokens \ {0}, token \in 1..Len(accounts'),
         Begin(t, kind, token, me, list)
  PROVE  Begins(t, token)
<1> DEFINE l == [kind |-> kind, tab |-> t, token |-> token, me |-> me, list |-> list,
                 answer |-> {}, select |-> 0, alone |-> PendingIn(t) = {}]
<1>1. (PendingIn(t) = {}) \in BOOLEAN
  OBVIOUS
<1>2. l \in Fetch
  BY <1>1, FetchFields, FrontendSessionAssumption
<1>3. l.alone =>
        \A j \in DOMAIN loads : ~(Pending(j) /\ loads[j].kind # "left" /\ loads[j].tab = t)
  BY DEF PendingIn, Pending
<1>4. Begun(l, t)
  BY <1>2, <1>3 DEF Begun
<1>5. loads' = Append(Disturbed(t), l)
  BY DEF Begin
<1>6. QED
  BY <1>4, <1>5 DEF Begins

LEMMA LogoutStep ==
  ASSUME IInv, NEW t \in Tabs, Logout(t)
  PROVE  IInv'
<1> DEFINE q == Cleared(page[t])
<1>1. TypeOK /\ StoredIsLatest /\ page[t] \in Page /\ ~page[t].booting
  BY DEF IInv, TypeOK, TokensInv, Logout, Shell
<1>2. q \in Page /\ q.token = 0 /\ q.booting = page[t].booting /\ page' = [page EXCEPT ![t] = q]
  <2>1. 0 \in Tokens /\ 0 \in 0..MaxCompanies
    BY FrontendSessionAssumption DEF Tokens
  <2>2. q \in Page /\ q.token = 0 /\ q.booting = page[t].booting
    BY <1>1, <2>1 DEF Cleared, Page
  <2>3. QED
    BY <2>2 DEF Logout
<1>3. stored' \in [token : Tokens, company : 0..MaxCompanies] /\ StoredIsLatest'
  BY FrontendSessionAssumption DEF Logout, NoSession, Tokens, StoredIsLatest
<1>4. /\ accounts' = accounts /\ founders' = founders
      /\ loads' = Disturbed(t) /\ out' = out \cup {t}
  BY DEF Logout
<1>5. accounts \in Seq(Users) /\ Len(accounts) \in Nat
  BY <1>1, SequenceFacts DEF TypeOK
<1> HIDE DEF q
<1>6. /\ accounts' \in Seq(Users) /\ Len(accounts) <= Len(accounts')
      /\ \A k \in 1..Len(accounts) : accounts'[k] = accounts[k]
      /\ q.token \in 0..Len(accounts')
  BY <1>1, <1>2, <1>4, <1>5
<1>7. QED
  BY <1>1, <1>2, <1>3, <1>4, <1>5, <1>6, DisturbingStep

LEMMA SelectCompanyStep ==
  ASSUME IInv, NEW t \in Tabs, NEW c \in Companies, SelectCompany(t, c)
  PROVE  IInv'
<1> DEFINE q == [page[t] EXCEPT !.company = c]
<1>1. /\ TypeOK /\ TokensInv /\ page[t] \in Page /\ page[t].token \in 0..Len(accounts)
  BY DEF IInv, TypeOK, TokensInv
<1>2. /\ q \in Page /\ q.token = page[t].token /\ q.booting = page[t].booting
      /\ page' = [page EXCEPT ![t] = q]
  BY <1>1, FrontendSessionAssumption DEF SelectCompany, Page, Companies
<1>3. stored' \in [token : Tokens, company : 0..MaxCompanies] /\ StoredIsLatest'
  BY <1>1, FrontendSessionAssumption
  DEF SelectCompany, TypeOK, TokensInv, StoredIsLatest, Companies
<1>4. /\ accounts' = accounts /\ founders' = founders /\ loads' = Disturbed(t) /\ out' = out
  BY DEF SelectCompany
<1>5. accounts \in Seq(Users) /\ Len(accounts) \in Nat
  BY <1>1, SequenceFacts DEF TypeOK
<1> HIDE DEF q
<1>6. /\ accounts' \in Seq(Users) /\ Len(accounts) <= Len(accounts')
      /\ \A k \in 1..Len(accounts) : accounts'[k] = accounts[k]
      /\ q.token \in 0..Len(accounts')
  BY <1>1, <1>2, <1>4, <1>5
<1>7. QED
  BY <1>1, <1>2, <1>3, <1>4, <1>5, <1>6, DisturbingStep

LEMMA LoginStep ==
  ASSUME IInv, NEW t \in Tabs, NEW u \in Users, Login(t, u)
  PROVE  IInv'
<1> DEFINE token == Len(accounts')
           q == [page[t] EXCEPT !.token = token]
<1>1. /\ TypeOK /\ TokensInv /\ page[t] \in Page
      /\ accounts \in Seq(Users) /\ founders \in Seq(Users)
  BY DEF IInv, TypeOK
<1>2. Len(accounts) \in Nat
  BY <1>1, SequenceFacts
<1>3. /\ accounts' \in Seq(Users) /\ token = Len(accounts) + 1
      /\ \A k \in 1..Len(accounts) : accounts'[k] = accounts[k]
  BY <1>1, AppendProperties DEF Login
<1>4. token \in Tokens \ {0} /\ token \in 0..token /\ token \in 1..token /\ Len(accounts) <= token
  BY <1>2, <1>3, FrontendSessionAssumption DEF Login, Tokens
<1>5. Begin(t, "session", token, "wait", "wait")
  BY DEF Login
<1> HIDE DEF token
<1>7. Begins(t, token)
  BY <1>1, <1>4, <1>5, BeginBegins DEF token
<1>8. /\ q \in Page /\ q.token = token /\ q.booting = page[t].booting
      /\ page' = [page EXCEPT ![t] = q]
  BY <1>1, <1>4 DEF Login, Page, token
<1>9. stored' \in [token : Tokens, company : 0..MaxCompanies] /\ StoredIsLatest'
  BY <1>1, <1>4 DEF Login, TypeOK, StoredIsLatest, token
<1>10. founders' = founders /\ out' = out \ {t}
  BY DEF Login
<1> HIDE DEF q
<1>11. /\ accounts' \in Seq(Users) /\ Len(accounts) <= Len(accounts')
       /\ \A k \in 1..Len(accounts) : accounts'[k] = accounts[k]
       /\ q.token \in 0..Len(accounts')
  BY <1>1, <1>2, <1>3, <1>4, <1>8, <1>10 DEF token
<1>12. Begins(t, q.token)
  BY <1>7, <1>8
<1>13. QED
  BY <1>8, <1>9, <1>10, <1>11, <1>12, DisturbingStep

LEMMA SubmitCompanyStep ==
  ASSUME IInv, NEW t \in Tabs, SubmitCompany(t)
  PROVE  IInv'
<1> DEFINE q == page[t]
<1>1. /\ TypeOK /\ TokensInv /\ q \in Page /\ page \in [Tabs -> Page]
      /\ accounts \in Seq(Users) /\ Len(accounts) \in Nat
  BY SequenceFacts DEF IInv, TypeOK
<1>2. q.token \in Tokens \ {0} /\ q.token \in 1..Len(accounts)
  <2>1. q.token # 0 /\ q.token \in Tokens /\ q.token \in 0..Len(accounts)
    BY <1>1 DEF SubmitCompany, Shell, TokensInv, Page
  <2>2. QED
    BY <1>1, <2>1
<1>3. /\ UNCHANGED <<stored, page, accounts, founders, out>>
      /\ Begin(t, "refresh", q.token, "ok", "create")
  BY DEF SubmitCompany
<1>4. page' = [page EXCEPT ![t] = q] /\ q.booting = page[t].booting /\ q.token = page[t].token
  BY <1>1, <1>3
<1>5. StoredIsLatest' /\ stored' \in [token : Tokens, company : 0..MaxCompanies]
  BY <1>1, <1>3 DEF StoredIsLatest, TokensInv, TypeOK
<1> HIDE DEF q
<1>6. Begins(t, q.token)
  BY <1>1, <1>2, <1>3, BeginBegins
<1>7. /\ accounts' \in Seq(Users) /\ Len(accounts) <= Len(accounts')
      /\ \A k \in 1..Len(accounts) : accounts'[k] = accounts[k]
      /\ q.token \in 0..Len(accounts')
  BY <1>1, <1>2, <1>3
<1>8. QED
  BY <1>1, <1>3, <1>4, <1>5, <1>6, <1>7, DisturbingStep

LEMMA OpenStep ==
  ASSUME IInv, NEW t \in Tabs, Open(t)
  PROVE  IInv'
<1> DEFINE n == Len(loads)
           m == Len(loads')
           q == EmptyPage(stored.token # 0)
           l == [kind |-> "bootstrap", tab |-> t, token |-> stored.token, me |-> "wait",
                 list |-> "wait", answer |-> {}, select |-> 0, alone |-> TRUE]
<1> USE DEF IInv
<1>1. /\ n \in Nat /\ DOMAIN loads = 1..n
      /\ \A i \in 1..n : loads[i] \in Load /\ (Pending(i) <=> loads[i] # Over)
      /\ \A i \in 1..n : Pending(i) => loads[i].tab \in Tabs
  BY SequenceFacts, FetchFields
<1>2. /\ page \in [Tabs -> Page] /\ stored \in [token : Tokens, company : 0..MaxCompanies]
      /\ Len(accounts) \in Nat /\ stored.token \in {0, Len(accounts)}
  BY SequenceFacts DEF TypeOK, TokensInv, StoredIsLatest
<1>3. stored.token # 0 => l \in Fetch /\ l.token \in 1..Len(accounts)
  BY <1>2, FetchFields, FrontendSessionAssumption
<1>4. /\ loads' \in Seq(Load) /\ DOMAIN loads' = 1..m
      /\ \/ m = n /\ stored.token = 0
         \/ m = n + 1 /\ stored.token # 0 /\ loads'[m] = l
      /\ \A i \in 1..n : loads'[i] = Leave(loads[i], t)
  <2>1. /\ Left(t) \in Seq(Load) /\ Len(Left(t)) = n
        /\ \A i \in 1..n : Left(t)[i] = Leave(loads[i], t)
    BY DisturbedIs
  <2>2. CASE stored.token = 0
    <3>1. loads' = Left(t)
      BY <2>2 DEF Open
    <3>2. loads' \in Seq(Load) /\ m = n
      BY <2>1, <3>1
    <3>3. DOMAIN loads' = 1..m
      BY <3>2, LenProperties
    <3>4. QED
      BY <2>1, <2>2, <3>1, <3>2, <3>3
  <2>3. CASE stored.token # 0
    <3>1. loads' = Append(Left(t), l) /\ l \in Load
      BY <1>3, <2>3 DEF Open, Fetch
    <3> HIDE DEF l
    <3>2. /\ loads' \in Seq(Load) /\ m = n + 1 /\ loads'[n + 1] = l
          /\ \A i \in 1..n : loads'[i] = Left(t)[i]
      BY <2>1, <3>1, AppendIs
    <3>3. DOMAIN loads' = 1..m
      BY <3>2, LenProperties
    <3>4. QED
      BY <2>1, <2>3, <3>2, <3>3
  <2>4. QED
    BY <2>2, <2>3
<1>5. /\ page' = [page EXCEPT ![t] = q]
      /\ UNCHANGED <<stored, accounts, founders>> /\ out' = out \ {t}
  BY DEF Open
<1>6. q \in Page /\ q.token = 0 /\ q.booting = (stored.token # 0)
  BY FrontendSessionAssumption DEF EmptyPage, Page, Tokens
<1> HIDE DEF n, m, q
<1>7. ASSUME NEW i \in 1..n
      PROVE  /\ i \in DOMAIN loads'
             /\ Pending(i)' =>
                  /\ Pending(i) /\ loads'[i].tab = loads[i].tab
                  /\ \/ loads'[i] = loads[i] /\ (loads[i].tab # t \/ loads[i].kind = "left")
                     \/ /\ loads'[i] = [loads[i] EXCEPT !.kind = "left", !.alone = FALSE]
                        /\ loads'[i].kind = "left" /\ ~loads'[i].alone
                        /\ loads[i].list = "create"
  <2>1. i \in DOMAIN loads' /\ loads'[i] = Leave(loads[i], t)
    <3>1. n \in Nat /\ m \in {n, n + 1} /\ DOMAIN loads' = 1..m
      BY <1>1, <1>4
    <3>2. QED
      BY <1>4, <3>1
  <2>2. SUFFICES ASSUME Pending(i)'
                 PROVE  /\ Pending(i) /\ loads'[i].tab = loads[i].tab
                        /\ \/ loads'[i] = loads[i] /\ (loads[i].tab # t \/ loads[i].kind = "left")
                           \/ /\ loads'[i] = [loads[i] EXCEPT !.kind = "left", !.alone = FALSE]
                              /\ loads'[i].kind = "left" /\ ~loads'[i].alone
                              /\ loads[i].list = "create"
    BY <2>1
  <2>3. loads'[i] # Over
    BY <2>2 DEF Pending
  <2>4. Pending(i)
    BY <1>1, <2>1, <2>3 DEF Leave, Awaited
  <2>5. CASE loads'[i] = loads[i] /\ ~Awaited(loads[i], t)
    BY <2>4, <2>5 DEF Awaited, Pending
  <2>6. CASE loads[i].list = "create" /\ loads'[i] = [loads[i] EXCEPT !.kind = "left", !.alone = FALSE]
    <3>1. loads[i] \in Fetch
      BY <1>1, <2>4 DEF Fetch
    <3>2. QED
      BY <2>4, <2>6, <3>1, FetchFields
  <2>7. QED
    BY <2>1, <2>3, <2>5, <2>6 DEF Leave, Abandoned
<1>8. \A i \in 1..m : i \in 1..n \/ (i = m /\ m = n + 1 /\ loads'[i] = l /\ stored.token # 0)
  <2>1. n \in Nat /\ m \in {n, n + 1}
    BY <1>1, <1>4
  <2>2. \A i \in 1..m : i \in 1..n \/ (i = m /\ m = n + 1)
    BY <2>1
  <2>3. m = n + 1 => loads'[m] = l /\ stored.token # 0
    BY <1>1, <1>4
  <2>4. QED
    BY <2>2, <2>3
<1>9. TypeOK'
  <2>1. page' \in [Tabs -> Page]
    BY <1>2, <1>5, <1>6
  <2>2. QED
    BY <1>4, <1>5, <2>1 DEF TypeOK
<1>10. TokensInv'
  BY <1>2, <1>5, <1>6 DEF TokensInv, StoredIsLatest
<1>11. BootsInv'
  <2>1. ASSUME NEW i \in 1..m, Booting(i)'
        PROVE  \/ i \in 1..n /\ Booting(i) /\ loads'[i] = loads[i] /\ loads[i].tab # t
               \/ i = m /\ m = n + 1 /\ loads'[i].tab = t /\ stored.token # 0
    <3>1. CASE i \in 1..n
      <4>1. loads'[i].kind = "bootstrap" /\ "failed" \notin {loads'[i].me, loads'[i].list}
        BY <2>1 DEF Booting
      <4>2. Pending(i) /\ loads'[i] = loads[i] /\ loads[i].tab # t
        BY <1>7, <2>1, <3>1, <4>1 DEF Booting
      <4>3. QED
        BY <3>1, <4>1, <4>2 DEF Booting
    <3>2. CASE i = m /\ m = n + 1 /\ loads'[i] = l /\ stored.token # 0
      BY <3>2
    <3>3. QED
      BY <1>8, <3>1, <3>2
  <2>2. ASSUME NEW i \in 1..m, Booting(i)'
        PROVE  page'[loads'[i].tab].booting
    <3>1. CASE i \in 1..n /\ Booting(i) /\ loads'[i] = loads[i] /\ loads[i].tab # t
      BY <1>1, <1>2, <1>5, <3>1 DEF BootsInv, Booting
    <3>2. CASE i = m /\ m = n + 1 /\ loads'[i].tab = t /\ stored.token # 0
      BY <1>2, <1>5, <1>6, <3>2
    <3>3. QED
      BY <2>1, <2>2, <3>1, <3>2
  <2>3. ASSUME NEW i \in 1..m, NEW j \in 1..m, Booting(i)', Booting(j)',
               loads'[i].tab = loads'[j].tab
        PROVE  i = j
    BY <1>1, <2>1, <2>3 DEF BootsInv
  <2>4. QED
    BY <1>4, <2>2, <2>3 DEF BootsInv
<1>12. OutInv'
  BY <1>2, <1>5, <1>6 DEF OutInv, TypeOK
<1>13. LoadsInv'
  <2>1. SUFFICES ASSUME NEW i \in 1..m, Pending(i)' PROVE Sound(i)'
    BY <1>4 DEF LoadsInv
  <2>2. CASE i \in 1..n
    <3>1. Pending(i) /\ Sound(i) /\ loads[i] \in Fetch
      BY <1>1, <1>7, <2>1, <2>2 DEF LoadsInv, Fetch
    <3>2. CASE loads'[i] = loads[i]
      BY <1>5, <3>1, <3>2 DEF Sound, Owned
    <3>3. CASE /\ loads'[i] = [loads[i] EXCEPT !.kind = "left", !.alone = FALSE]
               /\ loads[i].list = "create"
      <4> DEFINE k == loads[i]
                 e == loads'[i]
      <4>1. /\ e.kind = "left" /\ ~e.alone /\ e.token = k.token /\ e.me = k.me
            /\ e.list = "create" /\ e.answer = k.answer
        BY <3>1, <3>3, FetchFields
      <4>2. k.token \in 1..Len(accounts) /\ k.answer \subseteq Owned(accounts[k.token]) /\ k.me = "ok"
        BY <3>1, <3>3 DEF Sound
      <4> HIDE DEF e, k
      <4>3. /\ e.token \in 1..Len(accounts) /\ e.answer \subseteq Owned(accounts[e.token])
            /\ e.kind = "left" /\ ~e.alone /\ e.me = "ok" /\ e.list = "create"
        BY <4>1, <4>2
      <4>4. QED
        BY <1>5, <4>3 DEF Sound, Owned, e
    <3>4. QED
      BY <1>7, <2>1, <2>2, <3>2, <3>3
  <2>3. CASE i = m /\ m = n + 1 /\ loads'[i] = l /\ stored.token # 0
    BY <1>3, <1>5, <2>3 DEF Sound
  <2>4. QED
    BY <1>8, <2>2, <2>3
<1>14. AloneInv'
  <2>1. SUFFICES ASSUME NEW i \in 1..m, Pending(i)', loads'[i].alone PROVE Alone(i)'
    BY <1>4 DEF AloneInv
  <2>2. CASE i \in 1..n
    <3>1. Pending(i) /\ loads'[i] = loads[i] /\ loads[i].kind # "left" /\ loads[i].tab # t
      <4>1. Pending(i) => Sound(i)
        BY <1>1, <2>2 DEF LoadsInv
      <4>2. QED
        BY <1>7, <2>1, <2>2, <4>1 DEF Sound
    <3>2. Alone(i) /\ page'[loads[i].tab] = page[loads[i].tab]
      BY <1>1, <1>2, <1>5, <2>1, <2>2, <3>1 DEF AloneInv
    <3>3. ASSUME NEW j \in 1..m, Pending(j)', loads'[j].kind # "left", loads'[j].tab = loads[i].tab
          PROVE  j = i
      <4>1. CASE j \in 1..n
        <5>1. Pending(j) /\ loads'[j] = loads[j]
          BY <1>7, <3>3, <4>1
        <5>2. QED
          BY <1>1, <3>2, <3>3, <4>1, <5>1 DEF Alone
      <4>2. CASE j = m /\ m = n + 1 /\ loads'[j] = l /\ stored.token # 0
        BY <3>1, <3>3, <4>2
      <4>3. QED
        BY <1>8, <4>1, <4>2
    <3>4. QED
      BY <1>4, <1>5, <3>1, <3>2, <3>3 DEF Alone, Owned
  <2>3. CASE i = m /\ m = n + 1 /\ loads'[i] = l /\ stored.token # 0
    <3>1. ASSUME NEW j \in 1..m, Pending(j)', loads'[j].kind # "left", loads'[j].tab = t PROVE j = i
      BY <1>7, <1>8, <2>3, <3>1
    <3>2. QED
      BY <1>4, <2>3, <3>1 DEF Alone
  <2>4. QED
    BY <1>8, <2>2, <2>3
<1>15. QED
  BY <1>5, <1>9, <1>10, <1>11, <1>12, <1>13, <1>14 DEF BoundInv

-----------------------------------------------------------------------------
(* Answers *)

\* A company is created, or none.
Founded ==
  /\ founders' \in Seq(Users) /\ Len(founders) <= Len(founders') /\ BoundInv'
  /\ \A k \in 1..Len(founders) : founders'[k] = founders[k]

\* Nobody loses a company.
LEMMA OwnedGrows ==
  ASSUME TypeOK, Founded, NEW u
  PROVE  Owned(u) \subseteq OwnedThen(u)
<1>1. /\ Len(founders) \in Nat /\ DOMAIN founders = 1..Len(founders)
      /\ Len(founders') \in Nat /\ DOMAIN founders' = 1..Len(founders')
  BY LenProperties DEF TypeOK, Founded
<1>2. Len(founders) <= Len(founders') /\ \A k \in 1..Len(founders) : founders'[k] = founders[k]
  BY DEF Founded
<1>3. QED
  BY <1>1, <1>2 DEF Owned, OwnedThen

\* Most answers create none.
LEMMA NoneFounded ==
  ASSUME IInv, founders' = founders
  PROVE  Founded
<1>1. founders \in Seq(Users) /\ Len(founders) \in Nat /\ BoundInv
  BY SequenceFacts DEF IInv, TypeOK
<1>2. QED
  BY <1>1 DEF Founded, BoundInv

\* e is load i with one answer more.
Answered(i, e) ==
  LET l == loads[i]
      u == accounts[l.token]
  IN /\ e \in Fetch
     /\ e.kind = l.kind /\ e.tab = l.tab /\ e.token = l.token
     /\ e.alone => l.alone
     /\ "failed" \in {l.me, l.list} => "failed" \in {e.me, e.list}
     /\ e.answer \subseteq OwnedThen(u)
     /\ e.list # "create"
     /\ e.kind = "left" => Settled(e)
     /\ e.kind = "refresh" => e.me = "ok" /\ (Settled(e) \/ e.select \in OwnedThen(u))
     /\ e.kind = "refresh" /\ e.list = "read" => e.select \in e.answer
     /\ e.alone => e.me # "failed" /\ e.list # "failed"

\* q is what the answer makes of the page.  A loading screen ends with its bootstrap; a tab that
\* is out gets nothing; and a load that is alone and goes on finds what it has brought.
Shown(i, e, q) ==
  LET p == page[e.tab]
      u == accounts[e.token]
  IN /\ q \in Page
     /\ q.token \in 0..Len(accounts)
     /\ q.booting => p.booting
     /\ p.booting /\ ~q.booting => Booting(i) /\ (Settled(e) \/ "failed" \in {e.me, e.list})
     /\ e.tab \in out => q.token = 0
     /\ e.kind = "left" => q = p
     /\ e.alone /\ ~Settled(e) =>
          /\ e.kind # "bootstrap" => q.token = e.token
          /\ e.list = "ok" => q.companies \subseteq Owned(u) /\ q.company \in q.companies \cup {0}

LEMMA AnsweringStep ==
  ASSUME IInv, NEW i \in DOMAIN loads, Pending(i), NEW e, Answered(i, e), Becomes(i, e),
         Founded, UNCHANGED <<accounts, out>>,
         stored' \in [token : Tokens, company : 0..MaxCompanies], StoredIsLatest',
         NEW q, Shown(i, e, q), page' = [page EXCEPT ![e.tab] = q]
  PROVE  IInv'
<1> DEFINE n == Len(loads)
           l == loads[i]
<1> USE DEF IInv
<1>1. /\ n \in Nat /\ DOMAIN loads = 1..n /\ i \in 1..n
      /\ \A j \in 1..n : loads[j] \in Load /\ (Pending(j) <=> loads[j] # Over)
      /\ \A j \in 1..n : Pending(j) => loads[j].tab \in Tabs
      /\ page \in [Tabs -> Page] /\ Len(accounts) \in Nat
  BY SequenceFacts, FetchFields DEF TypeOK
<1>2. /\ e \in Fetch /\ e # Over /\ e.tab \in Tabs
      /\ e.kind = l.kind /\ e.tab = l.tab /\ e.token = l.token
      /\ e.alone => l.alone
      /\ "failed" \in {l.me, l.list} => "failed" \in {e.me, e.list}
      /\ e.answer \subseteq OwnedThen(accounts[l.token])
      /\ e.list # "create" /\ (e.kind = "left" => Settled(e))
      /\ e.kind = "refresh" =>
           e.me = "ok" /\ (Settled(e) \/ e.select \in OwnedThen(accounts[l.token]))
      /\ e.kind = "refresh" /\ e.list = "read" => e.select \in e.answer
      /\ e.alone => e.me # "failed" /\ e.list # "failed"
  <2>1. e \in Fetch
    BY DEF Answered
  <2>2. e # Over
    BY <2>1 DEF Fetch
  <2>3. e.tab \in Tabs
    BY <2>1, FetchFields
  <2>4. QED
    BY <2>1, <2>2, <2>3 DEF Answered
<1>3. /\ q \in Page /\ q.token \in 0..Len(accounts)
      /\ q.booting => page[e.tab].booting
      /\ page[e.tab].booting /\ ~q.booting =>
           Booting(i) /\ (Settled(e) \/ "failed" \in {e.me, e.list})
      /\ e.tab \in out => q.token = 0
      /\ e.kind = "left" => q = page[e.tab]
      /\ e.alone /\ ~Settled(e) =>
           /\ e.kind # "bootstrap" => q.token = e.token
           /\ e.list = "ok" =>
                /\ q.companies \subseteq Owned(accounts[e.token])
                /\ q.company \in q.companies \cup {0}
  BY DEF Shown
<1>4. /\ loads' \in Seq(Load) /\ Len(loads') = n
      /\ \A j \in 1..n : loads'[j] = IF j # i THEN loads[j] ELSE IF Settled(e) THEN Over ELSE e
  BY <1>1, <1>2, BecomesIs
<1>5. DOMAIN loads' = 1..n
  BY <1>4, LenProperties
<1> HIDE DEF n, l
<1>6. ASSUME NEW j \in 1..n, Pending(j)'
      PROVE  \/ j # i /\ Pending(j) /\ loads'[j] = loads[j]
             \/ j = i /\ ~Settled(e) /\ loads'[j] = e
  BY <1>1, <1>4, <1>5, <1>6 DEF Pending
<1>7. /\ UNCHANGED <<accounts, out>> /\ Founded
      /\ \A u : Owned(u) \subseteq OwnedThen(u)
      /\ page' = [page EXCEPT ![e.tab] = q]
      /\ page'[e.tab] = q /\ \A t \in Tabs \ {e.tab} : page'[t] = page[t]
  BY <1>1, <1>2, OwnedGrows
<1>8. TypeOK'
  <2>1. page' \in [Tabs -> Page]
    BY <1>1, <1>3, <1>7
  <2>2. QED
    BY <1>4, <1>7, <2>1 DEF TypeOK, Founded
<1>9. TokensInv'
  BY <1>1, <1>2, <1>3, <1>7 DEF TokensInv
<1>10. BootsInv'
  <2>1. ASSUME NEW j \in 1..n, Booting(j)'
        PROVE  /\ Booting(j) /\ loads'[j].tab = loads[j].tab
               /\ j = i => ~Settled(e) /\ "failed" \notin {e.me, e.list}
    BY <1>1, <1>2, <1>6, <2>1 DEF Booting, l
  <2>2. ASSUME NEW j \in 1..n, Booting(j)'
        PROVE  page'[loads'[j].tab].booting
    <3>1. page[loads[j].tab].booting /\ loads[j].tab \in Tabs /\ loads'[j].tab = loads[j].tab
      BY <1>1, <2>1, <2>2 DEF BootsInv, Booting
    <3>2. CASE loads[j].tab # e.tab
      BY <1>7, <3>1, <3>2
    <3>3. CASE loads[j].tab = e.tab
      <4>1. ~q.booting => Booting(i) /\ loads[i].tab = e.tab /\ i # j
        BY <1>2, <1>3, <2>1, <2>2, <3>1, <3>3 DEF l
      <4>2. q.booting
        BY <1>1, <2>1, <2>2, <3>3, <4>1 DEF BootsInv
      <4>3. QED
        BY <1>7, <3>1, <3>3, <4>2
    <3>4. QED
      BY <3>2, <3>3
  <2>3. ASSUME NEW j \in 1..n, NEW k \in 1..n, Booting(j)', Booting(k)',
               loads'[j].tab = loads'[k].tab
        PROVE  j = k
    BY <1>1, <2>1, <2>3 DEF BootsInv
  <2>4. QED
    BY <1>5, <2>2, <2>3 DEF BootsInv
<1>11. OutInv'
  <2>1. SUFFICES ASSUME NEW t \in out PROVE page'[t].token = 0 /\ ~page'[t].booting
    BY <1>7 DEF OutInv
  <2>2. t \in Tabs /\ page[t].token = 0 /\ ~page[t].booting
    BY DEF OutInv, TypeOK
  <2>3. CASE t = e.tab
    BY <1>3, <1>7, <2>2, <2>3
  <2>4. CASE t # e.tab
    BY <1>7, <2>2, <2>4
  <2>5. QED
    BY <2>3, <2>4
<1>12. LoadsInv'
  <2>1. SUFFICES ASSUME NEW j \in 1..n, Pending(j)' PROVE Sound(j)'
    BY <1>5 DEF LoadsInv
  <2>2. CASE j # i /\ Pending(j) /\ loads'[j] = loads[j]
    <3>1. Sound(j)
      BY <1>1, <2>2 DEF LoadsInv
    <3> DEFINE k == loads[j]
    <3>2. /\ k.token \in 1..Len(accounts) /\ k.answer \subseteq OwnedThen(accounts[k.token])
          /\ k.list = "create" => k.kind \in {"refresh", "left"}
          /\ k.kind = "left" => k.me = "ok" /\ k.list = "create" /\ ~k.alone
          /\ k.kind = "refresh" =>
               /\ k.me = "ok"
               /\ k.list # "create" => k.select \in OwnedThen(accounts[k.token])
               /\ k.list # "ok"
               /\ k.list = "read" => k.select \in k.answer
      BY <1>7, <3>1 DEF Sound
    <3> HIDE DEF k
    <3>3. loads'[j] = k
      BY <2>2 DEF k
    <3>4. QED
      BY <1>7, <3>2, <3>3 DEF Sound, Owned, OwnedThen
  <2>3. CASE j = i /\ ~Settled(e) /\ loads'[j] = e
    <3>1. l.token \in 1..Len(accounts)
      BY <1>1 DEF LoadsInv, Sound, l
    <3>2. e.kind = "refresh" => e.list # "ok"
      BY <1>2, <2>3 DEF Settled
    <3>3. e.kind = "refresh" => e.select \in OwnedThen(accounts[l.token])
      BY <1>2, <2>3
    <3>4. QED
      BY <1>2, <1>7, <2>3, <3>1, <3>2, <3>3 DEF Sound, Owned, OwnedThen
  <2>4. QED
    BY <1>6, <2>1, <2>2, <2>3
<1>13. AloneInv'
  <2>1. SUFFICES ASSUME NEW j \in 1..n, Pending(j)', loads'[j].alone PROVE Alone(j)'
    BY <1>5 DEF AloneInv
  <2>2. ASSUME NEW k \in 1..n, Pending(k)'
        PROVE  Pending(k) /\ loads'[k].tab = loads[k].tab /\ loads'[k].kind = loads[k].kind
    BY <1>2, <1>6, <2>2 DEF l
  <2>3. Pending(j) /\ loads[j].alone /\ loads'[j].tab = loads[j].tab
    BY <1>2, <1>6, <2>1 DEF l
  <2>4. Alone(j)
    BY <1>1, <2>3 DEF AloneInv
  <2>5. \A k \in 1..n :
          Pending(k)' /\ loads'[k].kind # "left" /\ loads'[k].tab = loads'[j].tab => k = j
    BY <1>1, <2>2, <2>3, <2>4 DEF Alone
  <2>6. CASE j # i /\ Pending(j) /\ loads'[j] = loads[j]
    <3> DEFINE k == loads[j]
    <3>1. page'[k.tab] = page[k.tab]
      <4>1. CASE k.tab # e.tab
        BY <1>1, <1>7, <2>6, <4>1
      <4>2. CASE k.tab = e.tab
        <5>1. l.kind = "left"
          BY <1>1, <1>2, <2>4, <2>6, <4>2 DEF Alone, l
        <5>2. q = page[e.tab]
          BY <1>2, <1>3, <5>1
        <5>3. QED
          BY <1>7, <4>2, <5>2
      <4>3. QED
        BY <4>1, <4>2
    <3>2. /\ k.me # "failed" /\ k.list # "failed"
          /\ k.kind # "bootstrap" => page[k.tab].token = k.token
          /\ k.list = "ok" =>
               /\ page[k.tab].companies \subseteq OwnedThen(accounts[k.token])
               /\ page[k.tab].company \in page[k.tab].companies \cup {0}
      BY <1>7, <2>4 DEF Alone
    <3>3. loads'[j] = k
      BY <2>6
    <3> HIDE DEF k
    <3>4. QED
      BY <1>5, <1>7, <2>5, <3>1, <3>2, <3>3 DEF Alone, Owned, OwnedThen
  <2>7. CASE j = i /\ ~Settled(e) /\ loads'[j] = e
    <3>1. e.alone
      BY <2>1, <2>7
    <3>2. e.list = "ok" =>
            /\ q.companies \subseteq OwnedThen(accounts[e.token])
            /\ q.company \in q.companies \cup {0}
      BY <1>3, <1>7, <2>7, <3>1
    <3>3. QED
      BY <1>2, <1>3, <1>5, <1>7, <2>5, <2>7, <3>1, <3>2 DEF Alone, Owned, OwnedThen
  <2>8. QED
    BY <1>6, <2>1, <2>6, <2>7
<1>14. QED
  BY <1>7, <1>8, <1>9, <1>10, <1>11, <1>12, <1>13 DEF Founded

\* What the invariant says of a load that is answered, and of its tab.
LEMMA AnsweredLoad ==
  ASSUME IInv, NEW i \in DOMAIN loads, loads[i] # Over
  PROVE  /\ Pending(i) /\ loads[i] \in Fetch /\ loads[i].tab \in Tabs
         /\ loads[i].token \in 1..Len(accounts) /\ accounts[loads[i].token] \in Users
         /\ page \in [Tabs -> Page] /\ page[loads[i].tab] \in Page
         /\ page[loads[i].tab].token \in 0..Len(accounts)
         /\ loads[i].tab \in out =>
              page[loads[i].tab].token = 0 /\ ~page[loads[i].tab].booting
         /\ Booting(i) => page[loads[i].tab].booting
         /\ Sound(i)
         /\ loads[i].alone => Alone(i)
         /\ stored \in [token : Tokens, company : 0..MaxCompanies] /\ StoredIsLatest
         /\ Len(accounts) \in Nat
<1> USE DEF IInv
<1>1. Pending(i) /\ loads[i] \in Fetch /\ Len(accounts) \in Nat
  BY SequenceFacts DEF Pending
<1>2. loads[i].tab \in Tabs
  BY <1>1, FetchFields
<1>3. Sound(i)
  BY <1>1 DEF LoadsInv
<1>4. loads[i].token \in 1..Len(accounts) /\ accounts[loads[i].token] \in Users
  BY <1>3, SequenceFacts DEF Sound
<1>5. page \in [Tabs -> Page] /\ page[loads[i].tab] \in Page
  BY <1>2 DEF TypeOK
<1>6. Booting(i) => page[loads[i].tab].booting
  BY DEF BootsInv
<1>7. /\ page[loads[i].tab].token \in 0..Len(accounts)
      /\ stored \in [token : Tokens, company : 0..MaxCompanies] /\ StoredIsLatest
      /\ loads[i].tab \in out => page[loads[i].tab].token = 0 /\ ~page[loads[i].tab].booting
  BY <1>2 DEF TokensInv, TypeOK, OutInv
<1>8. loads[i].alone => Alone(i)
  BY <1>1 DEF AloneInv
<1>9. QED
  BY <1>1, <1>2, <1>3, <1>4, <1>5, <1>6, <1>7, <1>8

LEMMA FailStep ==
  ASSUME IInv, NEW i \in DOMAIN loads, loads[i] # Over, FailMe(i) \/ FailList(i)
  PROVE  IInv'
<1> DEFINE l == loads[i]
           p == page[l.tab]
<1>1. /\ Pending(i) /\ l \in Fetch /\ l.tab \in Tabs /\ Sound(i)
      /\ page \in [Tabs -> Page] /\ p \in Page /\ p.token \in 0..Len(accounts)
      /\ l.tab \in out => p.token = 0
      /\ Len(accounts) \in Nat
      /\ stored \in [token : Tokens, company : 0..MaxCompanies] /\ StoredIsLatest
  BY AnsweredLoad
<1>2. PICK d : /\ \/ d = [l EXCEPT !.me = "failed"] /\ l.me = "wait"
                  \/ d = [l EXCEPT !.list = "failed", !.answer = {}]
               /\ Fails(i, d)
  BY DEF FailMe, FailList
<1> DEFINE e == [d EXCEPT !.alone = FALSE]
<1>3. d \in Fetch /\ d.tab = l.tab /\ d.kind = l.kind
  BY <1>1, <1>2, FetchFields
<1>4. /\ e \in Fetch /\ ~e.alone
      /\ e.kind = l.kind /\ e.tab = l.tab /\ e.token = l.token /\ e.select = l.select
      /\ "failed" \in {e.me, e.list}
      /\ e.answer = l.answer \/ e.answer = {}
      /\ \/ e.me = l.me /\ e.list = "failed"
         \/ e.list = l.list /\ l.me = "wait"
  BY <1>1, <1>2, FetchFields
<1>5. Becomes(i, e) /\ UNCHANGED <<accounts, founders, out>> /\ Founded
  BY <1>2, NoneFounded DEF Fails
<1> HIDE DEF e
<1>6. Answered(i, e)
  <2>1. /\ l.answer \subseteq OwnedThen(accounts[l.token])
        /\ l.list = "create" => l.kind \in {"refresh", "left"}
        /\ l.kind \in {"refresh", "left"} => l.me = "ok"
    BY <1>1, <1>5 DEF Sound, Owned, OwnedThen
  <2>2. l.kind \in {"refresh", "left"} => e.me = "ok" /\ e.list = "failed" /\ Settled(e)
    BY <1>4, <2>1 DEF Settled
  <2>3. e.list # "create" /\ (e.kind = "refresh" => e.list # "read")
    BY <1>4, <2>1, <2>2
  <2>4. QED
    BY <1>4, <2>1, <2>2, <2>3 DEF Answered
<1>7. CASE "failed" \in {l.me, l.list}
  <2>1. page' = [page EXCEPT ![e.tab] = p] /\ stored' = stored
    BY <1>1, <1>2, <1>4, <1>7 DEF Fails
  <2>2. Shown(i, e, p)
    BY <1>1, <1>4 DEF Shown
  <2>3. StoredIsLatest' /\ stored' \in [token : Tokens, company : 0..MaxCompanies]
    BY <1>1, <1>5, <2>1 DEF StoredIsLatest
  <2> HIDE DEF p
  <2>4. QED
    BY <1>1, <1>5, <1>6, <2>1, <2>2, <2>3, AnsweringStep
<1>8. CASE "failed" \notin {l.me, l.list}
  <2> DEFINE q == Rejected(d, p)
  <2>1. page' = [page EXCEPT ![e.tab] = q] /\ stored' = StoredAfterRejection(d)
    BY <1>2, <1>3, <1>4, <1>8 DEF Fails
  <2>2. q \in Page /\ (q.token = p.token \/ q.token = 0)
    <3>1. 0 \in Tokens /\ 0 \in 0..MaxCompanies
      BY FrontendSessionAssumption DEF Tokens
    <3>2. QED
      BY <1>1, <3>1 DEF Rejected, Cleared, Page
  <2>3. /\ (q.booting => p.booting) /\ (p.booting /\ ~q.booting => l.kind = "bootstrap")
        /\ l.kind = "left" => q = p
    BY <1>1, <1>3 DEF Rejected, Cleared, Page
  <2>4. l.kind = "bootstrap" => Booting(i)
    BY <1>1, <1>8 DEF Booting
  <2>5. StoredIsLatest' /\ stored' \in [token : Tokens, company : 0..MaxCompanies]
    BY <1>1, <1>5, <2>1, FrontendSessionAssumption
    DEF StoredIsLatest, StoredAfterRejection, NoSession, Tokens
  <2> HIDE DEF q
  <2>6. Shown(i, e, q)
    BY <1>1, <1>4, <2>2, <2>3, <2>4 DEF Shown
  <2>7. QED
    BY <1>1, <1>5, <1>6, <2>1, <2>5, <2>6, AnsweringStep
<1>9. QED
  BY <1>7, <1>8

LEMMA AnswerMeStep ==
  ASSUME IInv, NEW i \in DOMAIN loads, loads[i] # Over, AnswerMe(i)
  PROVE  IInv'
<1> DEFINE l == loads[i]
           p == page[l.tab]
           e == [l EXCEPT !.me = "ok"]
           q == IF l.list = "ok" THEN Resolved(l, p) ELSE p
<1>1. /\ Pending(i) /\ l \in Fetch /\ l.tab \in Tabs /\ Sound(i)
      /\ l.token \in 1..Len(accounts) /\ accounts[l.token] \in Users
      /\ page \in [Tabs -> Page] /\ p \in Page /\ p.token \in 0..Len(accounts)
      /\ l.tab \in out => p.token = 0 /\ ~p.booting
      /\ Booting(i) => p.booting
      /\ l.alone => Alone(i)
      /\ Len(accounts) \in Nat
      /\ stored \in [token : Tokens, company : 0..MaxCompanies] /\ StoredIsLatest
  BY AnsweredLoad
<1>2. /\ l.me = "wait" /\ Becomes(i, e) /\ UNCHANGED <<stored, accounts, founders, out>>
      /\ page' = [page EXCEPT ![l.tab] = q] /\ Founded
  BY <1>1, NoneFounded DEF AnswerMe
<1>3. /\ e \in Fetch /\ e.kind = l.kind /\ e.tab = l.tab /\ e.token = l.token
      /\ e.select = l.select /\ e.alone = l.alone /\ e.me = "ok" /\ e.list = l.list
      /\ e.answer = l.answer /\ l.kind \in {"bootstrap", "session", "refresh", "left"}
      /\ l.token \in Tokens
  BY <1>1, FetchFields
<1>4. /\ l.kind \notin {"refresh", "left"} /\ l.list # "create"
      /\ l.answer \subseteq OwnedThen(accounts[l.token])
  BY <1>1, <1>2 DEF Sound, Owned, OwnedThen
<1>5. l.alone => l.list # "failed" /\ (l.kind # "bootstrap" => p.token = l.token)
  BY <1>1 DEF Alone
<1> HIDE DEF e
<1>6. Answered(i, e)
  BY <1>2, <1>3, <1>4, <1>5 DEF Answered
<1>7. Shown(i, e, q)
  <2>1. CASE l.list # "ok"
    BY <1>1, <1>3, <1>5, <2>1 DEF Shown
  <2>2. CASE l.list = "ok" /\ l.kind = "bootstrap"
    <3>1. Booting(i) /\ Settled(e)
      BY <1>1, <1>2, <1>3, <2>2 DEF Booting, Settled
    <3>2. q = [p EXCEPT !.token = l.token, !.user = accounts[l.token], !.booting = FALSE]
      BY <2>2 DEF Resolved
    <3>3. q \in Page /\ q.token = l.token /\ ~q.booting
      BY <1>1, <1>3, <3>2 DEF Page
    <3>4. l.token \in 0..Len(accounts)
      BY <1>1
    <3> HIDE DEF q
    <3>5. QED
      BY <1>1, <1>3, <2>2, <3>1, <3>3, <3>4 DEF Shown
  <2>3. CASE l.list = "ok" /\ l.kind = "session"
    <3>1. Settled(e)
      BY <1>3, <2>3 DEF Settled
    <3>2. q = [p EXCEPT !.user = accounts[l.token]]
      BY <2>3 DEF Resolved
    <3>3. q \in Page /\ q.token = p.token /\ q.booting = p.booting
      BY <1>1, <3>2 DEF Page
    <3> HIDE DEF q
    <3>4. QED
      BY <1>1, <1>3, <2>3, <3>1, <3>3 DEF Shown
  <2>4. QED
    BY <1>3, <1>4, <2>1, <2>2, <2>3
<1>8. StoredIsLatest' /\ stored' \in [token : Tokens, company : 0..MaxCompanies]
  BY <1>1, <1>2 DEF StoredIsLatest
<1> HIDE DEF q
<1>9. QED
  BY <1>1, <1>2, <1>3, <1>6, <1>7, <1>8, AnsweringStep

LEMMA ReadListStep ==
  ASSUME IInv, NEW i \in DOMAIN loads, loads[i] # Over, ReadList(i)
  PROVE  IInv'
<1> DEFINE l == loads[i]
           p == page[l.tab]
           o == Owned(accounts[l.token])
           e == [l EXCEPT !.list = "read", !.answer = o]
<1>1. /\ Pending(i) /\ l \in Fetch /\ l.tab \in Tabs /\ Sound(i)
      /\ page \in [Tabs -> Page] /\ p \in Page /\ p.token \in 0..Len(accounts)
      /\ l.tab \in out => p.token = 0
      /\ l.alone => Alone(i)
      /\ Len(accounts) \in Nat
      /\ stored \in [token : Tokens, company : 0..MaxCompanies] /\ StoredIsLatest
  BY AnsweredLoad
<1>2. o \in SUBSET Companies
  <2>1. DOMAIN founders = 1..Len(founders) /\ Len(founders) \in Nat /\ Len(founders) <= MaxCompanies
    BY SequenceFacts DEF IInv, BoundInv
  <2>2. 1..Len(founders) \subseteq Companies
    BY <2>1, FrontendSessionAssumption DEF Companies
  <2>3. QED
    BY <2>1, <2>2 DEF Owned
<1>3. l.list = "wait" /\ UNCHANGED <<stored, page, accounts, founders, out>>
  BY DEF ReadList
<1> HIDE DEF o
<1>4. /\ e \in Fetch /\ e.kind = l.kind /\ e.tab = l.tab /\ e.token = l.token
      /\ e.select = l.select /\ e.alone = l.alone /\ e.me = l.me /\ e.list = "read"
      /\ e.answer = o
  BY <1>1, <1>2, FetchFields
<1>5. Becomes(i, e) /\ Founded
  <2>1. loads' = [loads EXCEPT ![i] = e]
    BY DEF ReadList, o
  <2>2. ~Settled(e)
    BY <1>4 DEF Settled
  <2> HIDE DEF e
  <2>3. QED
    BY <1>3, <2>1, <2>2, NoneFounded DEF Becomes
<1>6. /\ l.kind # "left" /\ (l.kind = "refresh" => l.me = "ok" /\ l.select \in o)
      /\ o = OwnedThen(accounts[l.token])
      /\ l.alone => l.me # "failed" /\ (l.kind # "bootstrap" => p.token = l.token)
  BY <1>1, <1>3 DEF Sound, Alone, Owned, OwnedThen, o
<1> HIDE DEF e
<1>7. Answered(i, e)
  BY <1>3, <1>4, <1>6 DEF Answered
<1>8. Shown(i, e, p)
  BY <1>1, <1>4, <1>6 DEF Shown
<1>9. StoredIsLatest' /\ stored' \in [token : Tokens, company : 0..MaxCompanies]
  BY <1>1, <1>3 DEF StoredIsLatest
<1>10. page' = [page EXCEPT ![e.tab] = p]
  BY <1>1, <1>3, <1>4
<1> HIDE DEF p
<1>11. QED
  BY <1>1, <1>3, <1>5, <1>7, <1>8, <1>9, <1>10, AnsweringStep

LEMMA CreateCompanyStep ==
  ASSUME IInv, NEW i \in DOMAIN loads, loads[i] # Over, CreateCompany(i)
  PROVE  IInv'
<1> DEFINE l == loads[i]
           p == page[l.tab]
           u == accounts[l.token]
           c == Len(founders')
           e == [l EXCEPT !.list = IF l.kind = "left" THEN "ok" ELSE "created", !.select = c]
<1>1. /\ Pending(i) /\ l \in Fetch /\ l.tab \in Tabs /\ Sound(i) /\ u \in Users
      /\ page \in [Tabs -> Page] /\ p \in Page /\ p.token \in 0..Len(accounts)
      /\ l.tab \in out => p.token = 0
      /\ l.alone => Alone(i)
      /\ Len(accounts) \in Nat
      /\ stored \in [token : Tokens, company : 0..MaxCompanies] /\ StoredIsLatest
  BY AnsweredLoad
<1>2. /\ l.list = "create" /\ Len(founders) < MaxCompanies /\ founders' = Append(founders, u)
      /\ Becomes(i, e) /\ UNCHANGED <<stored, page, accounts, out>>
  BY DEF CreateCompany
<1>3. founders \in Seq(Users) /\ Len(founders) \in Nat
  BY SequenceFacts DEF IInv, TypeOK
<1> HIDE DEF u
<1>4. /\ founders' \in Seq(Users) /\ c = Len(founders) + 1 /\ founders'[c] = u
      /\ \A k \in 1..Len(founders) : founders'[k] = founders[k]
  BY <1>1, <1>2, <1>3, AppendProperties
<1>5. Founded /\ c \in 0..MaxCompanies /\ c \in 1..c /\ DOMAIN founders' = 1..c
  <2>1. DOMAIN founders' = 1..c
    BY <1>4, LenProperties
  <2>2. QED
    BY <1>2, <1>3, <1>4, <2>1, FrontendSessionAssumption DEF Founded, BoundInv
<1>6. c \in OwnedThen(u)
  BY <1>4, <1>5 DEF OwnedThen
<1> HIDE DEF c
<1>7. /\ e \in Fetch /\ e.kind = l.kind /\ e.tab = l.tab /\ e.token = l.token
      /\ e.select = c /\ e.alone = l.alone /\ e.me = l.me /\ e.answer = l.answer
      /\ e.list = IF l.kind = "left" THEN "ok" ELSE "created"
  BY <1>1, <1>5, FetchFields
<1> HIDE DEF e
<1>8. /\ l.answer \subseteq OwnedThen(u)
      /\ l.kind \in {"refresh", "left"} /\ l.me = "ok"
      /\ l.alone => l.kind = "refresh" /\ p.token = l.token
  <2>1. l.answer \subseteq Owned(u) /\ Owned(u) \subseteq OwnedThen(u)
    BY <1>1, <1>5, OwnedGrows DEF IInv, Sound, u
  <2>2. l.kind \in {"refresh", "left"} /\ l.me = "ok" /\ (l.alone => l.kind # "left")
    BY <1>1, <1>2 DEF Sound
  <2>3. l.alone => (l.kind # "bootstrap" => p.token = l.token)
    BY <1>1 DEF Alone
  <2>4. QED
    BY <2>1, <2>2, <2>3
<1>9. Answered(i, e)
  <2>1. e.kind = "left" => Settled(e)
    BY <1>7, <1>8 DEF Settled
  <2>2. "failed" \in {l.me, l.list} => "failed" \in {e.me, e.list}
    BY <1>2, <1>8
  <2>3. QED
    BY <1>6, <1>7, <1>8, <2>1, <2>2 DEF Answered, u
<1>10. Shown(i, e, p)
  BY <1>1, <1>7, <1>8 DEF Shown
<1>11. StoredIsLatest' /\ stored' \in [token : Tokens, company : 0..MaxCompanies]
  BY <1>1, <1>2 DEF StoredIsLatest
<1>12. page' = [page EXCEPT ![e.tab] = p]
  BY <1>1, <1>2, <1>7
<1> HIDE DEF p
<1>13. QED
  BY <1>1, <1>2, <1>5, <1>9, <1>10, <1>11, <1>12, AnsweringStep

LEMMA CompanyCreatedStep ==
  ASSUME IInv, NEW i \in DOMAIN loads, loads[i] # Over, CompanyCreated(i)
  PROVE  IInv'
<1> DEFINE l == loads[i]
           p == page[l.tab]
           e == [l EXCEPT !.list = "wait"]
<1>1. /\ Pending(i) /\ l \in Fetch /\ l.tab \in Tabs /\ Sound(i)
      /\ page \in [Tabs -> Page] /\ p \in Page /\ p.token \in 0..Len(accounts)
      /\ l.tab \in out => p.token = 0
      /\ l.alone => Alone(i)
      /\ Len(accounts) \in Nat
      /\ stored \in [token : Tokens, company : 0..MaxCompanies] /\ StoredIsLatest
  BY AnsweredLoad
<1>2. /\ l.list = "created" /\ UNCHANGED <<stored, page, accounts, founders, out>> /\ Founded
      /\ loads' = [loads EXCEPT ![i] = e]
  BY NoneFounded DEF CompanyCreated
<1>3. /\ e \in Fetch /\ e.kind = l.kind /\ e.tab = l.tab /\ e.token = l.token
      /\ e.select = l.select /\ e.alone = l.alone /\ e.me = l.me /\ e.list = "wait"
      /\ e.answer = l.answer
  BY <1>1, FetchFields
<1> HIDE DEF e
<1>4. Becomes(i, e)
  <2>1. ~Settled(e)
    BY <1>3 DEF Settled
  <2>2. QED
    BY <1>2, <2>1 DEF Becomes
<1>5. /\ l.answer \subseteq OwnedThen(accounts[l.token]) /\ l.kind # "left"
      /\ l.kind = "refresh" => l.me = "ok" /\ l.select \in OwnedThen(accounts[l.token])
      /\ l.alone => l.me # "failed" /\ (l.kind # "bootstrap" => p.token = l.token)
  BY <1>1, <1>2 DEF Sound, Alone, Owned, OwnedThen
<1>6. Answered(i, e)
  BY <1>2, <1>3, <1>5 DEF Answered
<1>7. Shown(i, e, p)
  BY <1>1, <1>3, <1>5 DEF Shown
<1>8. StoredIsLatest' /\ stored' \in [token : Tokens, company : 0..MaxCompanies]
  BY <1>1, <1>2 DEF StoredIsLatest
<1>9. page' = [page EXCEPT ![e.tab] = p]
  BY <1>1, <1>2, <1>3
<1> HIDE DEF p
<1>10. QED
  BY <1>1, <1>2, <1>4, <1>6, <1>7, <1>8, <1>9, AnsweringStep

\* The company that is chosen is in the list, and there is none only for an empty list.
LEMMA ChosenIsListed ==
  ASSUME NEW answer \in SUBSET Companies
  PROVE  Chosen(answer) \in answer \cup {0}
<1>1. ASSUME answer # {} PROVE Max(answer) \in answer
  BY <1>1, MaxIsAMember, FrontendSessionAssumption DEF Companies
<1>2. QED
  BY <1>1 DEF Chosen

\* The page on which a list is installed.
Listed(l, p) == [p EXCEPT !.companies = l.answer, !.company = Chosen(l.answer)]

LEMMA ListedIs ==
  ASSUME NEW l \in Fetch, NEW p \in Page
  PROVE  /\ Listed(l, p) \in Page
         /\ Listed(l, p).token = p.token /\ Listed(l, p).booting = p.booting
         /\ Listed(l, p).companies = l.answer
         /\ Listed(l, p).company \in l.answer \cup {0}
<1>1. l.answer \in SUBSET Companies
  BY FetchFields
<1>2. Chosen(l.answer) \in l.answer \cup {0}
  BY <1>1, ChosenIsListed
<1>3. Chosen(l.answer) \in 0..MaxCompanies
  BY <1>1, <1>2, FrontendSessionAssumption DEF Companies
<1>4. QED
  BY <1>1, <1>2, <1>3 DEF Listed, Page

LEMMA InstallListStep ==
  ASSUME IInv, NEW i \in DOMAIN loads, loads[i] # Over, InstallList(i)
  PROVE  IInv'
<1> DEFINE l == loads[i]
           p == page[l.tab]
           e == [l EXCEPT !.list = "ok", !.answer = {}]
           r == Listed(l, p)
           q == IF l.me = "ok" THEN Resolved(l, r) ELSE r
           latest == IF l.kind = "refresh" THEN l.select ELSE Chosen(l.answer)
<1>1. /\ Pending(i) /\ l \in Fetch /\ l.tab \in Tabs /\ Sound(i)
      /\ l.token \in 1..Len(accounts) /\ accounts[l.token] \in Users
      /\ page \in [Tabs -> Page] /\ p \in Page /\ p.token \in 0..Len(accounts)
      /\ l.tab \in out => p.token = 0 /\ ~p.booting
      /\ Booting(i) => p.booting
      /\ l.alone => Alone(i)
      /\ Len(accounts) \in Nat
      /\ stored \in [token : Tokens, company : 0..MaxCompanies] /\ StoredIsLatest
  BY AnsweredLoad
<1>2. /\ l.list = "read" /\ Becomes(i, e) /\ UNCHANGED <<accounts, founders, out>>
      /\ page' = [page EXCEPT ![l.tab] = q] /\ stored' = StoredWith(l, latest) /\ Founded
  BY <1>1, NoneFounded DEF InstallList, Listed
<1>3. /\ e \in Fetch /\ e.kind = l.kind /\ e.tab = l.tab /\ e.token = l.token
      /\ e.select = l.select /\ e.alone = l.alone /\ e.me = l.me /\ e.list = "ok"
      /\ e.answer = {} /\ l.kind \in {"bootstrap", "session", "refresh", "left"}
      /\ l.me \in {"wait", "ok", "failed"} /\ l.token \in Tokens
      /\ l.select \in 0..MaxCompanies /\ l.answer \in SUBSET Companies
  BY <1>1, FetchFields
<1>4. /\ l.answer \subseteq Owned(accounts[l.token]) /\ l.kind # "left"
      /\ l.kind = "refresh" => l.me = "ok" /\ Settled(e)
      /\ l.alone => l.me # "failed" /\ (l.kind # "bootstrap" => p.token = l.token)
  BY <1>1, <1>2, <1>3 DEF Sound, Alone, Settled
<1>5. /\ r \in Page /\ r.token = p.token /\ r.booting = p.booting
      /\ r.companies = l.answer /\ r.company \in l.answer \cup {0}
  BY <1>1, ListedIs
<1>6. latest \in 0..MaxCompanies
  BY <1>3, ChosenIsListed, FrontendSessionAssumption DEF Companies
<1>7. StoredIsLatest' /\ stored' \in [token : Tokens, company : 0..MaxCompanies]
  BY <1>1, <1>2, <1>6 DEF StoredIsLatest, StoredWith
<1> HIDE DEF e, r
<1>8. Answered(i, e)
  BY <1>2, <1>3, <1>4 DEF Answered
<1>9. Shown(i, e, q)
  <2>1. CASE l.me # "ok"
    <3>1. l.alone /\ ~Settled(e) => (l.kind # "bootstrap" => p.token = l.token)
      BY <1>4
    <3>2. q = r
      BY <2>1
    <3> HIDE DEF q
    <3>3. QED
      BY <1>1, <1>3, <1>4, <1>5, <3>1, <3>2 DEF Shown
  <2>2. CASE l.me = "ok" /\ l.kind = "bootstrap"
    <3>1. Booting(i) /\ Settled(e)
      BY <1>1, <1>2, <1>3, <2>2 DEF Booting, Settled
    <3>2. q = [r EXCEPT !.token = l.token, !.user = accounts[l.token], !.booting = FALSE]
      BY <2>2 DEF Resolved
    <3>3. q \in Page /\ q.token = l.token /\ ~q.booting
      BY <1>1, <1>3, <1>5, <3>2 DEF Page
    <3>4. l.token \in 0..Len(accounts)
      BY <1>1
    <3> HIDE DEF q
    <3>5. QED
      BY <1>1, <1>3, <2>2, <3>1, <3>3, <3>4 DEF Shown
  <2>3. CASE l.me = "ok" /\ l.kind # "bootstrap"
    <3>1. Settled(e)
      BY <1>3, <2>3 DEF Settled
    <3>2. \/ q = [r EXCEPT !.user = accounts[l.token]]
          \/ q = [r EXCEPT !.company = l.select]
      BY <1>3, <1>4, <2>3 DEF Resolved
    <3>3. q \in Page /\ q.token = p.token /\ q.booting = p.booting
      BY <1>1, <1>3, <1>5, <3>2 DEF Page
    <3> HIDE DEF q
    <3>4. QED
      BY <1>1, <1>3, <1>4, <3>1, <3>3 DEF Shown
  <2>4. QED
    BY <2>1, <2>2, <2>3
<1> HIDE DEF q
<1>10. QED
  BY <1>1, <1>2, <1>3, <1>7, <1>8, <1>9, AnsweringStep

-----------------------------------------------------------------------------
(* The theorems *)

LEMMA InitInv == Init => IInv
<1> SUFFICES ASSUME Init PROVE IInv
  OBVIOUS
<1>1. /\ loads \in Seq(Load) /\ accounts \in Seq(Users) /\ founders \in Seq(Users)
      /\ Len(accounts) = 0 /\ Len(founders) = 0 /\ DOMAIN loads = {}
  BY EmptySeq DEF Init
<1>2. EmptyPage(FALSE) \in Page
  BY FrontendSessionAssumption DEF EmptyPage, Page, Tokens
<1>3. TypeOK
  <2>1. stored \in [token : Tokens, company : 0..MaxCompanies]
    BY FrontendSessionAssumption DEF Init, NoSession, Tokens
  <2>2. page \in [Tabs -> Page] /\ out \subseteq Tabs
    BY <1>2 DEF Init
  <2>3. QED
    BY <1>1, <2>1, <2>2 DEF TypeOK
<1>4. BoundInv /\ TokensInv
  BY <1>1, FrontendSessionAssumption DEF Init, BoundInv, TokensInv, StoredIsLatest, NoSession, EmptyPage
<1>5. BootsInv /\ OutInv /\ LoadsInv /\ AloneInv
  BY <1>1 DEF Init, BootsInv, OutInv, LoadsInv, AloneInv
<1>6. QED
  BY <1>3, <1>4, <1>5 DEF IInv

LEMMA StutterInv ==
  ASSUME IInv, UNCHANGED vars
  PROVE  IInv'
<1>1. /\ UNCHANGED <<stored, page, loads, accounts, founders, out>>
  BY DEF vars
<1>2. TypeOK' /\ BoundInv' /\ TokensInv' /\ OutInv'
  BY <1>1 DEF IInv, TypeOK, BoundInv, TokensInv, StoredIsLatest, OutInv
<1>3. BootsInv'
  BY <1>1 DEF IInv, BootsInv, Booting, Pending
<1>4. LoadsInv'
  BY <1>1 DEF IInv, LoadsInv, Sound, Pending, Owned
<1>5. AloneInv'
  BY <1>1 DEF IInv, AloneInv, Alone, Pending, Owned
<1>6. QED
  BY <1>2, <1>3, <1>4, <1>5 DEF IInv

LEMMA NextInv == IInv /\ [Next]_vars => IInv'
<1> SUFFICES ASSUME IInv, [Next]_vars PROVE IInv'
  OBVIOUS
<1>1. ASSUME NEW t \in Tabs, Open(t) PROVE IInv'
  BY <1>1, OpenStep
<1>2. ASSUME NEW t \in Tabs, Logout(t) PROVE IInv'
  BY <1>2, LogoutStep
<1>3. ASSUME NEW t \in Tabs, SubmitCompany(t) PROVE IInv'
  BY <1>3, SubmitCompanyStep
<1>4. ASSUME NEW t \in Tabs, NEW u \in Users, Login(t, u) PROVE IInv'
  BY <1>4, LoginStep
<1>5. ASSUME NEW t \in Tabs, NEW c \in Companies, SelectCompany(t, c) PROVE IInv'
  BY <1>5, SelectCompanyStep
<1>6. ASSUME NEW i \in 1..MaxLoads, Answer(i) PROVE IInv'
  <2>1. i \in DOMAIN loads /\ loads[i] # Over
    BY <1>6 DEF Answer
  <2>2. CASE FailMe(i) \/ FailList(i)
    BY <2>1, <2>2, FailStep
  <2>3. CASE AnswerMe(i)
    BY <2>1, <2>3, AnswerMeStep
  <2>4. CASE ReadList(i)
    BY <2>1, <2>4, ReadListStep
  <2>5. CASE InstallList(i)
    BY <2>1, <2>5, InstallListStep
  <2>6. CASE CreateCompany(i)
    BY <2>1, <2>6, CreateCompanyStep
  <2>7. CASE CompanyCreated(i)
    BY <2>1, <2>7, CompanyCreatedStep
  <2>8. QED
    BY <1>6, <2>2, <2>3, <2>4, <2>5, <2>6, <2>7 DEF Answer
<1>7. CASE UNCHANGED vars
  BY <1>7, StutterInv
<1>8. QED
  BY <1>1, <1>2, <1>3, <1>4, <1>5, <1>6, <1>7 DEF Next

\* The invariant holds in every state of the browser and the server.
THEOREM SessionInvariant == Spec => []IInv
<1>1. QED
  BY InitInv, NextInv, PTL DEF Spec

\* Storage, pages and loads hold values of their kind: no page ever has the user of a login that
\* did not happen or a company that does not exist.
THEOREM FrontendTypeCorrect == Spec => []TypeOK
<1>1. IInv => TypeOK
  BY DEF IInv
<1>2. QED
  BY <1>1, SessionInvariant, PTL

\* The browser never goes back to the tokens of an earlier login, whatever answers arrive late
\* and in whichever tab.
THEOREM LatestLoginIsStored == Spec => []StoredIsLatest
<1>1. IInv => StoredIsLatest
  BY DEF IInv, TokensInv
<1>2. QED
  BY <1>1, SessionInvariant, PTL

\* No answer that is under way when a user logs out signs the tab in again.
THEOREM LogoutIsFinal == Spec => []LogoutSticks
<1>1. IInv => LogoutSticks
  BY DEF IInv, OutInv, LogoutSticks
<1>2. QED
  BY <1>1, SessionInvariant, PTL

\* What a load does to its page when it is over.
LEMMA LoneLoadStep ==
  ASSUME IInv, NEW i \in DOMAIN loads, loads[i] # Over, loads[i].alone, loads'[i] = Over,
         AnswerMe(i) \/ InstallList(i)
  PROVE  /\ page'[loads[i].tab].token = loads[i].token
         /\ loads[i].kind # "refresh" =>
              page'[loads[i].tab].user = accounts[loads[i].token]
         /\ page'[loads[i].tab].companies \subseteq Owned(accounts[loads[i].token])
         /\ page'[loads[i].tab].company \in page'[loads[i].tab].companies \cup {0}
<1> DEFINE l == loads[i]
           p == page[l.tab]
           u == accounts[l.token]
<1>1. /\ l \in Fetch /\ l.tab \in Tabs /\ Sound(i) /\ Alone(i)
      /\ page \in [Tabs -> Page] /\ p \in Page
  BY AnsweredLoad
<1>2. /\ l.kind \in {"bootstrap", "session", "refresh"} /\ l.alone
      /\ l.me # "failed" /\ l.list # "failed"
      /\ l.kind # "bootstrap" => p.token = l.token
      /\ l.list = "ok" => p.companies \subseteq Owned(u) /\ p.company \in p.companies \cup {0}
      /\ l.answer \subseteq Owned(u)
      /\ l.kind = "refresh" => l.me = "ok"
      /\ l.kind = "refresh" /\ l.list = "read" => l.select \in l.answer
  BY <1>1, FetchFields DEF Sound, Alone
<1>3. CASE AnswerMe(i)
  <2> DEFINE e == [l EXCEPT !.me = "ok"]
  <2>1. /\ l.me = "wait" /\ Becomes(i, e)
        /\ page' = IF l.list = "ok" THEN [page EXCEPT ![l.tab] = Resolved(l, @)] ELSE page
    BY <1>3 DEF AnswerMe
  <2>2. e \in Fetch /\ e.list = l.list
    BY <1>1, FetchFields
  <2>3. l.list = "ok"
    <3>1. loads'[i] = IF Settled(e) THEN Over ELSE e
      <4>1. DOMAIN loads = 1..Len(loads) /\ TypeOK
        BY SequenceFacts DEF IInv
      <4> HIDE DEF e
      <4>2. QED
        BY <2>1, <2>2, <4>1, BecomesIs
    <3>2. Settled(e)
      BY <2>2, <3>1 DEF Fetch
    <3>3. l.list \in {"ok", "failed"}
      BY <2>2, <3>2 DEF Settled
    <3>4. QED
      BY <1>2, <3>3
  <2>4. page'[l.tab] = Resolved(l, p)
    BY <1>1, <2>1, <2>3
  <2>5. CASE l.kind = "bootstrap"
    <3>1. page'[l.tab] = [p EXCEPT !.token = l.token, !.user = u, !.booting = FALSE]
      BY <2>4, <2>5 DEF Resolved
    <3>2. QED
      BY <1>1, <1>2, <2>3, <2>5, <3>1 DEF Page
  <2>6. CASE l.kind = "session"
    <3>1. page'[l.tab] = [p EXCEPT !.user = u]
      BY <2>4, <2>6 DEF Resolved
    <3>2. QED
      BY <1>1, <1>2, <2>3, <2>6, <3>1 DEF Page
  <2>7. QED
    BY <1>2, <2>1, <2>5, <2>6
<1>4. CASE InstallList(i)
  <2> DEFINE e == [l EXCEPT !.list = "ok", !.answer = {}]
             r == Listed(l, p)
  <2>1. /\ l.list = "read" /\ Becomes(i, e)
        /\ page' = [page EXCEPT ![l.tab] = IF l.me = "ok" THEN Resolved(l, r) ELSE r]
    BY <1>4 DEF InstallList, Listed
  <2>2. e \in Fetch /\ e.me = l.me
    BY <1>1, FetchFields
  <2>3. l.me = "ok"
    <3>1. loads'[i] = IF Settled(e) THEN Over ELSE e
      <4>1. DOMAIN loads = 1..Len(loads) /\ TypeOK
        BY SequenceFacts DEF IInv
      <4> HIDE DEF e
      <4>2. QED
        BY <2>1, <2>2, <4>1, BecomesIs
    <3>2. Settled(e)
      BY <2>2, <3>1 DEF Fetch
    <3>3. l.me \in {"wait", "ok", "failed"} /\ l.me # "wait"
      BY <1>1, <2>2, <3>2, FetchFields DEF Settled
    <3>4. QED
      BY <1>2, <3>3
  <2>4. page'[l.tab] = Resolved(l, r)
    BY <1>1, <2>1, <2>3
  <2>5. /\ r \in Page /\ r.token = p.token /\ r.companies = l.answer
        /\ r.company \in l.answer \cup {0}
    BY <1>1, ListedIs
  <2> HIDE DEF r
  <2>6. CASE l.kind = "bootstrap"
    <3>1. page'[l.tab] = [r EXCEPT !.token = l.token, !.user = u, !.booting = FALSE]
      BY <2>4, <2>6 DEF Resolved
    <3>2. QED
      BY <1>2, <2>5, <2>6, <3>1 DEF Page
  <2>7. CASE l.kind = "session"
    <3>1. page'[l.tab] = [r EXCEPT !.user = u]
      BY <2>4, <2>7 DEF Resolved
    <3>2. QED
      BY <1>2, <2>5, <2>7, <3>1 DEF Page
  <2>8. CASE l.kind = "refresh"
    <3>1. page'[l.tab] = [r EXCEPT !.company = l.select]
      BY <2>4, <2>8 DEF Resolved
    <3>2. QED
      BY <1>2, <2>1, <2>5, <2>8, <3>1 DEF Page
  <2>9. QED
    BY <1>2, <2>6, <2>7, <2>8
<1>5. QED
  BY <1>3, <1>4

\* A load that nothing disturbs makes the tab agree with its tokens, whatever was there before:
\* their user, some of the companies of that user, and one of these selected or none.
THEOREM LoneLoadsAgree == Spec => LoneLoadAgrees
<1> DEFINE Agrees ==
      \A i \in DOMAIN loads :
        LET l == loads[i]
            p == page'[l.tab]
            u == accounts[l.token]
        IN (l # Over /\ l.alone /\ loads'[i] = Over /\ (AnswerMe(i) \/ InstallList(i))) =>
             /\ p.token = l.token
             /\ l.kind # "refresh" => p.user = u
             /\ p.companies \subseteq Owned(u)
             /\ p.company \in p.companies \cup {0}
<1>1. IInv => Agrees
  BY LoneLoadStep
<1>2. IInv /\ [Next]_vars => [Agrees]_vars
  BY <1>1
<1>3. QED
  BY <1>2, SessionInvariant, PTL DEF Spec, LoneLoadAgrees

=============================================================================
