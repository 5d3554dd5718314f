-------------------------- MODULE ReturnOrdersProofs --------------------------
(***************************************************************************)
(* Proofs about ReturnOrders, for any calls, marketplaces, statuses that   *)
(* are set and number of calls that may overlap.                           *)
(***************************************************************************)
EXTENDS ReturnOrders, FunctionTheorems, FiniteSetTheorems, TLAPS

Syncing == {"find_account", "ensure_integration", "insert_account", "find_order", "insert_order"}

\* The integration is there for call c, and of the marketplace it syncs.
Backed(c, i) ==
  \E r \in integrations \cup new[c].integrations :
    r.id = i /\ r.provider = request[c].marketplace

\* What a sync has inserted, by the place it has reached.
SyncRows(c) ==
  LET m == request[c].marketplace
      rows == new[c]
  IN /\ rows.notes = {}
     /\ pc[c] \in {"find_account", "ensure_integration"} => rows.integrations = {}
     /\ pc[c] \in {"find_account", "ensure_integration", "insert_account"} => rows.accounts = {}
     /\ pc[c] # "commit" => rows.orders = {}
     /\ pc[c] = "commit" => rows.orders # {} \/ Of(orders, m) # {}
     /\ \A i \in rows.integrations : i.id = c /\ i.provider = m /\ i.credentials = {}
     /\ \A i, j \in rows.integrations : i = j
     /\ pc[c] = "insert_account" => \A i \in request[c].integration : Backed(c, i)
     /\ \A a \in rows.accounts : a.marketplace = m /\ Backed(c, a.integration)
     /\ \A a, b \in rows.accounts : a = b
     /\ \A o \in rows.orders : o = [id |-> c, marketplace |-> m, status |-> "OPEN"]

DraftRows(c) ==
  /\ \E o \in orders : o.id = request[c].order
  /\ new[c] = [NoRows EXCEPT !.notes =
                 IF pc[c] = "commit"
                 THEN {[id |-> c, order |-> request[c].order, status |-> "DRAFT"]} ELSE {}]

CreateRows(c) ==
  \E i \in Integration :
    i.id = c /\ i.credentials \subseteq {c} /\ new[c] = [NoRows EXCEPT !.integrations = {i}]

\* A change wants the columns it has read, but for those it is about.
Wanted(c) ==
  LET read == request[c].read
      row == request[c].row
  IN /\ request[c].kind = "update" => row.credentials = read.credentials
     /\ request[c].kind = "replace" =>
          row.credentials = {c} /\ row.status = "ACTIVE" /\ row.mock = read.mock

\* The place a call has reached tells what it is asked for and what it has inserted.
Session(c) ==
  /\ pc[c] \in {"idle", "done"} => request[c] = NoRequest
  /\ pc[c] \in Syncing => request[c].kind = "sync"
  /\ pc[c] \in {"find_note", "link"} => request[c].kind = "draft"
  /\ pc[c] = "write" => request[c].kind \in {"update", "replace"}
  /\ pc[c] = "commit" => request[c].kind \in {"sync", "draft", "create"}
  /\ request[c].kind \in {"none", "update", "replace"} => new[c] = NoRows
  /\ request[c].kind = "sync" => SyncRows(c)
  /\ request[c].kind = "draft" => DraftRows(c)
  /\ request[c].kind = "create" => pc[c] = "commit" /\ CreateRows(c)
  /\ request[c].kind \in {"update", "replace"} => Wanted(c)
SessionInv == \A c \in Calls : Session(c)

\* Committed rows, and the credentials they hold, bear the names of calls that have ended,
\* integrations one each; a note is of a committed order.
NamesInv ==
  /\ \A i \in integrations : pc[i.id] = "done"
  /\ \A i \in integrations : \A k \in i.credentials : pc[k] = "done"
  /\ \A i, j \in integrations : i.id = j.id => i = j
  /\ \A o \in orders : pc[o.id] = "done"
  /\ \A n \in notes : \E o \in orders : o.id = n.order

\* The key of a row that is inserted and not committed is in no committed row and in no other
\* open call's.
Fresh(c, rows) ==
  /\ \A a \in rows.accounts :
       /\ \A b \in accounts : b.marketplace # a.marketplace
       /\ \A k \in Calls \ {c} : \A b \in new[k].accounts : b.marketplace # a.marketplace
  /\ \A o \in rows.orders :
       /\ \A p \in orders : p.marketplace # o.marketplace
       /\ \A k \in Calls \ {c} : \A p \in new[k].orders : p.marketplace # o.marketplace
FreshInv == \A c \in Calls : Fresh(c, new[c])

\* The unique constraints of the tables.
KeysInv ==
  /\ \A a, b \in accounts : a.marketplace = b.marketplace => a = b
  /\ \A o, p \in orders : o.marketplace = p.marketplace => o = p

\* Drafts of an order that have seen no note, and the notes it has.
Drafting(o) ==
  {c \in Calls : request[c].kind = "draft" /\ request[c].order = o /\ pc[c] \in {"link", "commit"}}
NotesOf(o) == {n \in notes : n.order = o}

\* Every note was drafted by a call that was open together with all the other drafts.
CountInv ==
  /\ IsFiniteSet(notes)
  /\ Cardinality(Open) <= MaxOpen
  /\ \A o \in Calls : Cardinality(NotesOf(o)) + Cardinality(Drafting(o)) <= MaxOpen

IInv ==
  /\ TypeOK
  /\ SessionInv
  /\ NamesInv
  /\ FreshInv
  /\ KeysInv
  /\ SyncIsAtomic
  /\ LinkedHasNote
  /\ CountInv

-----------------------------------------------------------------------------
(* Steps of one call that nobody else sees *)

Places == Syncing \cup {"idle", "find_note", "link", "write", "commit", "done"}
Rows ==
  [integrations : SUBSET Integration, accounts : SUBSET Account,
   orders : SUBSET ReturnOrder, notes : SUBSET ReturnNote]

LEMMA StateTypes ==
  ASSUME TypeOK
  PROVE  /\ pc \in [Calls -> Places] /\ request \in [Calls -> Request] /\ new \in [Calls -> Rows]
         /\ integrations \subseteq Integration /\ accounts \subseteq Account
         /\ orders \subseteq ReturnOrder /\ notes \subseteq ReturnNote
BY DEF TypeOK, Places, Syncing, Rows

\* What the session of a call is about stays there, whatever others commit.
LEMMA SessionKept ==
  ASSUME NEW k \in Calls, Session(k),
         pc'[k] = pc[k], request'[k] = request[k], new'[k] = new[k],
         \A i \in integrations : \E j \in integrations' : j.id = i.id /\ j.provider = i.provider,
         \A o \in orders : \E p \in orders' : p.id = o.id /\ p.marketplace = o.marketplace
  PROVE  Session(k)'
<1>1. ASSUME NEW i, Backed(k, i) PROVE Backed(k, i)'
  BY <1>1 DEF Backed
<1>2. ASSUME NEW m, Of(orders, m) # {} PROVE Of(orders', m) # {}
  BY <1>2 DEF Of
<1>3. ASSUME request[k].kind = "sync" PROVE SyncRows(k)'
  <2>1. SyncRows(k)
    BY <1>3 DEF Session
  <2>2. pc[k] = "insert_account" => \A i \in request[k].integration : Backed(k, i)'
    BY <1>1, <2>1 DEF SyncRows
  <2>3. \A a \in new[k].accounts : Backed(k, a.integration)'
    BY <1>1, <2>1 DEF SyncRows
  <2>4. pc[k] = "commit" => new[k].orders # {} \/ Of(orders', request[k].marketplace) # {}
    BY <1>2, <2>1 DEF SyncRows
  <2>5. QED
    BY <2>1, <2>2, <2>3, <2>4 DEF SyncRows
<1>4. ASSUME request[k].kind = "draft" PROVE DraftRows(k)'
  BY <1>4 DEF Session, Wanted, DraftRows
<1>5. ASSUME request[k].kind = "create" PROVE CreateRows(k)'
  BY <1>5 DEF Session, Wanted, CreateRows
<1>6. QED
  BY <1>3, <1>4, <1>5 DEF Session, Wanted

\* Call c goes on, or begins, or ends, and no row is committed.
LEMMA PrivateStep ==
  ASSUME IInv, NEW c \in Calls, NEW s \in Places, NEW r \in Request, NEW rows \in Rows,
         pc' = [pc EXCEPT ![c] = s], request' = [request EXCEPT ![c] = r],
         new' = [new EXCEPT ![c] = rows], UNCHANGED tables,
         pc[c] # "done" \/ s = "done",
         Session(c)', Fresh(c, rows), CountInv'
  PROVE  IInv'
<1> USE DEF IInv
<1>1. /\ pc \in [Calls -> Places] /\ request \in [Calls -> Request] /\ new \in [Calls -> Rows]
      /\ integrations \subseteq Integration /\ accounts \subseteq Account
      /\ orders \subseteq ReturnOrder /\ notes \subseteq ReturnNote
  BY StateTypes
<1>2. UNCHANGED <<integrations, accounts, orders, notes>>
  BY DEF tables
<1>3. /\ pc'[c] = s /\ request'[c] = r /\ new'[c] = rows
      /\ \A k \in Calls \ {c} :
           pc'[k] = pc[k] /\ request'[k] = request[k] /\ new'[k] = new[k]
  BY <1>1
<1>4. TypeOK'
  <2>1. pc' \in [Calls -> Places] /\ request' \in [Calls -> Request] /\ new' \in [Calls -> Rows]
    BY <1>1
  <2>2. QED
    BY <1>1, <1>2, <2>1 DEF TypeOK, Places, Syncing, Rows
<1>5. SessionInv'
  <2>1. ASSUME NEW k \in Calls \ {c} PROVE Session(k)'
    BY <1>2, <1>3, SessionKept DEF SessionInv
  <2>2. QED
    BY <2>1 DEF SessionInv
<1>6. NamesInv'
  <2>1. \A k \in Calls : pc[k] = "done" => pc'[k] = "done"
    BY <1>3
  <2>2. QED
    BY <1>1, <1>2, <2>1 DEF NamesInv, Integration, ReturnOrder
<1>7. FreshInv'
  <2>1. SUFFICES ASSUME NEW k \in Calls PROVE Fresh(k, new[k])'
    BY DEF FreshInv
  <2>2. Fresh(k, new[k])
    BY DEF FreshInv
  <2>3. QED
    BY <1>2, <1>3, <2>2 DEF Fresh
<1>8. KeysInv' /\ SyncIsAtomic' /\ LinkedHasNote'
  BY <1>2 DEF KeysInv, SyncIsAtomic, LinkedHasNote, Of
<1>9. QED
  BY <1>4, <1>5, <1>6, <1>7, <1>8

\* The calls that are counted are finitely many.
LEMMA CountedAreFinite ==
  ASSUME CountInv
  PROVE  /\ IsFiniteSet(Open) /\ Cardinality(Open) \in Nat
         /\ \A o \in Calls :
              /\ IsFiniteSet(Drafting(o)) /\ Cardinality(Drafting(o)) \in Nat
              /\ IsFiniteSet(NotesOf(o)) /\ Cardinality(NotesOf(o)) \in Nat
<1>1. Open \subseteq Calls /\ IsFiniteSet(Calls) /\ IsFiniteSet(notes)
  BY ReturnOrdersAssumption DEF Open, CountInv
<1>2. IsFiniteSet(Open) /\ Cardinality(Open) \in Nat
  BY <1>1, FS_Subset, FS_CardinalityType
<1>3. ASSUME NEW o \in Calls
      PROVE  /\ IsFiniteSet(Drafting(o)) /\ Cardinality(Drafting(o)) \in Nat
             /\ IsFiniteSet(NotesOf(o)) /\ Cardinality(NotesOf(o)) \in Nat
  <2>1. Drafting(o) \subseteq Calls /\ NotesOf(o) \subseteq notes
    BY DEF Drafting, NotesOf
  <2>2. QED
    BY <1>1, <2>1, FS_Subset, FS_CardinalityType
<1>4. QED
  BY <1>2, <1>3

\* A call that is open, or ends, and does not come to draft a note.
LEMMA QuietCount ==
  ASSUME CountInv, NEW c \in Calls, NEW s, NEW r, pc \in [Calls -> Places],
         request \in [Calls -> Request],
         pc' = [pc EXCEPT ![c] = s], request' = [request EXCEPT ![c] = r], notes' = notes,
         c \in Open \/ s = "done",
         r.kind = "draft" /\ s \in {"link", "commit"} =>
           r = request[c] /\ pc[c] \in {"link", "commit"}
  PROVE  CountInv'
<1>1. Open' \in SUBSET Open
  BY DEF Open
<1>2. ASSUME NEW o \in Calls PROVE Drafting(o)' \in SUBSET Drafting(o)
  BY DEF Drafting
<1>3. Cardinality(Open') <= Cardinality(Open) /\ Cardinality(Open') \in Nat
  BY <1>1, CountedAreFinite, FS_Subset, FS_CardinalityType
<1>4. ASSUME NEW o \in Calls
      PROVE  Cardinality(NotesOf(o)') + Cardinality(Drafting(o)') <= MaxOpen
  <2>1. Cardinality(Drafting(o)') <= Cardinality(Drafting(o)) /\ Cardinality(Drafting(o)') \in Nat
    BY <1>2, CountedAreFinite, FS_Subset, FS_CardinalityType
  <2>2. NotesOf(o)' = NotesOf(o)
    BY DEF NotesOf
  <2>3. Cardinality(NotesOf(o)) + Cardinality(Drafting(o)) <= MaxOpen
    BY DEF CountInv
  <2>4. QED
    BY <2>1, <2>2, <2>3, CountedAreFinite, ReturnOrdersAssumption
<1>5. QED
  BY <1>3, <1>4, CountedAreFinite, ReturnOrdersAssumption DEF CountInv

\* A call that begins is one open call more.
LEMMA BegunCount ==
  ASSUME CountInv, NEW c \in Calls, NEW s, NEW r, pc \in [Calls -> Places],
         request \in [Calls -> Request],
         pc' = [pc EXCEPT ![c] = s], request' = [request EXCEPT ![c] = r], notes' = notes,
         MayOpen(c), ~(r.kind = "draft" /\ s \in {"link", "commit"})
  PROVE  CountInv'
<1>1. Open' \in SUBSET (Open \cup {c})
  BY DEF Open
<1>2. /\ Cardinality(Open \cup {c}) <= MaxOpen /\ Cardinality(Open \cup {c}) \in Nat
      /\ IsFiniteSet(Open \cup {c})
  <2>1. Cardinality(Open) < MaxOpen /\ Cardinality(Open) \in Nat /\ IsFiniteSet(Open)
    BY CountedAreFinite DEF MayOpen
  <2>2. /\ IsFiniteSet(Open \cup {c})
        /\ Cardinality(Open \cup {c}) \in {Cardinality(Open), Cardinality(Open) + 1}
    BY <2>1, FS_AddElement
  <2>3. QED
    BY <2>1, <2>2, ReturnOrdersAssumption
<1>3. Cardinality(Open') <= MaxOpen
  <2>1. Cardinality(Open') <= Cardinality(Open \cup {c}) /\ IsFiniteSet(Open')
    BY <1>1, <1>2, FS_Subset
  <2>2. Cardinality(Open') \in Nat
    BY <2>1, FS_CardinalityType
  <2>3. QED
    BY <1>2, <2>1, <2>2, ReturnOrdersAssumption
<1>4. ASSUME NEW o \in Calls
      PROVE  Cardinality(NotesOf(o)') + Cardinality(Drafting(o)') <= MaxOpen
  <2>1. Drafting(o)' \in SUBSET Drafting(o)
    BY DEF Drafting
  <2>2. Cardinality(Drafting(o)') <= Cardinality(Drafting(o)) /\ Cardinality(Drafting(o)') \in Nat
    BY <2>1, CountedAreFinite, FS_Subset, FS_CardinalityType
  <2>3. NotesOf(o)' = NotesOf(o)
    BY DEF NotesOf
  <2>4. Cardinality(NotesOf(o)) + Cardinality(Drafting(o)) <= MaxOpen
    BY DEF CountInv
  <2>5. QED
    BY <2>2, <2>3, <2>4, CountedAreFinite, ReturnOrdersAssumption
<1>5. QED
  BY <1>3, <1>4 DEF CountInv

\* What is known of a call before it takes a step.
LEMMA CallFacts ==
  ASSUME IInv, NEW c \in Calls
  PROVE  /\ pc[c] \in Places /\ request[c] \in Request /\ new[c] \in Rows
         /\ Session(c) /\ Fresh(c, new[c]) /\ CountInv
         /\ pc \in [Calls -> Places] /\ request \in [Calls -> Request] /\ new \in [Calls -> Rows]
         /\ pc[c] \in {"idle", "done"} => request[c] = NoRequest /\ new[c] = NoRows
         /\ NoRows \in Rows /\ NoRequest \in Request
<1>1. /\ pc[c] \in Places /\ request[c] \in Request /\ new[c] \in Rows
      /\ pc \in [Calls -> Places] /\ request \in [Calls -> Request] /\ new \in [Calls -> Rows]
  BY StateTypes DEF IInv
<1>2. Session(c) /\ Fresh(c, new[c]) /\ CountInv
  BY DEF IInv, SessionInv, FreshInv
<1>3. NoRequest.kind = "none"
  BY DEF NoRequest
<1>4. pc[c] \in {"idle", "done"} => request[c] = NoRequest /\ new[c] = NoRows
  BY <1>2, <1>3 DEF Session
<1>5. NoRows \in Rows /\ NoRequest \in Request
  BY DEF NoRows, Rows, NoRequest, Request
<1>6. QED
  BY <1>1, <1>2, <1>4, <1>5

\* Refuse, Fail, FailSync, RefuseDraft.
LEMMA EndStep ==
  ASSUME IInv, NEW c \in Calls, Close(c), UNCHANGED tables
  PROVE  IInv'
<1>1. /\ pc' = [pc EXCEPT ![c] = "done"] /\ request' = [request EXCEPT ![c] = NoRequest]
      /\ new' = [new EXCEPT ![c] = NoRows]
  BY DEF Close
<1>2. /\ pc \in [Calls -> Places] /\ request \in [Calls -> Request] /\ new \in [Calls -> Rows]
      /\ NoRows \in Rows /\ NoRequest \in Request /\ CountInv /\ "done" \in Places
  BY CallFacts DEF Places
<1>3. Session(c)'
  BY <1>1, <1>2 DEF Session, Wanted, NoRequest, Syncing
<1>4. Fresh(c, NoRows)
  BY DEF Fresh, NoRows
<1>5. CountInv'
  <2>1. NoRequest.kind # "draft" /\ notes' = notes
    BY DEF NoRequest, tables
  <2>2. QED
    BY <1>1, <1>2, <2>1, QuietCount
<1>6. QED
  BY <1>1, <1>2, <1>3, <1>4, <1>5, PrivateStep

\* A call begins and has inserted nothing.
LEMMA EmptyBeginStep ==
  ASSUME IInv, NEW c \in Calls, NEW r \in Request, NEW s \in Places, Begin(c, r, s),
         UNCHANGED new, ~(r.kind = "draft" /\ s \in {"link", "commit"}),
         Session(c)'
  PROVE  IInv'
<1>1. /\ pc' = [pc EXCEPT ![c] = s] /\ request' = [request EXCEPT ![c] = r]
      /\ UNCHANGED tables /\ MayOpen(c) /\ pc[c] = "idle"
  BY DEF Begin, MayOpen
<1>2. /\ pc \in [Calls -> Places] /\ request \in [Calls -> Request] /\ new \in [Calls -> Rows]
      /\ new[c] \in Rows /\ CountInv /\ Fresh(c, new[c])
  BY CallFacts
<1>3. new' = [new EXCEPT ![c] = new[c]]
  BY <1>2
<1>4. CountInv'
  <2>1. notes' = notes
    BY <1>1 DEF tables
  <2>2. QED
    BY <1>1, <1>2, <2>1, BegunCount
<1>5. QED
  BY <1>1, <1>2, <1>3, <1>4, PrivateStep

LEMMA StartStep ==
  ASSUME IInv, NEW c \in Calls, Start(c)
  PROVE  IInv'
<1>1. /\ pc[c] \in {"idle", "done"} => new[c] = NoRows
      /\ pc \in [Calls -> Places] /\ request \in [Calls -> Request] /\ new \in [Calls -> Rows]
      /\ integrations \subseteq Integration /\ orders \subseteq ReturnOrder
      /\ NoRows \in Rows /\ CountInv
  BY CallFacts, StateTypes DEF IInv
<1>2. CASE StartSync(c)
  <2>1. PICK m \in Marketplaces :
          /\ Begin(c, [kind |-> "sync", marketplace |-> m, integration |-> {}], "find_account")
          /\ UNCHANGED new
    BY <1>2 DEF StartSync
  <2> DEFINE r == [kind |-> "sync", marketplace |-> m, integration |-> {}]
  <2>2. r \in Request /\ r.kind = "sync"
    BY DEF Request
  <2>3. pc'[c] = "find_account" /\ request'[c] = r /\ new'[c] = NoRows
    BY <1>1, <2>1 DEF Begin, MayOpen
  <2> HIDE DEF r
  <2>4. Session(c)'
    BY <2>2, <2>3 DEF Session, Wanted, SyncRows, Syncing, NoRows
  <2>5. QED
    BY <2>1, <2>2, <2>4, EmptyBeginStep DEF Places, Syncing, r
<1>3. CASE StartDraft(c)
  <2>1. PICK o \in orders :
          Begin(c, [kind |-> "draft", order |-> o.id], "find_note") /\ UNCHANGED new
    BY <1>3 DEF StartDraft
  <2> DEFINE r == [kind |-> "draft", order |-> o.id]
  <2>2. r \in Request /\ r.kind = "draft" /\ r.order = o.id
    BY <1>1 DEF Request, ReturnOrder
  <2>3. /\ pc'[c] = "find_note" /\ request'[c] = r /\ new'[c] = NoRows
        /\ orders' = orders
    BY <1>1, <2>1 DEF Begin, MayOpen, tables
  <2> HIDE DEF r
  <2>4. Session(c)'
    BY <2>2, <2>3 DEF Session, Wanted, DraftRows, Syncing, NoRows
  <2>5. QED
    BY <2>1, <2>2, <2>4, EmptyBeginStep DEF Places, r
<1>4. CASE StartUpdate(c) \/ StartReplace(c)
  <2>1. PICK r : /\ r \in [kind : {"update", "replace"}, read : Integration, row : Integration]
                 /\ r.kind = "update" => r.row.credentials = r.read.credentials
                 /\ r.kind = "replace" => /\ r.row.credentials = {c} /\ r.row.status = "ACTIVE"
                                          /\ r.row.mock = r.read.mock
                 /\ Begin(c, r, "write") /\ UNCHANGED new
    <3>1. CASE StartUpdate(c)
      <4>1. PICK i \in integrations : \E status \in Settable \cup {i.status}, mock \in BOOLEAN :
              /\ Begin(c, [kind |-> "update", read |-> i,
                           row |-> [i EXCEPT !.status = status, !.mock = mock]], "write")
              /\ UNCHANGED new
        BY <3>1 DEF StartUpdate
      <4>2. PICK status \in Settable \cup {i.status}, mock \in BOOLEAN :
              /\ Begin(c, [kind |-> "update", read |-> i,
                           row |-> [i EXCEPT !.status = status, !.mock = mock]], "write")
              /\ UNCHANGED new
        BY <4>1
      <4>3. i \in Integration /\ status \in IntegrationStatuses
        BY <1>1, ReturnOrdersAssumption DEF Integration
      <4>4. /\ [i EXCEPT !.status = status, !.mock = mock] \in Integration
            /\ [i EXCEPT !.status = status, !.mock = mock].credentials = i.credentials
        BY <4>3 DEF Integration
      <4>5. QED
        BY <4>2, <4>3, <4>4
    <3>2. CASE StartReplace(c)
      <4>1. PICK i \in integrations :
              /\ Begin(c, [kind |-> "replace", read |-> i,
                           row |-> [i EXCEPT !.credentials = {c}, !.status = "ACTIVE"]], "write")
              /\ UNCHANGED new
        BY <3>2 DEF StartReplace
      <4>2. i \in Integration
        BY <1>1
      <4> DEFINE row == [i EXCEPT !.credentials = {c}, !.status = "ACTIVE"]
      <4>3. /\ row \in Integration /\ row.credentials = {c} /\ row.status = "ACTIVE"
            /\ row.mock = i.mock
        BY <4>2 DEF Integration, IntegrationStatuses
      <4>4. QED
        BY <4>1, <4>2, <4>3
    <3>3. QED
      BY <1>4, <3>1, <3>2
  <2>2. r \in Request /\ r.kind \in {"update", "replace"}
    BY <2>1 DEF Request
  <2>3. pc'[c] = "write" /\ request'[c] = r /\ new'[c] = NoRows
    BY <1>1, <2>1 DEF Begin, MayOpen
  <2>4. Session(c)'
    BY <2>1, <2>2, <2>3 DEF Session, Wanted, Syncing
  <2>5. QED
    BY <2>1, <2>2, <2>4, EmptyBeginStep DEF Places
<1>5. CASE StartCreate(c)
  <2>1. PICK p \in Providers, mock \in BOOLEAN, credentials \in {{}, {c}} :
          /\ Begin(c, [kind |-> "create"], "commit")
          /\ new' = [new EXCEPT ![c].integrations =
               {[id |-> c, provider |-> p, mock |-> mock, credentials |-> credentials,
                 status |-> IF credentials = {} THEN "DISCONNECTED" ELSE "ACTIVE"]}]
    BY <1>5 DEF StartCreate
  <2> DEFINE row == [id |-> c, provider |-> p, mock |-> mock, credentials |-> credentials,
                     status |-> IF credentials = {} THEN "DISCONNECTED" ELSE "ACTIVE"]
             r == [kind |-> "create"]
             rows == [NoRows EXCEPT !.integrations = {row}]
  <2>2. row \in Integration /\ row.id = c /\ row.credentials \subseteq {c}
    BY DEF Integration, IntegrationStatuses
  <2>3. r \in Request /\ r.kind = "create"
    BY DEF Request
  <2> HIDE DEF row, r
  <2>4. rows \in Rows /\ rows.accounts = {} /\ rows.orders = {}
    BY <2>2 DEF NoRows, Rows
  <2>5. /\ pc' = [pc EXCEPT ![c] = "commit"] /\ request' = [request EXCEPT ![c] = r]
        /\ UNCHANGED tables /\ MayOpen(c) /\ pc[c] = "idle"
    BY <2>1 DEF Begin, MayOpen, r
  <2>6. new' = [new EXCEPT ![c] = rows]
    BY <1>1, <2>1, <2>5 DEF row
  <2>7. Session(c)'
    <3>1. pc'[c] = "commit" /\ request'[c] = r /\ new'[c] = rows
      BY <1>1, <2>5, <2>6
    <3>2. QED
      BY <2>2, <2>3, <3>1 DEF Session, Wanted, CreateRows, Syncing
  <2> HIDE DEF rows
  <2>8. Fresh(c, rows)
    BY <2>4 DEF Fresh
  <2>9. CountInv'
    <3>1. notes' = notes
      BY <2>5 DEF tables
    <3>2. QED
      BY <1>1, <2>3, <2>5, <3>1, BegunCount
  <2>10. QED
    BY <1>1, <2>3, <2>4, <2>5, <2>6, <2>7, <2>8, <2>9, PrivateStep DEF Places
<1>6. QED
  BY <1>2, <1>3, <1>4, <1>5 DEF Start

-----------------------------------------------------------------------------
(* The statements of a sync *)

LEMMA SyncGoesOn ==
  ASSUME IInv, NEW c \in Calls, pc[c] \in Syncing,
         NEW s \in Syncing \cup {"commit"}, NEW r \in Request, r.kind = "sync", NEW rows \in Rows,
         pc' = [pc EXCEPT ![c] = s], request' = [request EXCEPT ![c] = r],
         new' = [new EXCEPT ![c] = rows], UNCHANGED tables,
         SyncRows(c)', Fresh(c, rows)
  PROVE  IInv'
<1>1. /\ pc \in [Calls -> Places] /\ request \in [Calls -> Request] /\ new \in [Calls -> Rows]
      /\ CountInv
  BY CallFacts
<1>2. pc'[c] = s /\ request'[c] = r
  BY <1>1
<1>3. Session(c)'
  BY <1>2 DEF Session, Wanted, Syncing
<1>4. CountInv'
  <2>1. notes' = notes /\ c \in Open
    BY DEF tables, Open, Syncing
  <2>2. QED
    BY <1>1, <2>1, QuietCount
<1>5. QED
  BY <1>3, <1>4, PrivateStep DEF Places, Syncing

\* What is known of a sync before one of its statements.
LEMMA SyncFacts ==
  ASSUME IInv, NEW c \in Calls, pc[c] \in Syncing
  PROVE  /\ request[c].kind = "sync" /\ SyncRows(c) /\ Fresh(c, new[c])
         /\ request[c].marketplace \in Marketplaces
         /\ request[c].integration \in {{}} \cup {{k} : k \in Calls}
         /\ request[c] \in Request /\ new[c] \in Rows
         /\ pc \in [Calls -> Places] /\ request \in [Calls -> Request] /\ new \in [Calls -> Rows]
         /\ \A k \in Calls \ Open : new[k] = NoRows
<1>1. /\ request[c] \in Request /\ new[c] \in Rows /\ Session(c) /\ Fresh(c, new[c])
      /\ pc \in [Calls -> Places] /\ request \in [Calls -> Request] /\ new \in [Calls -> Rows]
  BY CallFacts
<1>2. request[c].kind = "sync" /\ SyncRows(c)
  BY <1>1 DEF Session
<1>3. \A k \in Calls \ Open : new[k] = NoRows
  BY CallFacts DEF Open
<1>4. request[c].marketplace \in Marketplaces /\ request[c].integration \in {{}} \cup {{k} : k \in Calls}
  BY <1>1, <1>2 DEF Request
<1>5. QED
  BY <1>1, <1>2, <1>3, <1>4

\* A statement that inserts nothing.
LEMMA LookStep ==
  ASSUME IInv, NEW c \in Calls, FindAccount(c) \/ FindOrder(c)
  PROVE  IInv'
<1> DEFINE m == request[c].marketplace
<1>1. PICK s \in {"find_order", "ensure_integration", "commit", "insert_order"} :
        /\ pc' = [pc EXCEPT ![c] = s] /\ UNCHANGED tables /\ UNCHANGED <<request, new>>
        /\ \/ pc[c] = "find_account" /\ s \in {"find_order", "ensure_integration"}
           \/ pc[c] = "find_order" /\ s = "insert_order"
           \/ pc[c] = "find_order" /\ s = "commit" /\ Of(orders, m) # {}
  <2>1. CASE FindAccount(c)
    BY <2>1 DEF FindAccount, Goto
  <2>2. CASE FindOrder(c)
    BY <2>2 DEF FindOrder, Goto
  <2>3. QED
    BY <2>1, <2>2
<1>2. pc[c] \in Syncing
  BY <1>1 DEF Syncing
<1>3. /\ request[c].kind = "sync" /\ SyncRows(c) /\ Fresh(c, new[c])
      /\ request[c] \in Request /\ new[c] \in Rows
      /\ pc \in [Calls -> Places] /\ request \in [Calls -> Request] /\ new \in [Calls -> Rows]
  BY <1>2, SyncFacts
<1>4. request' = [request EXCEPT ![c] = request[c]] /\ new' = [new EXCEPT ![c] = new[c]]
  BY <1>1, <1>3
<1>5. SyncRows(c)'
  <2>1. /\ pc'[c] = s /\ request'[c] = request[c] /\ new'[c] = new[c]
        /\ orders' = orders /\ integrations' = integrations
    BY <1>1, <1>3 DEF tables
  <2>2. \A i : Backed(c, i)' <=> Backed(c, i)
    BY <2>1 DEF Backed
  <2>3. QED
    BY <1>1, <1>3, <2>1, <2>2 DEF SyncRows, Of
<1>6. QED
  BY <1>1, <1>2, <1>3, <1>4, <1>5, SyncGoesOn DEF Syncing

\* Integrations have names of their own, and there are finitely many names.
LEMMA FewIntegrations ==
  ASSUME IInv
  PROVE  IsFiniteSet(integrations)
<1> DEFINE f == [i \in integrations |-> i.id]
<1>1. integrations \subseteq Integration
  BY StateTypes DEF IInv
<1>2. f \in [integrations -> Calls]
  BY <1>1 DEF Integration
<1>3. \A i, j \in integrations : f[i] = f[j] => i = j
  BY DEF IInv, NamesInv
<1>4. f \in Injection(integrations, Calls)
  BY <1>2, <1>3 DEF Injection, IsInjective
<1>5. QED
  BY <1>4, FS_Injection, ReturnOrdersAssumption

LEMMA EnsureIntegrationStep ==
  ASSUME IInv, NEW c \in Calls, EnsureIntegration(c)
  PROVE  IInv'
<1> DEFINE m == request[c].marketplace
           fresh == [id |-> c, provider |-> m, mock |-> TRUE, status |-> "ACTIVE",
                     credentials |-> {}]
           found == MockIntegrations(m)
           rows == IF found = {} THEN [new[c] EXCEPT !.integrations = {fresh}] ELSE new[c]
           r == [request[c] EXCEPT !.integration =
                   {i.id : i \in IF found = {} THEN {fresh} ELSE found}]
<1>1. pc[c] = "ensure_integration" /\ pc[c] \in Syncing
  BY DEF EnsureIntegration, Syncing
<1>2. /\ request[c].kind = "sync" /\ SyncRows(c) /\ Fresh(c, new[c])
      /\ request[c] \in Request /\ new[c] \in Rows /\ m \in Marketplaces
      /\ pc \in [Calls -> Places] /\ request \in [Calls -> Request] /\ new \in [Calls -> Rows]
  BY <1>1, SyncFacts
<1>3. /\ pc' = [pc EXCEPT ![c] = "insert_account"] /\ UNCHANGED tables
      /\ request' = [request EXCEPT ![c] = r] /\ new' = [new EXCEPT ![c] = rows]
      /\ found # {} => Cardinality(found) = 1
  <2>1. /\ pc' = [pc EXCEPT ![c] = "insert_account"] /\ UNCHANGED tables
        /\ request' = [request EXCEPT ![c] = r]
    BY <1>2 DEF EnsureIntegration, Goto
  <2>2. CASE found = {}
    <3>1. new' = [new EXCEPT ![c].integrations = {fresh}]
      BY <2>2 DEF EnsureIntegration
    <3>2. QED
      BY <1>2, <2>1, <2>2, <3>1
  <2>3. CASE found # {}
    <3>1. new' = new /\ Cardinality(found) = 1
      BY <2>3 DEF EnsureIntegration
    <3>2. QED
      BY <1>2, <2>1, <2>3, <3>1
  <2>4. QED
    BY <2>2, <2>3
<1>4. fresh \in Integration /\ fresh.id = c /\ fresh.provider = m /\ fresh.credentials = {}
  BY <1>2 DEF Integration, IntegrationStatuses, Providers
<1>5. PICK x : /\ x \in Integration /\ x.provider = m
               /\ r = [request[c] EXCEPT !.integration = {x.id}]
               /\ \/ found = {} /\ x = fresh
                  \/ found # {} /\ x \in integrations
  <2>1. CASE found = {}
    <3>1. {i.id : i \in {fresh}} = {fresh.id}
      OBVIOUS
    <3>2. QED
      BY <1>4, <2>1, <3>1
  <2>2. CASE found # {}
    <3>1. IsFiniteSet(found)
      BY FewIntegrations, FS_Subset DEF MockIntegrations
    <3>2. PICK x : found = {x}
      BY <1>3, <2>2, <3>1, FS_Singleton
    <3>3. x \in integrations /\ x.provider = m /\ x \in Integration
      BY <3>2, StateTypes DEF MockIntegrations, IInv
    <3>4. {i.id : i \in found} = {x.id}
      BY <3>2
    <3>5. QED
      BY <2>2, <3>3, <3>4
  <2>3. QED
    BY <2>1, <2>2
<1>6. r \in Request /\ r.kind = "sync" /\ r.marketplace = m /\ r.integration = {x.id}
  <2>1. request[c] \in [kind : {"sync"}, marketplace : Marketplaces,
                        integration : {{}} \cup {{k} : k \in Calls}]
    BY <1>2 DEF Request
  <2>2. x.id \in Calls
    BY <1>5 DEF Integration
  <2>3. QED
    BY <1>5, <2>1, <2>2 DEF Request
<1>7. /\ rows \in Rows /\ rows.accounts = new[c].accounts /\ rows.orders = new[c].orders
      /\ rows.notes = new[c].notes
      /\ rows.integrations = IF found = {} THEN {x} ELSE new[c].integrations
  BY <1>2, <1>4, <1>5 DEF Rows
<1> HIDE DEF r, rows, fresh
<1>8. SyncRows(c)'
  <2>1. /\ pc'[c] = "insert_account" /\ request'[c] = r /\ new'[c] = rows
        /\ orders' = orders /\ integrations' = integrations
    BY <1>2, <1>3 DEF tables
  <2>2. /\ rows.notes = {} /\ rows.accounts = {} /\ rows.orders = {} /\ new[c].integrations = {}
    BY <1>1, <1>2, <1>7 DEF SyncRows
  <2>3. Backed(c, x.id)'
    <3>1. x \in integrations' \cup new'[c].integrations
      BY <1>5, <1>7, <2>1
    <3>2. QED
      BY <1>5, <1>6, <2>1, <3>1 DEF Backed
  <2>4. \A i \in rows.integrations :
          i.id = c /\ i.provider = m /\ i.credentials = {} /\ i = x
    BY <1>4, <1>5, <1>7, <2>2
  <2>5. QED
    BY <1>6, <2>1, <2>2, <2>3, <2>4 DEF SyncRows
<1>9. Fresh(c, rows)
  BY <1>2, <1>7 DEF Fresh
<1>10. QED
  BY <1>1, <1>3, <1>6, <1>7, <1>8, <1>9, SyncGoesOn DEF Syncing

LEMMA InsertAccountStep ==
  ASSUME IInv, NEW c \in Calls, InsertAccount(c)
  PROVE  IInv'
<1> DEFINE m == request[c].marketplace
<1>1. pc[c] = "insert_account" /\ pc[c] \in Syncing
  BY DEF InsertAccount, Syncing
<1>2. /\ request[c].kind = "sync" /\ SyncRows(c) /\ Fresh(c, new[c])
      /\ request[c] \in Request /\ new[c] \in Rows /\ m \in Marketplaces
      /\ request[c].integration \in {{}} \cup {{k} : k \in Calls}
      /\ pc \in [Calls -> Places] /\ request \in [Calls -> Request] /\ new \in [Calls -> Rows]
      /\ \A k \in Calls \ Open : new[k] = NoRows
  BY <1>1, SyncFacts
<1>3. PICK i \in request[c].integration :
        new' = [new EXCEPT ![c].accounts = {[id |-> c, marketplace |-> m, integration |-> i]}]
  BY DEF InsertAccount
<1> DEFINE a == [id |-> c, marketplace |-> m, integration |-> i]
           rows == [new[c] EXCEPT !.accounts = {a}]
<1>4. /\ pc' = [pc EXCEPT ![c] = "find_order"] /\ UNCHANGED tables
      /\ request' = [request EXCEPT ![c] = request[c]] /\ new' = [new EXCEPT ![c] = rows]
  BY <1>2, <1>3 DEF InsertAccount, Goto
<1>5. a \in Account /\ a.marketplace = m /\ a.integration = i /\ i \in Calls
  BY <1>2 DEF Account
<1> HIDE DEF a
<1>6. /\ rows \in Rows /\ rows.accounts = {a} /\ rows.orders = new[c].orders
      /\ rows.notes = new[c].notes /\ rows.integrations = new[c].integrations
  BY <1>2, <1>5 DEF Rows
<1> HIDE DEF rows
<1>7. SyncRows(c)'
  <2>1. /\ pc'[c] = "find_order" /\ request'[c] = request[c] /\ new'[c] = rows
        /\ orders' = orders /\ integrations' = integrations
    BY <1>2, <1>4 DEF tables
  <2>2. Backed(c, i)
    BY <1>1, <1>2 DEF SyncRows
  <2>3. Backed(c, i)'
    BY <1>6, <2>1, <2>2 DEF Backed
  <2>4. QED
    BY <1>1, <1>2, <1>5, <1>6, <2>1, <2>3 DEF SyncRows
<1>8. Fresh(c, rows)
  <2>1. /\ \A b \in accounts : b.marketplace # m
        /\ \A k \in Open \ {c} : \A b \in new[k].accounts : b.marketplace # m
    BY <1>1 DEF InsertAccount, KeyTaken, KeyFree, Of
  <2>2. \A k \in Calls \ Open : new[k].accounts = {}
    BY <1>2 DEF NoRows
  <2>3. \A k \in Calls \ {c} : \A b \in new[k].accounts : b.marketplace # m
    BY <2>1, <2>2
  <2>4. QED
    BY <1>2, <1>5, <1>6, <2>1, <2>3 DEF Fresh
<1>9. QED
  BY <1>1, <1>2, <1>4, <1>6, <1>7, <1>8, SyncGoesOn DEF Syncing

LEMMA InsertOrderStep ==
  ASSUME IInv, NEW c \in Calls, InsertOrder(c)
  PROVE  IInv'
<1> DEFINE m == request[c].marketplace
           o == [id |-> c, marketplace |-> m, status |-> "OPEN"]
           rows == [new[c] EXCEPT !.orders = {o}]
<1>1. pc[c] = "insert_order" /\ pc[c] \in Syncing
  BY DEF InsertOrder, Syncing
<1>2. /\ request[c].kind = "sync" /\ SyncRows(c) /\ Fresh(c, new[c])
      /\ request[c] \in Request /\ new[c] \in Rows /\ m \in Marketplaces
      /\ pc \in [Calls -> Places] /\ request \in [Calls -> Request] /\ new \in [Calls -> Rows]
      /\ \A k \in Calls \ Open : new[k] = NoRows
  BY <1>1, SyncFacts
<1>3. /\ pc' = [pc EXCEPT ![c] = "commit"] /\ UNCHANGED tables
      /\ request' = [request EXCEPT ![c] = request[c]] /\ new' = [new EXCEPT ![c] = rows]
  BY <1>2 DEF InsertOrder, Goto
<1>4. o \in ReturnOrder /\ o.marketplace = m
  BY <1>2 DEF ReturnOrder
<1>5. /\ rows \in Rows /\ rows.orders = {o} /\ rows.accounts = new[c].accounts
      /\ rows.notes = new[c].notes /\ rows.integrations = new[c].integrations
  BY <1>2, <1>4 DEF Rows
<1> HIDE DEF rows
<1>6. SyncRows(c)'
  <2>1. /\ pc'[c] = "commit" /\ request'[c] = request[c] /\ new'[c] = rows
        /\ integrations' = integrations
    BY <1>2, <1>3 DEF tables
  <2>2. \A i : Backed(c, i) => Backed(c, i)'
    BY <1>5, <2>1 DEF Backed
  <2>3. /\ new[c].notes = {} /\ \A i, j \in new[c].integrations : i = j
        /\ \A i \in new[c].integrations : i.id = c /\ i.provider = m /\ i.credentials = {}
        /\ \A b1, b2 \in new[c].accounts : b1 = b2
    BY <1>2 DEF SyncRows
  <2>4. \A b \in new[c].accounts : b.marketplace = m /\ Backed(c, b.integration)'
    BY <1>2, <2>2 DEF SyncRows
  <2>5. QED
    BY <1>1, <1>5, <2>1, <2>3, <2>4 DEF SyncRows
<1>7. Fresh(c, rows)
  <2>1. /\ \A p \in orders : p.marketplace # m
        /\ \A k \in Open \ {c} : \A p \in new[k].orders : p.marketplace # m
    BY <1>1 DEF InsertOrder, KeyTaken, KeyFree, Of
  <2>2. \A k \in Calls \ Open : new[k].orders = {}
    BY <1>2 DEF NoRows
  <2>3. \A k \in Calls \ {c} : \A p \in new[k].orders : p.marketplace # m
    BY <2>1, <2>2
  <2>4. QED
    BY <1>2, <1>4, <1>5, <2>1, <2>3 DEF Fresh
<1>8. QED
  BY <1>1, <1>2, <1>3, <1>5, <1>6, <1>7, SyncGoesOn DEF Syncing

-----------------------------------------------------------------------------
(* The statements of a draft *)

LEMMA FindNoteStep ==
  ASSUME IInv, NEW c \in Calls, FindNote(c)
  PROVE  IInv'
<1> DEFINE o == request[c].order
<1>1. /\ pc[c] = "find_note" /\ ActiveNotes(o) = {}
      /\ pc' = [pc EXCEPT ![c] = "link"] /\ UNCHANGED tables /\ UNCHANGED <<request, new>>
  BY DEF FindNote, Goto
<1>2. /\ request[c] \in Request /\ new[c] \in Rows /\ Session(c) /\ Fresh(c, new[c])
      /\ pc \in [Calls -> Places] /\ request \in [Calls -> Request] /\ new \in [Calls -> Rows]
      /\ CountInv
  BY CallFacts
<1>3. request[c].kind = "draft" /\ DraftRows(c)
  BY <1>1, <1>2 DEF Session
<1>4. request' = [request EXCEPT ![c] = request[c]] /\ new' = [new EXCEPT ![c] = new[c]]
  BY <1>1, <1>2
<1>5. Session(c)'
  <2>1. pc'[c] = "link" /\ request'[c] = request[c] /\ new'[c] = new[c] /\ orders' = orders
    BY <1>1, <1>2 DEF tables
  <2>2. DraftRows(c)'
    BY <1>1, <1>3, <2>1 DEF DraftRows
  <2>3. QED
    BY <1>3, <2>1, <2>2 DEF Session, Wanted, Syncing
<1>6. CountInv'
  <2>1. Open' = Open /\ notes' = notes
    BY <1>1, <1>2 DEF Open, tables
  <2>2. ASSUME NEW x \in Calls
        PROVE  Cardinality(NotesOf(x)') + Cardinality(Drafting(x)') <= MaxOpen
    <3>1. NotesOf(x)' = NotesOf(x)
      BY <2>1 DEF NotesOf
    <3>2. CASE x # o
      <4>1. Drafting(x)' = Drafting(x)
        BY <1>1, <1>2, <3>2 DEF Drafting
      <4>2. QED
        BY <1>2, <3>1, <4>1 DEF CountInv
    <3>3. CASE x = o
      <4>1. NotesOf(x) = {}
        BY <1>1, <3>3, StateTypes DEF IInv, NotesOf, ActiveNotes, ReturnNote
      <4>2. Drafting(x)' \in SUBSET Open
        BY <1>1, <1>2 DEF Drafting, Open
      <4>3. Cardinality(Drafting(x)') <= Cardinality(Open) /\ IsFiniteSet(Drafting(x)')
        BY <1>2, <4>2, CountedAreFinite, FS_Subset
      <4>4. Cardinality(Open) <= MaxOpen /\ Cardinality(Open) \in Nat
        BY <1>2, CountedAreFinite DEF CountInv
      <4>5. Cardinality(NotesOf(x)') = 0 /\ Cardinality(Drafting(x)') \in Nat
        BY <3>1, <4>1, <4>3, FS_EmptySet, FS_CardinalityType
      <4>6. QED
        BY <4>3, <4>4, <4>5, ReturnOrdersAssumption
    <3>4. QED
      BY <3>2, <3>3
  <2>3. QED
    BY <1>2, <2>1, <2>2 DEF CountInv
<1>7. QED
  BY <1>1, <1>2, <1>4, <1>5, <1>6, PrivateStep DEF Places

LEMMA LinkOrderStep ==
  ASSUME IInv, NEW c \in Calls, LinkOrder(c)
  PROVE  IInv'
<1> DEFINE n == [id |-> c, order |-> request[c].order, status |-> "DRAFT"]
           rows == [new[c] EXCEPT !.notes = {n}]
<1>1. /\ request[c] \in Request /\ new[c] \in Rows /\ Session(c) /\ Fresh(c, new[c])
      /\ pc \in [Calls -> Places] /\ request \in [Calls -> Request] /\ new \in [Calls -> Rows]
      /\ CountInv
  BY CallFacts
<1>2. /\ pc[c] = "link" /\ pc' = [pc EXCEPT ![c] = "commit"] /\ UNCHANGED tables
      /\ request' = [request EXCEPT ![c] = request[c]] /\ new' = [new EXCEPT ![c] = rows]
  BY <1>1 DEF LinkOrder, Goto
<1>3. request[c].kind = "draft" /\ DraftRows(c)
  BY <1>1, <1>2 DEF Session
<1>4. n \in ReturnNote
  <2>1. request[c].order \in Calls
    BY <1>1, <1>3 DEF Request
  <2>2. QED
    BY <2>1 DEF ReturnNote, ACTIVE_RETURN_NOTE_STATUSES
<1>5. /\ rows \in Rows /\ rows.accounts = new[c].accounts /\ rows.orders = new[c].orders
      /\ rows = [NoRows EXCEPT !.notes = {n}]
  BY <1>1, <1>2, <1>3, <1>4 DEF Rows, DraftRows, NoRows
<1> HIDE DEF rows
<1>6. Session(c)'
  <2>1. pc'[c] = "commit" /\ request'[c] = request[c] /\ new'[c] = rows /\ orders' = orders
    BY <1>1, <1>2 DEF tables
  <2>2. DraftRows(c)'
    BY <1>3, <1>5, <2>1 DEF DraftRows
  <2>3. QED
    BY <1>3, <2>1, <2>2 DEF Session, Wanted, Syncing
<1>7. Fresh(c, rows)
  BY <1>1, <1>5 DEF Fresh
<1>8. CountInv'
  <2>1. notes' = notes /\ c \in Open
    BY <1>2 DEF tables, Open
  <2>2. QED
    BY <1>1, <1>2, <2>1, QuietCount
<1>9. QED
  BY <1>1, <1>2, <1>5, <1>6, <1>7, <1>8, PrivateStep DEF Places

-----------------------------------------------------------------------------
(* Commits *)

\* A call ends and commits: the other sessions find what they relied on.
LEMMA CloseFacts ==
  ASSUME IInv, NEW c \in Calls, Close(c),
         \A i \in integrations : \E j \in integrations' : j.id = i.id /\ j.provider = i.provider,
         \A o \in orders : \E p \in orders' : p.id = o.id /\ p.marketplace = o.marketplace
  PROVE  /\ pc' = [pc EXCEPT ![c] = "done"] /\ request' = [request EXCEPT ![c] = NoRequest]
         /\ new' = [new EXCEPT ![c] = NoRows]
         /\ pc' \in [Calls -> Places] /\ request' \in [Calls -> Request] /\ new' \in [Calls -> Rows]
         /\ SessionInv'
         /\ pc'[c] = "done" /\ \A k \in Calls : pc[k] = "done" => pc'[k] = "done"
         /\ new'[c] = NoRows /\ \A k \in Calls \ {c} : new'[k] = new[k]
<1>1. /\ pc' = [pc EXCEPT ![c] = "done"] /\ request' = [request EXCEPT ![c] = NoRequest]
      /\ new' = [new EXCEPT ![c] = NoRows]
  BY DEF Close
<1>2. /\ pc \in [Calls -> Places] /\ request \in [Calls -> Request] /\ new \in [Calls -> Rows]
      /\ NoRows \in Rows /\ NoRequest \in Request
  BY CallFacts
<1>3. /\ pc' \in [Calls -> Places] /\ request' \in [Calls -> Request] /\ new' \in [Calls -> Rows]
  BY <1>1, <1>2 DEF Places
<1>4. /\ pc'[c] = "done" /\ request'[c] = NoRequest /\ new'[c] = NoRows
      /\ \A k \in Calls \ {c} : pc'[k] = pc[k] /\ request'[k] = request[k] /\ new'[k] = new[k]
  BY <1>1, <1>2
<1>5. Session(c)'
  BY <1>4 DEF Session, Wanted, Syncing, NoRequest
<1>6. ASSUME NEW k \in Calls \ {c} PROVE Session(k)'
  BY <1>4, SessionKept DEF IInv, SessionInv
<1>7. SessionInv'
  BY <1>5, <1>6 DEF SessionInv
<1>8. QED
  BY <1>1, <1>3, <1>4, <1>7

LEMMA WriteIntegrationStep ==
  ASSUME IInv, NEW c \in Calls, WriteIntegration(c)
  PROVE  IInv'
<1> DEFINE After(i) == IF i.id = request[c].read.id
                       THEN DirtyColumns(i, request[c].read, request[c].row) ELSE i
<1>1. /\ request[c] \in Request /\ Session(c) /\ CountInv
      /\ pc \in [Calls -> Places] /\ request \in [Calls -> Request]
      /\ integrations \subseteq Integration /\ accounts \subseteq Account
      /\ orders \subseteq ReturnOrder /\ notes \subseteq ReturnNote
  BY CallFacts, StateTypes DEF IInv
<1>2. /\ pc[c] = "write" /\ Close(c) /\ UNCHANGED <<accounts, orders, notes>>
      /\ integrations' = {After(i) : i \in integrations}
  BY DEF WriteIntegration
<1>3. /\ request[c].read \in Integration /\ request[c].row \in Integration
      /\ request[c].row.credentials \in {request[c].read.credentials, {c}}
  BY <1>1, <1>2 DEF Session, Wanted, Request
<1>4. ASSUME NEW i \in integrations
      PROVE  /\ After(i) \in Integration /\ After(i).id = i.id /\ After(i).provider = i.provider
             /\ After(i).credentials \in {i.credentials, {c}}
  <2>1. i \in Integration
    BY <1>1
  <2>2. QED
    BY <1>3, <2>1 DEF DirtyColumns, Integration
<1> HIDE DEF After
<1>5. \A i \in integrations : \E j \in integrations' : j.id = i.id /\ j.provider = i.provider
  BY <1>2, <1>4
<1>6. /\ pc' = [pc EXCEPT ![c] = "done"] /\ request' = [request EXCEPT ![c] = NoRequest]
      /\ pc' \in [Calls -> Places] /\ request' \in [Calls -> Request] /\ new' \in [Calls -> Rows]
      /\ SessionInv'
      /\ pc'[c] = "done" /\ \A k \in Calls : pc[k] = "done" => pc'[k] = "done"
      /\ new'[c] = NoRows /\ \A k \in Calls \ {c} : new'[k] = new[k]
  BY <1>2, <1>5, CloseFacts
<1>7. TypeOK'
  BY <1>1, <1>2, <1>4, <1>6 DEF TypeOK, Places, Syncing, Rows
<1>8. NamesInv'
  <2>1. NamesInv
    BY DEF IInv
  <2>2. \A i \in integrations' : pc'[i.id] = "done"
    BY <1>1, <1>2, <1>4, <1>6, <2>1 DEF NamesInv, Integration
  <2>3. \A i, j \in integrations' : i.id = j.id => i = j
    BY <1>2, <1>4, <2>1 DEF NamesInv
  <2>4. \A o \in orders' : pc'[o.id] = "done"
    BY <1>1, <1>2, <1>6, <2>1 DEF NamesInv, ReturnOrder
  <2>5. \A i \in integrations' : \A k \in i.credentials : pc'[k] = "done"
    BY <1>1, <1>2, <1>4, <1>6, <2>1 DEF NamesInv, Integration
  <2>6. QED
    BY <1>2, <2>1, <2>2, <2>3, <2>4, <2>5 DEF NamesInv
<1>9. FreshInv'
  <2>1. SUFFICES ASSUME NEW k \in Calls PROVE Fresh(k, new[k])'
    BY DEF FreshInv
  <2>2. Fresh(k, new[k])
    BY DEF IInv, FreshInv
  <2>3. NoRows.accounts = {} /\ NoRows.orders = {}
    BY DEF NoRows
  <2>4. QED
    BY <1>2, <1>6, <2>2, <2>3 DEF Fresh
<1>10. SyncIsAtomic'
  BY <1>2, <1>5 DEF IInv, SyncIsAtomic, Of
<1>11. KeysInv' /\ LinkedHasNote'
  BY <1>2 DEF IInv, KeysInv, LinkedHasNote
<1>12. CountInv'
  BY <1>1, <1>2, <1>6, QuietCount DEF NoRequest
<1>13. QED
  BY <1>6, <1>7, <1>8, <1>9, <1>10, <1>11, <1>12 DEF IInv

\* What a call commits, by what it was asked for.
LEMMA CommittedRows ==
  ASSUME IInv, NEW c \in Calls, pc[c] = "commit"
  PROVE  /\ new[c] \in Rows
         /\ \A i \in new[c].integrations : i.id = c /\ i.credentials \subseteq {c}
         /\ \A i, j \in new[c].integrations : i = j
         /\ \A a, b \in new[c].accounts : a = b
         /\ \A a \in new[c].accounts :
              /\ \E r \in integrations \cup new[c].integrations :
                   r.id = a.integration /\ r.provider = a.marketplace
              /\ \E o \in orders \cup new[c].orders : o.marketplace = a.marketplace
         /\ \A o, p \in new[c].orders : o = p
         /\ \A o \in new[c].orders : o.id = c /\ o.status = "OPEN"
         /\ \/ request[c].kind # "draft" /\ new[c].notes = {}
            \/ /\ request[c].kind = "draft" /\ new[c].orders = {} /\ request[c].order \in Calls
               /\ \E o \in orders : o.id = request[c].order
               /\ new[c].notes = {[id |-> c, order |-> request[c].order, status |-> "DRAFT"]}
<1>1. Session(c) /\ request[c] \in Request /\ new[c] \in Rows
  BY CallFacts
<1>2. CASE request[c].kind = "sync"
  <2> DEFINE m == request[c].marketplace
  <2>1. SyncRows(c)
    BY <1>1, <1>2 DEF Session
  <2>2. ASSUME NEW a \in new[c].accounts
        PROVE  /\ \E r \in integrations \cup new[c].integrations :
                    r.id = a.integration /\ r.provider = a.marketplace
               /\ \E o \in orders \cup new[c].orders : o.marketplace = a.marketplace
    <3>1. a.marketplace = m /\ Backed(c, a.integration)
      BY <2>1 DEF SyncRows
    <3>2. \E o \in orders \cup new[c].orders : o.marketplace = m
      BY <2>1 DEF SyncRows, Of
    <3>3. QED
      BY <3>1, <3>2 DEF Backed
  <2>3. QED
    BY <1>1, <1>2, <2>1, <2>2 DEF SyncRows
<1>3. CASE request[c].kind = "draft"
  <2>1. DraftRows(c) /\ request[c].order \in Calls
    BY <1>1, <1>3 DEF Session, Wanted, Request
  <2>2. new[c].integrations = {} /\ new[c].accounts = {} /\ new[c].orders = {}
    BY <2>1 DEF DraftRows, NoRows
  <2>3. new[c].notes = {[id |-> c, order |-> request[c].order, status |-> "DRAFT"]}
    BY <2>1 DEF DraftRows, NoRows
  <2>4. QED
    BY <1>1, <1>3, <2>1, <2>2, <2>3 DEF DraftRows
<1>4. CASE request[c].kind = "create"
  <2>1. PICK i \in Integration : /\ i.id = c /\ i.credentials \subseteq {c}
                                 /\ new[c] = [NoRows EXCEPT !.integrations = {i}]
    BY <1>1, <1>4 DEF Session, Wanted, CreateRows
  <2>2. /\ new[c].integrations = {i} /\ new[c].accounts = {} /\ new[c].orders = {}
        /\ new[c].notes = {}
    BY <2>1 DEF NoRows
  <2>3. QED
    BY <1>1, <1>4, <2>1, <2>2
<1>5. QED
  BY <1>1, <1>2, <1>3, <1>4 DEF Session

\* A draft that commits is one draft less and one note more.
LEMMA CommitCount ==
  ASSUME IInv, NEW c \in Calls, Commit(c)
  PROVE  CountInv'
<1>1. /\ pc \in [Calls -> Places] /\ request \in [Calls -> Request] /\ CountInv
  BY CallFacts
<1>2. /\ pc[c] = "commit" /\ pc' = [pc EXCEPT ![c] = "done"]
      /\ request' = [request EXCEPT ![c] = NoRequest]
      /\ notes' = notes \cup new[c].notes
  BY DEF Commit, Close
<1>3. CASE request[c].kind # "draft"
  <2>1. notes' = notes
    BY <1>2, <1>3, CommittedRows
  <2>2. QED
    BY <1>1, <1>2, <2>1, QuietCount DEF NoRequest
<1>4. CASE request[c].kind = "draft"
  <2> DEFINE o == request[c].order
             n == [id |-> c, order |-> o, status |-> "DRAFT"]
  <2>1. notes' = notes \cup {n}
    BY <1>2, <1>4, CommittedRows
  <2>2. IsFiniteSet(notes')
    BY <1>1, <2>1, FS_AddElement DEF CountInv
  <2>3. Cardinality(Open') <= MaxOpen
    <3>1. Open' \in SUBSET Open
      BY <1>1, <1>2 DEF Open
    <3>2. Cardinality(Open') <= Cardinality(Open) /\ IsFiniteSet(Open')
      BY <1>1, <3>1, CountedAreFinite, FS_Subset
    <3>3. Cardinality(Open') \in Nat
      BY <3>2, FS_CardinalityType
    <3>4. QED
      BY <1>1, <3>2, <3>3, CountedAreFinite, ReturnOrdersAssumption DEF CountInv
  <2>4. ASSUME NEW x \in Calls
        PROVE  Cardinality(NotesOf(x)') + Cardinality(Drafting(x)') <= MaxOpen
    <3>1. /\ IsFiniteSet(NotesOf(x)) /\ Cardinality(NotesOf(x)) \in Nat
          /\ IsFiniteSet(Drafting(x)) /\ Cardinality(Drafting(x)) \in Nat
          /\ Cardinality(NotesOf(x)) + Cardinality(Drafting(x)) <= MaxOpen
      BY <1>1, CountedAreFinite DEF CountInv
    <3>2. CASE x # o
      <4>1. NotesOf(x)' = NotesOf(x)
        BY <2>1, <3>2 DEF NotesOf
      <4>2. Drafting(x)' = Drafting(x)
        BY <1>1, <1>2, <3>2 DEF Drafting, NoRequest
      <4>3. QED
        BY <3>1, <4>1, <4>2
    <3>3. CASE x = o
      <4>1. NotesOf(x)' = NotesOf(x) \cup {n}
        BY <2>1, <3>3 DEF NotesOf
      <4>2. c \in Drafting(x) /\ Drafting(x)' = Drafting(x) \ {c}
        BY <1>1, <1>2, <1>4, <3>3 DEF Drafting, NoRequest
      <4>3. Cardinality(NotesOf(x)') \in {Cardinality(NotesOf(x)), Cardinality(NotesOf(x)) + 1}
        BY <3>1, <4>1, FS_AddElement
      <4>4. Cardinality(Drafting(x)') = Cardinality(Drafting(x)) - 1
        BY <3>1, <4>2, FS_RemoveElement
      <4>5. QED
        BY <3>1, <4>3, <4>4, ReturnOrdersAssumption
    <3>4. QED
      BY <3>2, <3>3
  <2>5. QED
    BY <2>2, <2>3, <2>4 DEF CountInv
<1>5. QED
  BY <1>3, <1>4

LEMMA CommitStep ==
  ASSUME IInv, NEW c \in Calls, Commit(c)
  PROVE  IInv'
<1> DEFINE After(o) == [o EXCEPT !.status = StatusAfter(c, o)]
<1>1. /\ integrations \subseteq Integration /\ accounts \subseteq Account
      /\ orders \subseteq ReturnOrder /\ notes \subseteq ReturnNote
  BY StateTypes DEF IInv
<1>2. /\ pc[c] = "commit" /\ Close(c)
      /\ integrations' = integrations \cup new[c].integrations
      /\ accounts' = accounts \cup new[c].accounts
      /\ orders' = {After(o) : o \in orders} \cup new[c].orders
      /\ notes' = notes \cup new[c].notes
  BY DEF Commit
<1>3. /\ new[c] \in Rows
      /\ \A i \in new[c].integrations : i.id = c /\ i.credentials \subseteq {c}
      /\ \A i, j \in new[c].integrations : i = j
      /\ \A a, b \in new[c].accounts : a = b
      /\ \A a \in new[c].accounts :
           /\ \E r \in integrations \cup new[c].integrations :
                r.id = a.integration /\ r.provider = a.marketplace
           /\ \E o \in orders \cup new[c].orders : o.marketplace = a.marketplace
      /\ \A o, p \in new[c].orders : o = p
      /\ \A o \in new[c].orders : o.id = c /\ o.status = "OPEN"
      /\ \/ request[c].kind # "draft" /\ new[c].notes = {}
         \/ /\ request[c].kind = "draft" /\ new[c].orders = {} /\ request[c].order \in Calls
            /\ \E o \in orders : o.id = request[c].order
            /\ new[c].notes = {[id |-> c, order |-> request[c].order, status |-> "DRAFT"]}
  BY <1>2, CommittedRows
<1>4. ASSUME NEW o \in orders
      PROVE  /\ After(o) \in ReturnOrder /\ After(o).id = o.id
             /\ After(o).marketplace = o.marketplace
             /\ After(o).status = IF request[c].kind = "draft" /\ o.id = request[c].order
                                  THEN "LINKED_TO_NFE" ELSE o.status
  <2>1. o \in ReturnOrder
    BY <1>1
  <2>2. QED
    BY <2>1 DEF StatusAfter, ReturnOrder
<1> HIDE DEF After
<1>5. /\ \A i \in integrations : \E j \in integrations' : j.id = i.id /\ j.provider = i.provider
      /\ \A o \in orders : \E p \in orders' : p.id = o.id /\ p.marketplace = o.marketplace
  BY <1>2, <1>4
<1>6. /\ pc' \in [Calls -> Places] /\ request' \in [Calls -> Request] /\ new' \in [Calls -> Rows]
      /\ SessionInv'
      /\ pc'[c] = "done" /\ \A k \in Calls : pc[k] = "done" => pc'[k] = "done"
      /\ new'[c] = NoRows /\ \A k \in Calls \ {c} : new'[k] = new[k]
  BY <1>2, <1>5, CloseFacts
<1>7. Fresh(c, new[c]) /\ NamesInv /\ KeysInv /\ SyncIsAtomic /\ LinkedHasNote
  BY CallFacts DEF IInv
<1>8. TypeOK'
  <2>1. /\ integrations' \subseteq Integration /\ accounts' \subseteq Account
        /\ notes' \subseteq ReturnNote /\ orders' \subseteq ReturnOrder
    BY <1>1, <1>2, <1>3, <1>4 DEF Rows
  <2>2. QED
    BY <1>6, <2>1 DEF TypeOK, Places, Syncing, Rows
<1>9. NamesInv'
  <2>1. \A i \in integrations' : pc'[i.id] = "done"
    BY <1>1, <1>2, <1>3, <1>6, <1>7 DEF NamesInv, Integration
  <2>2. \A i, j \in integrations' : i.id = j.id => i = j
    <3>1. \A i \in integrations : i.id # c
      BY <1>2, <1>7 DEF NamesInv
    <3>2. QED
      BY <1>2, <1>3, <1>7, <3>1 DEF NamesInv
  <2>3. \A o \in orders' : pc'[o.id] = "done"
    BY <1>1, <1>2, <1>3, <1>4, <1>6, <1>7 DEF NamesInv, ReturnOrder
  <2>4. \A n \in notes' : \E o \in orders' : o.id = n.order
    <3>1. TAKE n \in notes'
    <3>2. \E o \in orders : o.id = n.order
      BY <1>2, <1>3, <1>7 DEF NamesInv
    <3>3. QED
      BY <1>5, <3>2
  <2>5. \A i \in integrations' : \A k \in i.credentials : pc'[k] = "done"
    BY <1>1, <1>2, <1>3, <1>6, <1>7 DEF NamesInv, Integration
  <2>6. QED
    BY <2>1, <2>2, <2>3, <2>4, <2>5 DEF NamesInv
<1>10. FreshInv'
  <2>1. SUFFICES ASSUME NEW k \in Calls PROVE Fresh(k, new[k])'
    BY DEF FreshInv
  <2>2. NoRows.accounts = {} /\ NoRows.orders = {}
    BY DEF NoRows
  <2>3. CASE k = c
    BY <1>6, <2>2, <2>3 DEF Fresh
  <2>4. CASE k # c
    <3>1. Fresh(k, new[k]) /\ new'[k] = new[k]
      BY <1>6, <2>4 DEF IInv, FreshInv
    <3>2. ASSUME NEW a \in new[k].accounts
          PROVE  /\ \A b \in accounts' : b.marketplace # a.marketplace
                 /\ \A x \in Calls \ {k} : \A b \in new'[x].accounts :
                      b.marketplace # a.marketplace
      BY <1>2, <1>6, <2>2, <2>4, <3>1 DEF Fresh
    <3>3. ASSUME NEW o \in new[k].orders
          PROVE  /\ \A p \in orders' : p.marketplace # o.marketplace
                 /\ \A x \in Calls \ {k} : \A p \in new'[x].orders :
                      p.marketplace # o.marketplace
      BY <1>2, <1>4, <1>6, <2>2, <2>4, <3>1 DEF Fresh
    <3>4. QED
      BY <3>1, <3>2, <3>3 DEF Fresh
  <2>5. QED
    BY <2>3, <2>4
<1>11. KeysInv'
  <2>1. \A a, b \in accounts' : a.marketplace = b.marketplace => a = b
    BY <1>2, <1>3, <1>7 DEF KeysInv, Fresh
  <2>2. \A o, p \in orders' : o.marketplace = p.marketplace => o = p
    <3>1. \A o \in orders, p \in new[c].orders : o.marketplace # p.marketplace
      BY <1>7 DEF Fresh
    <3>2. \A o, p \in orders : o.marketplace = p.marketplace => o = p
      BY <1>7 DEF KeysInv
    <3>3. QED
      BY <1>2, <1>3, <1>4, <3>1, <3>2
  <2>3. QED
    BY <2>1, <2>2 DEF KeysInv
<1>12. SyncIsAtomic'
  <2>1. SUFFICES ASSUME NEW a \in accounts'
                 PROVE  /\ \E o \in orders' : o.marketplace = a.marketplace
                        /\ \E i \in integrations' :
                             i.id = a.integration /\ i.provider = a.marketplace
    BY DEF SyncIsAtomic, Of
  <2>2. CASE a \in accounts
    <3>1. /\ \E o \in orders : o.marketplace = a.marketplace
          /\ \E i \in integrations : i.id = a.integration /\ i.provider = a.marketplace
      BY <1>7, <2>2 DEF SyncIsAtomic, Of
    <3>2. QED
      BY <1>2, <1>5, <3>1
  <2>3. CASE a \in new[c].accounts
    <3>1. PICK o \in orders \cup new[c].orders : o.marketplace = a.marketplace
      BY <1>3, <2>3
    <3>2. \E p \in orders' : p.marketplace = a.marketplace
      BY <1>2, <1>5, <3>1
    <3>3. QED
      BY <1>2, <1>3, <2>3, <3>2
  <2>4. QED
    BY <1>2, <2>2, <2>3
<1>13. LinkedHasNote'
  <2>1. SUFFICES ASSUME NEW p \in orders'
                 PROVE  p.status = "LINKED_TO_NFE" <=> \E n \in notes' : n.order = p.id
    BY DEF LinkedHasNote
  <2>2. CASE p \in new[c].orders
    <3>1. p.id = c /\ p.status = "OPEN" /\ request[c].kind # "draft" /\ notes' = notes
      BY <1>2, <1>3, <2>2
    <3>2. \A n \in notes : n.order # c
      BY <1>2, <1>7 DEF NamesInv
    <3>3. QED
      BY <3>1, <3>2
  <2>3. CASE \E o \in orders : p = After(o)
    <3>1. PICK o \in orders : p = After(o)
      BY <2>3
    <3>2. o.status = "LINKED_TO_NFE" <=> \E n \in notes : n.order = o.id
      BY <1>7 DEF LinkedHasNote
    <3>3. CASE request[c].kind # "draft"
      BY <1>2, <1>3, <1>4, <3>1, <3>2, <3>3
    <3>4. CASE request[c].kind = "draft"
      <4> DEFINE n == [id |-> c, order |-> request[c].order, status |-> "DRAFT"]
      <4>1. notes' = notes \cup {n} /\ n.order = request[c].order
        BY <1>2, <1>3, <3>4
      <4> HIDE DEF n
      <4>2. QED
        BY <1>4, <3>1, <3>2, <3>4, <4>1
    <3>5. QED
      BY <3>3, <3>4
  <2>4. QED
    BY <1>2, <2>2, <2>3
<1>14. CountInv'
  BY CommitCount
<1>15. QED
  BY <1>6, <1>8, <1>9, <1>10, <1>11, <1>12, <1>13, <1>14 DEF IInv

\* A note that is emitted keeps its order.
LEMMA EmitStep ==
  ASSUME IInv, NEW n \in notes, Emit(n)
  PROVE  IInv'
<1>1. PICK s \in {"QUEUED", "ISSUED", "FAILED"} :
        notes' = (notes \ {n}) \cup {[n EXCEPT !.status = s]}
  BY DEF Emit
<1>2. UNCHANGED <<integrations, accounts, orders, pc, request, new>>
  BY DEF Emit
<1> DEFINE e == [n EXCEPT !.status = s]
<1>3. e \in ReturnNote /\ e.order = n.order
  BY StateTypes DEF IInv, ReturnNote, ACTIVE_RETURN_NOTE_STATUSES
<1> HIDE DEF e
<1>4. notes' = (notes \ {n}) \cup {e}
  BY <1>1 DEF e
<1>5. TypeOK'
  BY <1>2, <1>3, <1>4 DEF IInv, TypeOK
<1>6. SessionInv'
  BY <1>2, SessionKept DEF IInv, SessionInv
<1>7. NamesInv'
  BY <1>2, <1>3, <1>4 DEF IInv, NamesInv
<1>8. FreshInv' /\ KeysInv' /\ SyncIsAtomic'
  <2>1. FreshInv /\ KeysInv /\ SyncIsAtomic
    BY DEF IInv
  <2>2. QED
    BY <1>2, <2>1 DEF FreshInv, Fresh, KeysInv, SyncIsAtomic, Of
<1>9. LinkedHasNote'
  <2>1. \A x : (\E k \in notes' : k.order = x) <=> \E k \in notes : k.order = x
    BY <1>3, <1>4
  <2>2. QED
    BY <1>2, <2>1 DEF IInv, LinkedHasNote
<1>10. CountInv'
  <2>1. CountInv /\ IsFiniteSet(notes)
    BY DEF IInv, CountInv
  <2>2. IsFiniteSet(notes')
    <3>1. IsFiniteSet(notes \ {n})
      BY <2>1, FS_RemoveElement
    <3>2. QED
      BY <1>4, <3>1, FS_AddElement
  <2>3. ASSUME NEW x \in Calls
        PROVE  Cardinality(NotesOf(x)') + Cardinality(Drafting(x)') <= MaxOpen
    <3>1. /\ IsFiniteSet(NotesOf(x)) /\ Cardinality(NotesOf(x)) \in Nat
          /\ Cardinality(Drafting(x)) \in Nat
          /\ Cardinality(NotesOf(x)) + Cardinality(Drafting(x)) <= MaxOpen
      BY <2>1, CountedAreFinite DEF CountInv
    <3>2. Drafting(x)' = Drafting(x)
      BY <1>2 DEF Drafting
    <3>3. CASE n.order # x
      <4>1. NotesOf(x)' = NotesOf(x)
        BY <1>3, <1>4, <3>3 DEF NotesOf
      <4>2. QED
        BY <3>1, <3>2, <4>1
    <3>4. CASE n.order = x
      <4>1. n \in NotesOf(x) /\ NotesOf(x)' = (NotesOf(x) \ {n}) \cup {e}
        BY <1>3, <1>4, <3>4 DEF NotesOf
      <4> DEFINE Others == NotesOf(x) \ {n}
      <4>2. IsFiniteSet(Others) /\ Cardinality(Others) = Cardinality(NotesOf(x)) - 1
        BY <3>1, <4>1, FS_RemoveElement
      <4>3. Cardinality(Others \cup {e}) \in {Cardinality(Others), Cardinality(Others) + 1}
        BY <4>2, FS_AddElement
      <4>4. QED
        BY <3>1, <3>2, <4>1, <4>2, <4>3, ReturnOrdersAssumption
    <3>5. QED
      BY <3>3, <3>4
  <2>4. Open' = Open
    BY <1>2 DEF Open
  <2>5. QED
    BY <2>1, <2>2, <2>3, <2>4 DEF CountInv
<1>11. QED
  BY <1>5, <1>6, <1>7, <1>8, <1>9, <1>10 DEF IInv

-----------------------------------------------------------------------------
(* The invariant *)

LEMMA InitInv == Init => IInv
<1> SUFFICES ASSUME Init PROVE IInv
  OBVIOUS
<1> USE DEF Init
<1>1. /\ integrations = {} /\ accounts = {} /\ orders = {} /\ notes = {}
      /\ \A c \in Calls : pc[c] = "idle" /\ request[c] = NoRequest /\ new[c] = NoRows
  OBVIOUS
<1>2. TypeOK
  <2>1. NoRequest \in Request /\ NoRows \in Rows
    BY DEF NoRequest, Request, NoRows, Rows
  <2>2. QED
    BY <2>1 DEF TypeOK, Rows
<1>3. SessionInv
  BY <1>1 DEF SessionInv, Session, Syncing, NoRequest
<1>4. NamesInv /\ KeysInv /\ SyncIsAtomic /\ LinkedHasNote
  BY <1>1 DEF NamesInv, KeysInv, SyncIsAtomic, LinkedHasNote
<1>5. FreshInv
  BY <1>1 DEF FreshInv, Fresh, NoRows
<1>6. CountInv
  <2>1. Open = {}
    BY <1>1 DEF Open
  <2>2. \A o \in Calls : NotesOf(o) = {} /\ Drafting(o) = {}
    BY <1>1 DEF NotesOf, Drafting
  <2>3. IsFiniteSet({}) /\ Cardinality({}) = 0
    BY FS_EmptySet
  <2>4. QED
    BY <1>1, <2>1, <2>2, <2>3, ReturnOrdersAssumption DEF CountInv
<1>7. QED
  BY <1>2, <1>3, <1>4, <1>5, <1>6 DEF IInv

LEMMA StutterInv ==
  ASSUME IInv, UNCHANGED vars
  PROVE  IInv'
<1>1. UNCHANGED <<integrations, accounts, orders, notes, pc, request, new>>
  BY DEF vars, tables
<1>2. TypeOK'
  BY <1>1 DEF IInv, TypeOK
<1>3. SessionInv'
  BY <1>1, SessionKept DEF IInv, SessionInv
<1>4. NamesInv' /\ FreshInv' /\ KeysInv'
  BY <1>1 DEF IInv, NamesInv, FreshInv, Fresh, KeysInv
<1>5. SyncIsAtomic' /\ LinkedHasNote'
  BY <1>1 DEF IInv, SyncIsAtomic, LinkedHasNote, Of
<1>6. CountInv'
  BY <1>1 DEF IInv, CountInv, Open, NotesOf, Drafting
<1>7. QED
  BY <1>2, <1>3, <1>4, <1>5, <1>6 DEF IInv

LEMMA ContinueStep ==
  ASSUME IInv, NEW c \in Calls, Continue(c)
  PROVE  IInv'
<1>1. CASE FindAccount(c) \/ FindOrder(c)
  BY <1>1, LookStep
<1>2. CASE EnsureIntegration(c)
  BY <1>2, EnsureIntegrationStep
<1>3. CASE InsertAccount(c)
  BY <1>3, InsertAccountStep
<1>4. CASE InsertOrder(c)
  BY <1>4, InsertOrderStep
<1>5. CASE FailSync(c) \/ RefuseDraft(c)
  BY <1>5, EndStep DEF FailSync, RefuseDraft
<1>6. CASE FindNote(c)
  BY <1>6, FindNoteStep
<1>7. CASE LinkOrder(c)
  BY <1>7, LinkOrderStep
<1>8. CASE WriteIntegration(c)
  BY <1>8, WriteIntegrationStep
<1>9. CASE Commit(c)
  BY <1>9, CommitStep
<1>10. QED
  BY <1>1, <1>2, <1>3, <1>4, <1>5, <1>6, <1>7, <1>8, <1>9 DEF Continue

LEMMA NextInv == IInv /\ [Next]_vars => IInv'
<1> SUFFICES ASSUME IInv, [Next]_vars PROVE IInv'
  OBVIOUS
<1>1. CASE UNCHANGED vars
  BY <1>1, StutterInv
<1>2. ASSUME NEW c \in Calls, Start(c) PROVE IInv'
  BY <1>2, StartStep
<1>3. ASSUME NEW c \in Calls, Refuse(c) \/ Fail(c) PROVE IInv'
  BY <1>3, EndStep DEF Refuse, Fail
<1>4. ASSUME NEW c \in Calls, Continue(c) PROVE IInv'
  BY <1>4, ContinueStep
<1>5. ASSUME NEW n \in notes, Emit(n) PROVE IInv'
  BY <1>5, EmitStep
<1>6. QED
  BY <1>1, <1>2, <1>3, <1>4, <1>5 DEF Next

\* The inductive invariant: what each session holds, names and keys of rows, committed or not,
\* and the number of notes and drafts of an order.
THEOREM OrdersInvariant == Spec => []IInv
<1>1. QED
  BY InitInv, NextInv, PTL DEF Spec

\* Whatever calls overlap or fail, rows, requests and sessions hold values of their kind.
THEOREM OrdersTypeCorrect == Spec => []TypeOK
<1>1. IInv => TypeOK
  BY DEF IInv
<1>2. QED
  BY <1>1, OrdersInvariant, PTL

-----------------------------------------------------------------------------
(* Syncs *)

LEMMA AtMostOne ==
  ASSUME NEW S, \A x, y \in S : x = y
  PROVE  Cardinality(S) <= 1
<1>1. CASE S = {}
  BY <1>1, FS_EmptySet
<1>2. CASE S # {}
  <2>1. PICK x : S = {x}
    BY <1>2
  <2>2. QED
    BY <2>1, FS_Singleton
<1>3. QED
  BY <1>1, <1>2

\* However any number of syncs overlap, a marketplace gets one account and one order.
THEOREM SyncsAreIdempotent == Spec => []SyncIsIdempotent
<1>1. IInv => SyncIsIdempotent
  <2>1. SUFFICES ASSUME KeysInv, NEW m \in Marketplaces
                 PROVE  Cardinality(Of(accounts, m)) <= 1 /\ Cardinality(Of(orders, m)) <= 1
    BY DEF IInv, SyncIsIdempotent
  <2>2. /\ \A a, b \in Of(accounts, m) : a = b
        /\ \A o, p \in Of(orders, m) : o = p
    BY <2>1 DEF KeysInv, Of
  <2>3. QED
    BY <2>2, AtMostOne
<1>2. QED
  BY <1>1, OrdersInvariant, PTL

\* Wherever a sync fails, no account is there without its order and its integration.
THEOREM SyncsAreAtomic == Spec => []SyncIsAtomic
<1>1. IInv => SyncIsAtomic
  BY DEF IInv
<1>2. QED
  BY <1>1, OrdersInvariant, PTL

-----------------------------------------------------------------------------
(* Drafts *)

\* An order is LINKED_TO_NFE exactly while it has a note, whatever calls overlap or fail.
THEOREM LinkedOrdersHaveNotes == Spec => []LinkedHasNote
<1>1. IInv => LinkedHasNote
  BY DEF IInv
<1>2. QED
  BY <1>1, OrdersInvariant, PTL

\* An order has no more notes than calls may overlap; with one call at a time it has one.
THEOREM DuplicatesAreBounded == Spec => []DuplicatesOverlap
<1>1. IInv => DuplicatesOverlap
  <2>1. SUFFICES ASSUME IInv, NEW o \in orders
                 PROVE  Cardinality({n \in notes : n.order = o.id}) <= MaxOpen
    BY DEF DuplicatesOverlap
  <2>2. o.id \in Calls /\ CountInv
    BY <2>1, StateTypes DEF IInv, ReturnOrder
  <2>3. /\ Cardinality(NotesOf(o.id)) \in Nat /\ Cardinality(Drafting(o.id)) \in Nat
        /\ Cardinality(NotesOf(o.id)) + Cardinality(Drafting(o.id)) <= MaxOpen
    BY <2>2, CountedAreFinite DEF CountInv
  <2>4. Cardinality(NotesOf(o.id)) <= MaxOpen
    BY <2>3, ReturnOrdersAssumption
  <2>5. QED
    BY <2>4 DEF NotesOf
<1>2. QED
  BY <1>1, OrdersInvariant, PTL

\* While calls do not overlap, the check of create_mock_return_note suffices: an order has one
\* active note.
THEOREM SerialDraftsMakeOneNote ==
  ASSUME MaxOpen = 1
  PROVE  Spec => []OneActiveNote
<1>1. IInv /\ DuplicatesOverlap => OneActiveNote
  <2>1. SUFFICES ASSUME IInv, DuplicatesOverlap, NEW o \in orders
                 PROVE  Cardinality(ActiveNotes(o.id)) <= 1
    BY DEF OneActiveNote
  <2>2. IsFiniteSet(notes)
    BY <2>1 DEF IInv, CountInv
  <2>3. IsFiniteSet(NotesOf(o.id)) /\ Cardinality(NotesOf(o.id)) <= 1
    BY <2>1, <2>2, FS_Subset DEF NotesOf, DuplicatesOverlap
  <2>4. ActiveNotes(o.id) \subseteq NotesOf(o.id)
    BY DEF ActiveNotes, NotesOf
  <2>5. /\ Cardinality(ActiveNotes(o.id)) \in Nat /\ Cardinality(NotesOf(o.id)) \in Nat
        /\ Cardinality(ActiveNotes(o.id)) <= Cardinality(NotesOf(o.id))
    BY <2>3, <2>4, FS_Subset, FS_CardinalityType
  <2>6. QED
    BY <2>3, <2>5
<1>2. QED
  BY <1>1, OrdersInvariant, DuplicatesAreBounded, PTL

-----------------------------------------------------------------------------
(* Waiting *)

\* The next statement of the call waits for the end of call k: a key that k has inserted, or
\* the order that k has updated.
WaitsFor(c, k) ==
  /\ k \in Open \ {c}
  /\ \/ /\ pc[c] = "insert_account" /\ ~KeyTaken(c)
        /\ Of(new[k].accounts, request[c].marketplace) # {}
     \/ /\ pc[c] = "insert_order" /\ ~KeyTaken(c)
        /\ Of(new[k].orders, request[c].marketplace) # {}
     \/ /\ pc[c] = "link"
        /\ k \in Linking(request[c].order)

Waiting(c) == \E k \in Open : WaitsFor(c, k)

\* While a call is open, one of them waits for nobody: what SomeCallGoesOn says of the steps
\* that are enabled, in terms of who waits for whom.
SomeCallIsFree == Open # {} => \E c \in Open : ~Waiting(c)

\* Calls that wait for keys and rows of each other form no ring: a sync inserts the account
\* before the order, and a draft updates one order only.
THEOREM WaitingEnds == Spec => []SomeCallIsFree
<1>1. IInv => SomeCallIsFree
  <2> SUFFICES ASSUME IInv, NEW c \in Open, \A k \in Open : Waiting(k)
               PROVE  FALSE
    BY DEF SomeCallIsFree
  <2>1. \A k \in Open : k \in Calls /\ Session(k)
    BY DEF Open, IInv, SessionInv
  <2>2. \A k \in Open : pc[k] \in {"insert_account", "insert_order", "link"}
    BY DEF Waiting, WaitsFor
  <2>3. \A k \in Open : new[k].orders = {} /\ new[k].notes = {}
    BY <2>1, <2>2 DEF Session, SyncRows, DraftRows, NoRows, Syncing
  <2>4. \A k \in Open : pc[k] = "insert_account"
    BY <2>2, <2>3 DEF Waiting, WaitsFor, Linking, Of
  <2>5. \A k \in Open : new[k].accounts = {}
    BY <2>1, <2>4 DEF Session, SyncRows, Syncing
  <2>6. ~Waiting(c)
    BY <2>4, <2>5 DEF Waiting, WaitsFor, Of
  <2>7. QED
    BY <2>6
<1>2. QED
  BY <1>1, OrdersInvariant, PTL

-----------------------------------------------------------------------------
(* Changes of integrations *)

\* A change of an integration that ends has been written, or the row is as it was.
LEMMA WriteOrFail ==
  ASSUME IInv, [Next]_vars, NEW c \in Calls, pc[c] = "write", pc'[c] = "done"
  PROVE  WriteIntegration(c) \/ integrations' = integrations
<1> DEFINE Done == WriteIntegration(c) \/ integrations' = integrations
<1>1. pc \in [Calls -> Places] /\ request \in [Calls -> Request] /\ new \in [Calls -> Rows]
  BY StateTypes DEF IInv
<1>2. CASE UNCHANGED vars
  BY <1>2 DEF vars
<1>3. ASSUME NEW k \in Calls, Start(k) PROVE Done
  BY <1>3 DEF Start, StartSync, StartDraft, StartCreate, StartUpdate, StartReplace, Begin, tables
<1>4. ASSUME NEW k \in Calls, Refuse(k) \/ Fail(k) PROVE Done
  BY <1>4 DEF Refuse, Fail, tables
<1>5. ASSUME NEW k \in Calls, Continue(k) PROVE Done
  <2>1. CASE \/ FindAccount(k) \/ EnsureIntegration(k) \/ InsertAccount(k) \/ FindOrder(k)
             \/ InsertOrder(k) \/ FailSync(k) \/ FindNote(k) \/ RefuseDraft(k) \/ LinkOrder(k)
    BY <2>1 DEF FindAccount, EnsureIntegration, InsertAccount, FindOrder, InsertOrder, FailSync,
      FindNote, RefuseDraft, LinkOrder, Goto, tables
  <2>2. CASE WriteIntegration(k)
    <3>1. pc' = [pc EXCEPT ![k] = "done"]
      BY <2>2 DEF WriteIntegration, Close
    <3>2. k = c
      BY <1>1, <3>1
    <3>3. QED
      BY <2>2, <3>2
  <2>3. CASE Commit(k)
    <3>1. pc[k] = "commit" /\ pc' = [pc EXCEPT ![k] = "done"]
      BY <2>3 DEF Commit, Close
    <3>2. QED
      BY <1>1, <3>1
  <2>4. QED
    BY <1>5, <2>1, <2>2, <2>3 DEF Continue
<1>6. ASSUME NEW n \in notes, Emit(n) PROVE Done
  BY <1>6 DEF Emit
<1>7. QED
  BY <1>2, <1>3, <1>4, <1>5, <1>6 DEF Next

\* What a write makes of the row of an integration.
LEMMA RowWritten ==
  ASSUME IInv, NEW c \in Calls, WriteIntegration(c),
         NEW i \in integrations, NEW j \in integrations', i.id = j.id
  PROVE  j = IF i.id = request[c].read.id
             THEN DirtyColumns(i, request[c].read, request[c].row) ELSE i
<1> DEFINE After(x) == IF x.id = request[c].read.id
                       THEN DirtyColumns(x, request[c].read, request[c].row) ELSE x
<1>1. PICK x \in integrations : j = After(x)
  BY DEF WriteIntegration
<1>2. x \in Integration
  BY StateTypes DEF IInv
<1>3. After(x).id = x.id
  BY <1>2 DEF DirtyColumns, Integration
<1>4. x = i
  <2>1. x.id = i.id
    BY <1>1, <1>3
  <2>2. QED
    BY <2>1 DEF IInv, NamesInv
<1>5. QED
  BY <1>1, <1>4

\* What the session of a change holds.
LEMMA ChangeFacts ==
  ASSUME IInv, NEW c \in Calls, request[c].kind \in {"update", "replace"}
  PROVE  Wanted(c) /\ request[c].read \in Integration /\ request[c].row \in Integration
<1>1. Session(c) /\ request[c] \in Request
  BY CallFacts
<1>2. QED
  BY <1>1 DEF Session, Request

\* An update does not bring old credentials back, nor do new ones undo a setting committed since.
THEOREM ColumnsAreKept == Spec => ColumnsKept
<1> DEFINE Kept(c, i, j) ==
      /\ Writes(c, "update") => j.credentials = i.credentials
      /\ Writes(c, "replace") => j.mock = i.mock
<1>1. IInv /\ [Next]_vars => \A c \in Calls, i \in integrations, j \in integrations' :
                               i.id = j.id => Kept(c, i, j)
  <2>1. SUFFICES ASSUME IInv, [Next]_vars, NEW c \in Calls, NEW i \in integrations,
                        NEW j \in integrations', i.id = j.id,
                        request[c].kind \in {"update", "replace"}, pc[c] = "write",
                        pc'[c] = "done"
                 PROVE  /\ request[c].kind = "update" => j.credentials = i.credentials
                        /\ request[c].kind = "replace" => j.mock = i.mock
    BY DEF Writes
  <2>2. i \in Integration
    BY <2>1, StateTypes DEF IInv
  <2>3. Wanted(c)
    BY <2>1, ChangeFacts
  <2>4. CASE integrations' = integrations
    BY <2>1, <2>4 DEF IInv, NamesInv
  <2>5. CASE WriteIntegration(c)
    <3>1. j = IF i.id = request[c].read.id
              THEN DirtyColumns(i, request[c].read, request[c].row) ELSE i
      BY <2>1, <2>5, RowWritten
    <3>2. QED
      BY <2>2, <2>3, <3>1 DEF Wanted, DirtyColumns, Integration
  <2>6. QED
    BY <2>1, <2>4, <2>5, WriteOrFail
<1>2. QED
  BY <1>1, OrdersInvariant, PTL DEF Spec, ColumnsKept

\* New credentials that are committed leave the integration ACTIVE, but for a status committed
\* since the call read the row.
THEOREM ReplacementsActivate == Spec => ReplacementActivates
<1> DEFINE Activates(c, i, j) ==
      (Writes(c, "replace") /\ i.id = request[c].read.id /\ i.id = j.id /\ j.credentials = {c}) =>
        j.status = "ACTIVE" \/ i.status # request[c].read.status
<1>1. IInv /\ [Next]_vars => \A c \in Calls, i \in integrations, j \in integrations' :
                               Activates(c, i, j)
  <2>1. SUFFICES ASSUME IInv, [Next]_vars, NEW c \in Calls, NEW i \in integrations,
                        NEW j \in integrations', request[c].kind = "replace", pc[c] = "write",
                        pc'[c] = "done", i.id = request[c].read.id, i.id = j.id,
                        j.credentials = {c}, i.status = request[c].read.status
                 PROVE  j.status = "ACTIVE"
    BY DEF Writes
  <2>2. i \in Integration
    BY <2>1, StateTypes DEF IInv
  <2>3. Wanted(c)
    BY <2>1, ChangeFacts
  <2>4. CASE integrations' = integrations
    <3>1. pc[c] = "done"
      BY <2>1, <2>4 DEF IInv, NamesInv
    <3>2. QED
      BY <2>1, <3>1
  <2>5. CASE WriteIntegration(c)
    <3>1. j = DirtyColumns(i, request[c].read, request[c].row)
      BY <2>1, <2>5, RowWritten
    <3>2. QED
      BY <2>1, <2>2, <2>3, <3>1 DEF Wanted, DirtyColumns, Integration
  <2>6. QED
    BY <2>1, <2>4, <2>5, WriteOrFail
<1>2. QED
  BY <1>1, OrdersInvariant, PTL DEF Spec, ReplacementActivates

-----------------------------------------------------------------------------
(* The contract: what each session will commit *)

\* The mock integration a sync inserts when it finds none.
OwnMock(c) ==
  [id |-> c, provider |-> request[c].marketplace, mock |-> TRUE, status |-> "ACTIVE",
   credentials |-> {}]

\* What a call will commit, as its contract has it: a sync account and order together or
\* neither, hung on its own integration if it has inserted one; a change the columns of its
\* request over those it read.
Planned(c) ==
  LET rows == new[c] IN
  /\ request[c].kind = "sync" =>
       /\ rows.integrations \subseteq {OwnMock(c)}
       /\ pc[c] = "insert_account" /\ rows.integrations # {} => request[c].integration = {c}
       /\ pc[c] \in {"find_order", "insert_order", "commit"} /\ rows.accounts = {} =>
            rows.integrations = {} /\ Of(accounts, request[c].marketplace) # {}
       /\ pc[c] = "insert_order" => rows.accounts # {}
       /\ pc[c] = "commit" => (rows.accounts = {} <=> rows.orders = {})
       /\ \A a \in rows.accounts : a.id = c /\ (rows.integrations # {} => a.integration = c)
  /\ request[c].kind = "create" =>
       \A i \in rows.integrations :
         i.status = IF i.credentials = {} THEN "DISCONNECTED" ELSE "ACTIVE"
  /\ request[c].kind = "update" =>
       request[c].row.status \in Settable \cup {request[c].read.status}
  /\ request[c].kind = "replace" => c \notin request[c].read.credentials

\* An order is never there without the account of its marketplace; accounts and notes, too,
\* bear the names of calls that have ended.
TwinsInv ==
  /\ \A o \in orders : Of(accounts, o.marketplace) # {}
  /\ \A a \in accounts : pc[a.id] = "done"
  /\ \A n \in notes : pc[n.id] = "done"

PlansInv == TwinsInv /\ \A c \in Calls : Planned(c)

\* The plan of a call does not depend on what others commit.
LEMMA PlanStays ==
  ASSUME NEW k \in Calls, Planned(k), accounts \subseteq accounts',
         pc'[k] = pc[k], request'[k] = request[k], new'[k] = new[k]
  PROVE  Planned(k)'
BY DEF Planned, OwnMock, Of

\* Call c goes on, or begins, and no row is committed.
LEMMA PrivatePlans ==
  ASSUME IInv, PlansInv, NEW c \in Calls, NEW s, NEW r, NEW rows, pc[c] # "done",
         pc' = [pc EXCEPT ![c] = s], request' = [request EXCEPT ![c] = r],
         new' = [new EXCEPT ![c] = rows], UNCHANGED tables, Planned(c)'
  PROVE  PlansInv'
<1>1. /\ pc \in [Calls -> Places] /\ request \in [Calls -> Request] /\ new \in [Calls -> Rows]
      /\ accounts \subseteq Account /\ notes \subseteq ReturnNote
  BY StateTypes DEF IInv
<1>2. ASSUME NEW k \in Calls \ {c} PROVE Planned(k)'
  BY <1>1, PlanStays DEF PlansInv, tables
<1>3. TwinsInv'
  BY <1>1 DEF PlansInv, TwinsInv, Of, tables, Account, ReturnNote
<1>4. QED
  BY <1>2, <1>3 DEF PlansInv

\* Call c ends, and the rows that are added bear its name.
LEMMA ClosingPlans ==
  ASSUME IInv, PlansInv, NEW c \in Calls, Close(c), accounts \subseteq accounts',
         \A a \in accounts' : a \in accounts \/ a.id = c,
         \A n \in notes' : n \in notes \/ n.id = c,
         \A o \in orders' : Of(accounts', o.marketplace) # {}
  PROVE  PlansInv'
<1>1. /\ pc \in [Calls -> Places] /\ request \in [Calls -> Request] /\ new \in [Calls -> Rows]
      /\ accounts \subseteq Account /\ notes \subseteq ReturnNote
  BY StateTypes DEF IInv
<1>2. /\ pc'[c] = "done" /\ request'[c].kind = "none"
      /\ \A k \in Calls \ {c} : pc'[k] = pc[k] /\ request'[k] = request[k] /\ new'[k] = new[k]
  BY <1>1 DEF Close, NoRequest
<1>3. Planned(c)'
  BY <1>2 DEF Planned
<1>4. ASSUME NEW k \in Calls \ {c} PROVE Planned(k)'
  BY <1>2, PlanStays DEF PlansInv
<1>5. TwinsInv'
  BY <1>1, <1>2 DEF PlansInv, TwinsInv, Account, ReturnNote
<1>6. QED
  BY <1>3, <1>4, <1>5 DEF PlansInv

\* A call ends without a commit.
LEMMA EndPlans ==
  ASSUME IInv, PlansInv, NEW c \in Calls, Close(c), UNCHANGED <<accounts, orders, notes>>
  PROVE  PlansInv'
BY ClosingPlans DEF PlansInv, TwinsInv

\* A call begins.
LEMMA StartPlans ==
  ASSUME IInv, PlansInv, NEW c \in Calls, Start(c)
  PROVE  PlansInv'
<1>1. /\ pc \in [Calls -> Places] /\ request \in [Calls -> Request] /\ new \in [Calls -> Rows]
      /\ pc[c] \in {"idle", "done"} => new[c] = NoRows
      /\ integrations \subseteq Integration
  BY CallFacts, StateTypes DEF IInv
<1>2. new = [new EXCEPT ![c] = new[c]]
  BY <1>1
<1>3. ASSUME NEW asked, NEW statement, Begin(c, asked, statement)
      PROVE  /\ pc[c] = "idle" /\ pc' = [pc EXCEPT ![c] = statement] /\ UNCHANGED tables
             /\ request' = [request EXCEPT ![c] = asked]
             /\ pc'[c] = statement /\ request'[c] = asked
  BY <1>1, <1>3 DEF Begin, MayOpen
<1>4. CASE StartSync(c)
  <2>1. PICK m \in Marketplaces :
          /\ Begin(c, [kind |-> "sync", marketplace |-> m, integration |-> {}], "find_account")
          /\ UNCHANGED new
    BY <1>4 DEF StartSync
  <2>2. Planned(c)'
    BY <1>1, <1>3, <2>1 DEF Planned, NoRows
  <2>3. QED
    BY <1>2, <1>3, <2>1, <2>2, PrivatePlans
<1>5. CASE StartDraft(c)
  <2>1. PICK o \in orders :
          Begin(c, [kind |-> "draft", order |-> o.id], "find_note") /\ UNCHANGED new
    BY <1>5 DEF StartDraft
  <2>2. Planned(c)'
    BY <1>3, <2>1 DEF Planned
  <2>3. QED
    BY <1>2, <1>3, <2>1, <2>2, PrivatePlans
<1>6. CASE StartCreate(c)
  <2>1. PICK p \in Providers, mock \in BOOLEAN, credentials \in {{}, {c}} :
          /\ Begin(c, [kind |-> "create"], "commit")
          /\ new' = [new EXCEPT ![c].integrations =
                       {[id |-> c, provider |-> p, mock |-> mock, credentials |-> credentials,
                         status |-> IF credentials = {} THEN "DISCONNECTED" ELSE "ACTIVE"]}]
    BY <1>6 DEF StartCreate
  <2> DEFINE i == [id |-> c, provider |-> p, mock |-> mock, credentials |-> credentials,
                   status |-> IF credentials = {} THEN "DISCONNECTED" ELSE "ACTIVE"]
             rows == [new[c] EXCEPT !.integrations = {i}]
  <2>2. new' = [new EXCEPT ![c] = rows] /\ new'[c] = rows
    BY <1>1, <2>1
  <2>3. rows.integrations = {i}
    BY <1>1 DEF Rows
  <2>4. i.status = IF i.credentials = {} THEN "DISCONNECTED" ELSE "ACTIVE"
    OBVIOUS
  <2> HIDE DEF i, rows
  <2>5. Planned(c)'
    BY <1>3, <2>1, <2>2, <2>3, <2>4 DEF Planned
  <2>6. QED
    BY <1>3, <2>1, <2>2, <2>5, PrivatePlans
<1>7. CASE StartUpdate(c)
  <2>1. PICK i \in integrations : \E status \in Settable \cup {i.status}, mock \in BOOLEAN :
          /\ Begin(c, [kind |-> "update", read |-> i,
                       row |-> [i EXCEPT !.status = status, !.mock = mock]], "write")
          /\ UNCHANGED new
    BY <1>7 DEF StartUpdate
  <2>2. PICK status \in Settable \cup {i.status}, mock \in BOOLEAN :
          /\ Begin(c, [kind |-> "update", read |-> i,
                       row |-> [i EXCEPT !.status = status, !.mock = mock]], "write")
          /\ UNCHANGED new
    BY <2>1
  <2> DEFINE row == [i EXCEPT !.status = status, !.mock = mock]
             asked == [kind |-> "update", read |-> i, row |-> row]
  <2>3. row.status \in Settable \cup {i.status}
    BY <1>1 DEF Integration
  <2> HIDE DEF row
  <2>4. Planned(c)'
    <3>1. asked.kind = "update" /\ asked.row.status \in Settable \cup {asked.read.status}
      BY <2>3
    <3>2. request'[c] = asked
      BY <1>3, <2>2 DEF row
    <3> HIDE DEF asked
    <3>3. QED
      BY <3>1, <3>2 DEF Planned
  <2>5. QED
    BY <1>2, <1>3, <2>2, <2>4, PrivatePlans
<1>8. CASE StartReplace(c)
  <2>1. PICK i \in integrations :
          /\ Begin(c, [kind |-> "replace", read |-> i,
                       row |-> [i EXCEPT !.credentials = {c}, !.status = "ACTIVE"]], "write")
          /\ UNCHANGED new
    BY <1>8 DEF StartReplace
  <2>2. c \notin i.credentials
    BY <1>3, <2>1 DEF IInv, NamesInv
  <2>3. Planned(c)'
    BY <1>3, <2>1, <2>2 DEF Planned
  <2>4. QED
    BY <1>2, <1>3, <2>1, <2>3, PrivatePlans
<1>9. QED
  BY <1>4, <1>5, <1>6, <1>7, <1>8 DEF Start

\* A statement of a sync.
LEMMA SyncPlans ==
  ASSUME IInv, PlansInv, NEW c \in Calls,
         FindAccount(c) \/ EnsureIntegration(c) \/ InsertAccount(c) \/ FindOrder(c) \/ InsertOrder(c)
  PROVE  PlansInv'
<1> DEFINE m == request[c].marketplace
<1>1. pc[c] \in Syncing
  BY DEF FindAccount, EnsureIntegration, InsertAccount, FindOrder, InsertOrder, Syncing
<1>2. /\ request[c].kind = "sync" /\ SyncRows(c) /\ Fresh(c, new[c]) /\ Planned(c)
      /\ m \in Marketplaces
      /\ request[c] \in Request /\ new[c] \in Rows
      /\ pc \in [Calls -> Places] /\ request \in [Calls -> Request] /\ new \in [Calls -> Rows]
  BY <1>1, SyncFacts DEF PlansInv
<1>3. request = [request EXCEPT ![c] = request[c]] /\ new = [new EXCEPT ![c] = new[c]]
  BY <1>2
<1>4. CASE FindAccount(c)
  <2>1. /\ pc[c] = "find_account" /\ UNCHANGED <<tables, request, new>>
        /\ pc' = [pc EXCEPT ![c] = IF Of(accounts, m) # {} THEN "find_order" ELSE "ensure_integration"]
    BY <1>4 DEF FindAccount, Goto
  <2>2. new[c].integrations = {} /\ new[c].accounts = {} /\ new[c].orders = {}
    BY <1>2, <2>1 DEF SyncRows
  <2>3. Planned(c)'
    BY <1>2, <2>1, <2>2 DEF Planned, tables
  <2>4. QED
    BY <1>3, <2>1, <2>3, PrivatePlans
<1>5. CASE EnsureIntegration(c)
  <2> DEFINE found == MockIntegrations(m)
             rows == IF found = {} THEN [new[c] EXCEPT !.integrations = {OwnMock(c)}] ELSE new[c]
             r == [request[c] EXCEPT !.integration =
                     {i.id : i \in IF found = {} THEN {OwnMock(c)} ELSE found}]
  <2>1. /\ pc[c] = "ensure_integration" /\ UNCHANGED tables
        /\ pc' = [pc EXCEPT ![c] = "insert_account"]
        /\ request' = [request EXCEPT ![c] = r]
    BY <1>5 DEF EnsureIntegration, Goto, OwnMock
  <2>2. new' = [new EXCEPT ![c] = rows]
    <3>1. CASE found = {}
      BY <1>2, <1>5, <3>1 DEF EnsureIntegration, OwnMock
    <3>2. CASE found # {}
      BY <1>3, <1>5, <3>2 DEF EnsureIntegration
    <3>3. QED
      BY <3>1, <3>2
  <2>3. new[c].integrations = {} /\ new[c].accounts = {} /\ new[c].orders = {}
    BY <1>2, <2>1 DEF SyncRows
  <2>4. /\ rows.accounts = {} /\ rows.orders = {}
        /\ rows.integrations = IF found = {} THEN {OwnMock(c)} ELSE {}
    BY <1>2, <2>3 DEF Rows
  <2>5. request[c] \in [kind : {"sync"}, marketplace : Marketplaces,
                        integration : {{}} \cup {{k} : k \in Calls}]
    BY <1>2 DEF Request
  <2>6. /\ r.kind = "sync" /\ r.marketplace = m
        /\ r.integration = {i.id : i \in IF found = {} THEN {OwnMock(c)} ELSE found}
    BY <2>5
  <2>7. found = {} => r.integration = {c}
    BY <2>6 DEF OwnMock
  <2> HIDE DEF r, rows, found
  <2>8. pc'[c] = "insert_account" /\ request'[c] = r /\ new'[c] = rows
    BY <1>2, <2>1, <2>2
  <2>9. OwnMock(c)' = OwnMock(c)
    BY <2>6, <2>8 DEF OwnMock
  <2>10. Planned(c)'
    BY <2>4, <2>6, <2>7, <2>8, <2>9 DEF Planned
  <2>11. QED
    BY <2>1, <2>2, <2>10, PrivatePlans
<1>6. CASE InsertAccount(c)
  <2>1. PICK i \in request[c].integration :
          new' = [new EXCEPT ![c].accounts = {[id |-> c, marketplace |-> m, integration |-> i]}]
    BY <1>6 DEF InsertAccount
  <2> DEFINE a == [id |-> c, marketplace |-> m, integration |-> i]
             rows == [new[c] EXCEPT !.accounts = {a}]
  <2>2. /\ pc[c] = "insert_account" /\ UNCHANGED <<tables, request>>
        /\ pc' = [pc EXCEPT ![c] = "find_order"] /\ new' = [new EXCEPT ![c] = rows]
    BY <1>2, <1>6, <2>1 DEF InsertAccount, Goto
  <2>3. /\ rows.accounts = {a} /\ rows.integrations = new[c].integrations
        /\ rows.orders = new[c].orders /\ a.id = c /\ a.integration = i
    BY <1>2 DEF Rows
  <2>4. new[c].integrations # {} => i = c
    BY <1>2, <2>1, <2>2 DEF Planned
  <2> HIDE DEF a, rows
  <2>5. pc'[c] = "find_order" /\ request'[c] = request[c] /\ new'[c] = rows
    BY <1>2, <2>2
  <2>6. Planned(c)'
    BY <1>2, <2>3, <2>4, <2>5 DEF Planned, OwnMock
  <2>7. QED
    BY <1>3, <2>2, <2>6, PrivatePlans
<1>7. CASE FindOrder(c)
  <2>1. /\ pc[c] = "find_order" /\ UNCHANGED <<tables, request, new>>
        /\ pc' = [pc EXCEPT ![c] = IF Of(orders, m) # {} THEN "commit" ELSE "insert_order"]
    BY <1>7 DEF FindOrder, Goto
  <2>2. Of(orders, m) # {} <=> Of(accounts, m) # {}
    BY DEF PlansInv, TwinsInv, IInv, SyncIsAtomic, Of
  <2>3. new[c].accounts # {} => Of(accounts, m) = {}
    BY <1>2 DEF SyncRows, Fresh, Of
  <2>4. new[c].orders = {}
    BY <1>2, <2>1 DEF SyncRows
  <2>5. Planned(c)'
    BY <1>2, <2>1, <2>2, <2>3, <2>4 DEF Planned, OwnMock, tables
  <2>6. QED
    BY <1>3, <2>1, <2>5, PrivatePlans
<1>8. CASE InsertOrder(c)
  <2> DEFINE rows == [new[c] EXCEPT !.orders =
                        {[id |-> c, marketplace |-> m, status |-> "OPEN"]}]
  <2>1. /\ pc[c] = "insert_order" /\ UNCHANGED <<tables, request>>
        /\ pc' = [pc EXCEPT ![c] = "commit"] /\ new' = [new EXCEPT ![c] = rows]
    BY <1>2, <1>8 DEF InsertOrder, Goto
  <2>2. /\ rows.accounts = new[c].accounts /\ rows.integrations = new[c].integrations
        /\ rows.orders # {}
    BY <1>2 DEF Rows
  <2> HIDE DEF rows
  <2>3. pc'[c] = "commit" /\ request'[c] = request[c] /\ new'[c] = rows
    BY <1>2, <2>1
  <2>4. Planned(c)'
    BY <1>2, <2>1, <2>2, <2>3 DEF Planned, OwnMock
  <2>5. QED
    BY <1>3, <2>1, <2>4, PrivatePlans
<1>9. QED
  BY <1>4, <1>5, <1>6, <1>7, <1>8

\* A statement of a draft.
LEMMA DraftPlans ==
  ASSUME IInv, PlansInv, NEW c \in Calls, FindNote(c) \/ LinkOrder(c)
  PROVE  PlansInv'
<1>1. /\ pc \in [Calls -> Places] /\ request \in [Calls -> Request] /\ new \in [Calls -> Rows]
      /\ Session(c)
  BY CallFacts
<1>2. PICK s, rows : /\ pc' = [pc EXCEPT ![c] = s] /\ new' = [new EXCEPT ![c] = rows]
                     /\ pc[c] \in {"find_note", "link"} /\ UNCHANGED <<tables, request>>
  <2>1. CASE FindNote(c)
    <3>1. new' = [new EXCEPT ![c] = new[c]]
      BY <1>1, <2>1 DEF FindNote
    <3>2. QED
      BY <2>1, <3>1 DEF FindNote, Goto
  <2>2. CASE LinkOrder(c)
    <3>1. new' = [new EXCEPT ![c] = [new[c] EXCEPT !.notes =
                    {[id |-> c, order |-> request[c].order, status |-> "DRAFT"]}]]
      BY <1>1, <2>2 DEF LinkOrder
    <3>2. QED
      BY <2>2, <3>1 DEF LinkOrder, Goto
  <2>3. QED
    BY <2>1, <2>2
<1>3. request[c].kind = "draft" /\ request' = [request EXCEPT ![c] = request[c]]
  BY <1>1, <1>2 DEF Session
<1>4. Planned(c)'
  BY <1>1, <1>2, <1>3 DEF Planned
<1>5. QED
  BY <1>2, <1>3, <1>4, PrivatePlans

\* A sync adds the account with the order.
LEMMA CommitPlans ==
  ASSUME IInv, PlansInv, NEW c \in Calls, Commit(c)
  PROVE  PlansInv'
<1>1. /\ pc[c] = "commit" /\ Close(c)
      /\ accounts' = accounts \cup new[c].accounts
      /\ orders' = {[o EXCEPT !.status = StatusAfter(c, o)] : o \in orders} \cup new[c].orders
      /\ notes' = notes \cup new[c].notes
  BY DEF Commit
<1>2. Session(c) /\ Planned(c) /\ orders \subseteq ReturnOrder
  BY CallFacts, StateTypes DEF PlansInv, IInv
<1>3. \A n \in new[c].notes : n.id = c
  BY <1>1, CommittedRows
<1>4. /\ \A a \in new[c].accounts : a.id = c
      /\ \A o \in new[c].orders : \E a \in new[c].accounts : a.marketplace = o.marketplace
  <2>1. CASE request[c].kind = "sync"
    BY <1>1, <1>2, <2>1 DEF Planned, Session, SyncRows
  <2>2. CASE request[c].kind # "sync"
    BY <1>1, <1>2, <2>2 DEF Session, DraftRows, CreateRows, NoRows
  <2>3. QED
    BY <2>1, <2>2
<1>5. \A o \in orders : [o EXCEPT !.status = StatusAfter(c, o)].marketplace = o.marketplace
  BY <1>2 DEF ReturnOrder
<1>6. \A o \in orders' : Of(accounts', o.marketplace) # {}
  <2>1. \A o \in orders : Of(accounts', o.marketplace) # {}
    BY <1>1 DEF PlansInv, TwinsInv, Of
  <2>2. \A o \in new[c].orders : Of(accounts', o.marketplace) # {}
    BY <1>1, <1>4 DEF Of
  <2>3. \A o \in orders' : o \in new[c].orders \/ \E x \in orders : o.marketplace = x.marketplace
    BY <1>1, <1>5
  <2>4. QED
    BY <2>1, <2>2, <2>3
<1>7. QED
  BY <1>1, <1>3, <1>4, <1>6, ClosingPlans

\* The plans hold in every behaviour.
LEMMA PlansInvHolds == Spec => [](IInv /\ PlansInv)
<1>1. Init => PlansInv
  BY DEF Init, PlansInv, TwinsInv, Planned, NoRequest
<1>2. ASSUME IInv, PlansInv, [Next]_vars PROVE PlansInv'
  <2>1. CASE UNCHANGED vars
    <3>1. UNCHANGED <<pc, request, new>> /\ UNCHANGED <<accounts, orders, notes>>
      BY <2>1 DEF vars, tables
    <3>2. QED
      BY <1>2, <3>1, PlanStays DEF PlansInv, TwinsInv
  <2>2. ASSUME NEW c \in Calls, Start(c) PROVE PlansInv'
    BY <1>2, <2>2, StartPlans
  <2>3. ASSUME NEW c \in Calls, Refuse(c) \/ Fail(c) PROVE PlansInv'
    BY <1>2, <2>3, EndPlans DEF Refuse, Fail, tables
  <2>4. ASSUME NEW c \in Calls, Continue(c) PROVE PlansInv'
    BY <1>2, <2>4, SyncPlans, DraftPlans, EndPlans, CommitPlans
    DEF Continue, FailSync, RefuseDraft, WriteIntegration, tables
  <2>5. ASSUME NEW n \in notes, Emit(n) PROVE PlansInv'
    <3>1. PICK s : notes' = (notes \ {n}) \cup {[n EXCEPT !.status = s]}
      BY <2>5 DEF Emit
    <3>2. UNCHANGED <<accounts, orders, pc, request, new>> /\ n \in ReturnNote
      BY <1>2, <2>5, StateTypes DEF Emit, IInv
    <3>3. [n EXCEPT !.status = s].id = n.id
      BY <3>2 DEF ReturnNote
    <3>4. QED
      BY <1>2, <3>1, <3>2, <3>3, PlanStays DEF PlansInv, TwinsInv
  <2>6. QED
    BY <1>2, <2>1, <2>2, <2>3, <2>4, <2>5 DEF Next
<1>3. IInv /\ PlansInv /\ [Next]_vars => PlansInv'
  BY <1>2
<1>4. QED
  BY <1>1, <1>3, InitInv, NextInv, PTL DEF Spec

-----------------------------------------------------------------------------
(* The contract: every step is one of its steps or none *)

\* No committed row and no credentials bear the name of an open call.
LEMMA OpenIsUnused ==
  ASSUME IInv, PlansInv, NEW c \in Calls, pc[c] # "done"
  PROVE  Contract!Unused(c)
BY DEF Contract!Unused, IInv, NamesInv, PlansInv, TwinsInv

\* The commit of a sync is the contract's Sync, or nothing.
LEMMA SyncCommits ==
  ASSUME IInv, PlansInv, NEW c \in Calls, Commit(c), request[c].kind = "sync"
  PROVE  Contract!Next \/ UNCHANGED <<integrations, accounts, orders, notes>>
<1> DEFINE m == request[c].marketplace
<1>1. /\ Session(c) /\ Planned(c) /\ Fresh(c, new[c]) /\ pc[c] = "commit"
      /\ orders \subseteq ReturnOrder /\ new[c] \in Rows /\ m \in Marketplaces
  BY CallFacts, StateTypes DEF PlansInv, IInv, Commit, Request
<1>2. SyncRows(c)
  BY <1>1 DEF Session
<1>3. /\ integrations' = integrations \cup new[c].integrations
      /\ accounts' = accounts \cup new[c].accounts
      /\ orders' = orders \cup new[c].orders
      /\ notes' = notes
  <2>1. \A o \in orders : [o EXCEPT !.status = StatusAfter(c, o)] = o
    BY <1>1 DEF StatusAfter, ReturnOrder
  <2>2. {[o EXCEPT !.status = StatusAfter(c, o)] : o \in orders} = orders
    BY <2>1
  <2>3. QED
    BY <1>2, <2>2 DEF Commit, SyncRows
<1>4. CASE new[c].accounts = {}
  BY <1>1, <1>3, <1>4 DEF Planned
<1>5. CASE new[c].accounts # {}
  <2>1. PICK a \in new[c].accounts : TRUE
    BY <1>5
  <2>2. new[c].accounts = {a} /\ a.id = c /\ a.marketplace = m /\ Backed(c, a.integration)
    BY <1>1, <1>2, <2>1 DEF SyncRows, Planned
  <2>3. a = [id |-> c, marketplace |-> m, integration |-> a.integration]
    BY <1>1, <2>1, <2>2 DEF Rows, Account
  <2>4. new[c].orders = {[id |-> c, marketplace |-> m, status |-> "OPEN"]}
    BY <1>1, <1>2, <1>5 DEF Planned, SyncRows
  <2>5. \A r \in accounts \cup orders : r.marketplace # m
    <3>1. \A r \in accounts : r.marketplace # m
      BY <1>1, <2>1, <2>2 DEF Fresh
    <3>2. \A r \in orders : r.marketplace # m
      BY <1>1, <2>4 DEF Fresh
    <3>3. QED
      BY <3>1, <3>2
  <2>6. PICK i \in {x \in integrations : x.provider = m} \cup {OwnMock(c)} :
          /\ i.id = a.integration
          /\ integrations' = integrations \cup {i}
    <3>1. CASE new[c].integrations = {}
      BY <1>3, <2>2, <3>1 DEF Backed
    <3>2. CASE new[c].integrations # {}
      <4>1. new[c].integrations = {OwnMock(c)} /\ a.integration = c
        BY <1>1, <2>1, <3>2 DEF Planned
      <4>2. QED
        BY <1>3, <4>1 DEF OwnMock
    <3>3. QED
      BY <3>1, <3>2
  <2>7. accounts' = accounts \cup {[id |-> c, marketplace |-> m, integration |-> i.id]}
    BY <1>3, <2>2, <2>3, <2>6
  <2>8. Contract!Unused(c)
    BY <1>1, OpenIsUnused
  <2>9. Contract!Sync(c, m)
    BY <1>3, <2>4, <2>5, <2>6, <2>7, <2>8 DEF Contract!Sync, OwnMock
  <2>10. QED
    BY <1>1, <2>9 DEF Contract!Next
<1>6. QED
  BY <1>4, <1>5

\* The commit of a draft is the contract's Draft: one of at most MaxOpen.
LEMMA DraftCommits ==
  ASSUME IInv, PlansInv, NEW c \in Calls, Commit(c), request[c].kind = "draft"
  PROVE  Contract!Next
<1>1. /\ Session(c) /\ CountInv /\ pc[c] = "commit" /\ orders \subseteq ReturnOrder
      /\ new[c].notes = {[id |-> c, order |-> request[c].order, status |-> "DRAFT"]}
      /\ new[c].orders = {} /\ request[c].order \in Calls
  BY CallFacts, CommittedRows, StateTypes DEF Commit, IInv
<1>2. PICK o \in orders : o.id = request[c].order
  BY <1>1, CommittedRows
<1>3. new[c].integrations = {} /\ new[c].accounts = {}
  BY <1>1 DEF Session, DraftRows, NoRows
<1> DEFINE Linked(x) == IF x.id = o.id THEN [x EXCEPT !.status = "LINKED_TO_NFE"] ELSE x
<1>4. \A x \in orders : [x EXCEPT !.status = StatusAfter(c, x)] = Linked(x)
  BY <1>1, <1>2 DEF StatusAfter, ReturnOrder
<1>5. /\ orders' = {Linked(x) : x \in orders}
      /\ notes' = notes \cup {[id |-> c, order |-> o.id, status |-> "DRAFT"]}
      /\ UNCHANGED <<integrations, accounts>>
  <2> DEFINE After(x) == [x EXCEPT !.status = StatusAfter(c, x)]
  <2>1. /\ orders' = {After(x) : x \in orders} /\ notes' = notes \cup new[c].notes
        /\ UNCHANGED <<integrations, accounts>>
    BY <1>1, <1>3 DEF Commit
  <2>2. \A x \in orders : After(x) = Linked(x)
    BY <1>4
  <2> HIDE DEF After, Linked
  <2>3. QED
    BY <1>1, <1>2, <2>1, <2>2
<1>6. Few({n \in notes : n.order = o.id})
  <2>1. c \in Drafting(o.id)
    BY <1>1, <1>2 DEF Drafting
  <2>2. /\ IsFiniteSet(Drafting(o.id)) /\ Cardinality(Drafting(o.id)) \in Nat
        /\ Cardinality(NotesOf(o.id)) \in Nat
        /\ Cardinality(NotesOf(o.id)) + Cardinality(Drafting(o.id)) <= MaxOpen
    BY <1>1, <1>2, CountedAreFinite DEF CountInv
  <2>3. Cardinality(Drafting(o.id)) # 0
    BY <2>1, <2>2, FS_EmptySet
  <2>4. Cardinality(NotesOf(o.id)) < MaxOpen
    BY <2>2, <2>3, ReturnOrdersAssumption
  <2>5. QED
    BY <2>4 DEF NotesOf, Few
<1>7. Contract!Unused(c)
  BY <1>1, OpenIsUnused
<1>8. Contract!Draft(c, o)
  <2> HIDE DEF Linked
  <2>1. orders' = {IF x.id = o.id THEN [x EXCEPT !.status = "LINKED_TO_NFE"] ELSE x : x \in orders}
    BY <1>5 DEF Linked
  <2>3. QED
    BY <1>5, <1>6, <1>7, <2>1 DEF Contract!Draft
<1>9. QED
  BY <1>8 DEF Contract!Next

LEMMA CreateCommits ==
  ASSUME IInv, PlansInv, NEW c \in Calls, Commit(c), request[c].kind = "create"
  PROVE  Contract!Next
<1>1. /\ Session(c) /\ Planned(c) /\ pc[c] = "commit" /\ orders \subseteq ReturnOrder
  BY CallFacts, StateTypes DEF PlansInv, IInv, Commit
<1>2. PICK i \in Integration : /\ i.id = c /\ i.credentials \subseteq {c}
                               /\ new[c] = [NoRows EXCEPT !.integrations = {i}]
  BY <1>1 DEF Session, CreateRows
<1>3. /\ new[c].integrations = {i} /\ new[c].accounts = {} /\ new[c].orders = {}
      /\ new[c].notes = {}
  BY <1>2 DEF NoRows
<1>4. \A o \in orders : [o EXCEPT !.status = StatusAfter(c, o)] = o
  BY <1>1 DEF StatusAfter, ReturnOrder
<1>5. integrations' = integrations \cup {i} /\ UNCHANGED <<accounts, orders, notes>>
  BY <1>3, <1>4 DEF Commit
<1>6. /\ i.provider \in Providers /\ i.mock \in BOOLEAN /\ i.credentials \in {{}, {c}}
      /\ i.status = IF i.credentials = {} THEN "DISCONNECTED" ELSE "ACTIVE"
  BY <1>1, <1>2, <1>3 DEF Planned, Integration
<1>7. i = [id |-> c, provider |-> i.provider, mock |-> i.mock, credentials |-> i.credentials,
           status |-> IF i.credentials = {} THEN "DISCONNECTED" ELSE "ACTIVE"]
  BY <1>2, <1>6 DEF Integration
<1>8. Contract!Unused(c)
  BY <1>1, OpenIsUnused
<1>9. Contract!Create(c)
  BY <1>5, <1>6, <1>7, <1>8 DEF Contract!Create
<1>10. QED
  BY <1>9 DEF Contract!Next

\* A write is the contract's Update or Replace of the row as it now is.
LEMMA WriteIsContract ==
  ASSUME IInv, PlansInv, NEW c \in Calls, WriteIntegration(c)
  PROVE  Contract!Next \/ UNCHANGED <<integrations, accounts, orders, notes>>
<1> DEFINE read == request[c].read
           row == request[c].row
<1>1. /\ pc[c] = "write" /\ UNCHANGED <<accounts, orders, notes>>
      /\ integrations' =
           {IF i.id = read.id THEN DirtyColumns(i, read, row) ELSE i : i \in integrations}
  BY DEF WriteIntegration
<1>2. /\ request[c].kind \in {"update", "replace"} /\ Planned(c)
      /\ integrations \subseteq Integration
  BY <1>1, CallFacts, StateTypes DEF Session, PlansInv, IInv
<1>3. Wanted(c) /\ read \in Integration /\ row \in Integration
  BY <1>2, ChangeFacts
<1>4. CASE \A i \in integrations : i.id # read.id
  BY <1>1, <1>4
<1>5. ASSUME NEW i \in integrations, i.id = read.id
      PROVE  Contract!Next
  <2> DEFINE written == DirtyColumns(i, read, row)
  <2>1. integrations' = (integrations \ {i}) \cup {written}
    <3>1. \A x \in integrations : x.id = read.id <=> x = i
      BY <1>5 DEF IInv, NamesInv
    <3> HIDE DEF written, read, row
    <3>2. QED
      BY <1>1, <1>5, <3>1 DEF written
  <2>2. i \in Integration
    BY <1>2
  <2>3. CASE request[c].kind = "update"
    <3>1. row.credentials = read.credentials /\ row.status \in Settable \cup {read.status}
      BY <1>2, <1>3, <2>3 DEF Planned, Wanted
    <3>2. PICK status \in Settable \cup {i.status}, mock \in BOOLEAN :
            written = [i EXCEPT !.status = status, !.mock = mock]
      <4> DEFINE status == IF row.status # read.status THEN row.status ELSE i.status
                 mock == IF row.mock # read.mock THEN row.mock ELSE i.mock
      <4>1. status \in Settable \cup {i.status} /\ mock \in BOOLEAN
        BY <1>3, <2>2, <3>1 DEF Integration
      <4>2. written = [i EXCEPT !.status = status, !.mock = mock]
        BY <2>2, <3>1 DEF DirtyColumns, Integration
      <4> HIDE DEF status, mock, written
      <4>3. QED
        BY <4>1, <4>2
    <3>3. Contract!Update(i)
      BY <1>1, <2>1, <3>2 DEF Contract!Update
    <3>4. QED
      BY <3>3 DEF Contract!Next
  <2>4. CASE request[c].kind = "replace"
    <3>1. /\ row.credentials = {c} /\ row.status = "ACTIVE" /\ row.mock = read.mock
          /\ row.credentials # read.credentials
      BY <1>2, <1>3, <2>4 DEF Planned, Wanted
    <3>2. PICK status \in {"ACTIVE", i.status} :
            written = [i EXCEPT !.status = status, !.credentials = {c}]
      <4> DEFINE status == IF row.status # read.status THEN row.status ELSE i.status
      <4>1. status \in {"ACTIVE", i.status}
        BY <3>1
      <4>2. written = [i EXCEPT !.status = status, !.credentials = {c}]
        BY <2>2, <3>1 DEF DirtyColumns, Integration
      <4> HIDE DEF status, written
      <4>3. QED
        BY <4>1, <4>2
    <3>3. Contract!Unused(c)
      BY <1>1, OpenIsUnused
    <3>4. Contract!Replace(c, i)
      BY <1>1, <2>1, <3>2, <3>3 DEF Contract!Replace
    <3>5. QED
      BY <3>4 DEF Contract!Next
  <2>5. QED
    BY <1>2, <2>3, <2>4
<1>6. QED
  BY <1>4, <1>5

\* However many calls overlap, each that succeeds takes effect at one instant: a sync adds account
\* and order together, a change keeps what others have changed since it read the row, and of the
\* drafts of an order at most MaxOpen get through.
THEOREM OrdersImplementContract == Spec => ImplementsContract
<1>1. Init => Contract!Init
  BY DEF Init, Contract!Init
<1>2. ASSUME IInv, PlansInv, [Next]_vars
      PROVE  [Contract!Next]_(Contract!contract)
  <2>1. SUFFICES Contract!Next \/ UNCHANGED <<integrations, accounts, orders, notes>>
    BY DEF Contract!contract
  <2>2. ASSUME NEW c \in Calls, Continue(c)
        PROVE  Contract!Next \/ UNCHANGED <<integrations, accounts, orders, notes>>
    <3>1. CASE Commit(c)
      <4>1. request[c].kind \in {"sync", "draft", "create"}
        BY <1>2, <3>1, CallFacts DEF Commit, Session
      <4>2. QED
        BY <1>2, <3>1, <4>1, SyncCommits, DraftCommits, CreateCommits
    <3>2. CASE WriteIntegration(c)
      BY <1>2, <3>2, WriteIsContract
    <3>3. CASE \/ FindAccount(c) \/ EnsureIntegration(c) \/ InsertAccount(c) \/ FindOrder(c)
               \/ InsertOrder(c) \/ FailSync(c) \/ FindNote(c) \/ RefuseDraft(c) \/ LinkOrder(c)
      BY <3>3 DEF FindAccount, EnsureIntegration, InsertAccount, FindOrder, InsertOrder, FailSync,
         FindNote, RefuseDraft, LinkOrder, Goto, tables
    <3>4. QED
      BY <2>2, <3>1, <3>2, <3>3 DEF Continue
  <2>3. ASSUME NEW n \in notes, Emit(n)
        PROVE  Contract!Next
    <3>1. Contract!Emit(n)
      BY <2>3 DEF Emit, Contract!Emit
    <3>2. QED
      BY <3>1 DEF Contract!Next
  <2>4. ASSUME NEW c \in Calls, Start(c) \/ Refuse(c) \/ Fail(c)
        PROVE  UNCHANGED <<integrations, accounts, orders, notes>>
    BY <2>4 DEF Start, StartSync, StartDraft, StartCreate, StartUpdate, StartReplace, Begin,
       Refuse, Fail, tables
  <2>5. CASE UNCHANGED vars
    BY <2>5 DEF vars, tables
  <2>6. QED
    BY <1>2, <2>2, <2>3, <2>4, <2>5 DEF Next
<1>3. IInv /\ PlansInv /\ [Next]_vars => [Contract!Next]_(Contract!contract)
  BY <1>2
<1>4. QED
  BY <1>1, <1>3, PlansInvHolds, PTL DEF Spec, ImplementsContract, Contract!Spec

=============================================================================
