----------------------------- MODULE ReturnOrders -----------------------------
(***************************************************************************)
(* The return orders of one company before emission: calls that sync the   *)
(* orders of a marketplace (mock), calls that draft a return note for an   *)
(* order, and the administration of the integrations a sync hangs its      *)
(* account on.                                                             *)
(*                                                                         *)
(* A call is one transaction (READ COMMITTED, no SELECT locks).  Its own   *)
(* inserts are invisible to the others until its commit; an insert that    *)
(* meets a unique key another open call has inserted waits for that call.  *)
(* A row is named by the call that inserted it.  Each marketplace mock     *)
(* knows one account and one order, always with the same payload, so an    *)
(* order a sync finds is skipped as it is.                                 *)
(***************************************************************************)
EXTENDS Naturals, FiniteSets

CONSTANTS
  Calls,         \* requests of the users of the company, each sent once
  Marketplaces,  \* "MERCADO_LIVRE", "SHOPEE"
  Settable,      \* bound: the statuses administrators set
  MaxOpen        \* bound: calls open at the same time

IntegrationStatuses == {"ACTIVE", "INVALID_TOKEN", "EXPIRED", "DISCONNECTED", "ERROR"}

ASSUME ReturnOrdersAssumption ==
  /\ IsFiniteSet(Calls)
  /\ "TINY" \notin Marketplaces
  /\ Settable \subseteq IntegrationStatuses
  /\ MaxOpen \in Nat \ {0}

Providers == Marketplaces \cup {"TINY"}
ACTIVE_RETURN_NOTE_STATUSES ==
  {"DRAFT", "READY_TO_EMIT", "QUEUED", "PROCESSING", "ISSUED", "FAILED"}

\* credentials: the call whose cipher the row holds, if any; mock: settings["mock"].
Integration ==
  [id : Calls, provider : Providers, mock : BOOLEAN, status : IntegrationStatuses,
   credentials : {{}} \cup {{c} : c \in Calls}]
Account == [id : Calls, marketplace : Marketplaces, integration : Calls]
ReturnOrder == [id : Calls, marketplace : Marketplaces, status : {"OPEN", "LINKED_TO_NFE"}]
ReturnNote == [id : Calls, order : Calls, status : ACTIVE_RETURN_NOTE_STATUSES]

\* What a call asks for.  A change of an integration holds the row as the session has read it
\* and as the request wants it: the UPDATE names the columns in which the two differ.
Request ==
  {[kind |-> "none"]}
    \cup [kind : {"sync"}, marketplace : Marketplaces, integration : {{}} \cup {{c} : c \in Calls}]
    \cup [kind : {"draft"}, order : Calls]
    \cup [kind : {"create"}]
    \cup [kind : {"update", "replace"}, read : Integration, row : Integration]

VARIABLES
  integrations, accounts, orders, notes,   \* the committed rows
  pc,        \* the next statement of each call
  request,   \* of each open call
  new        \* rows each open call has inserted

tables == <<integrations, accounts, orders, notes>>
vars == <<tables, pc, request, new>>

NoRequest == [kind |-> "none"]
NoRows == [integrations |-> {}, accounts |-> {}, orders |-> {}, notes |-> {}]

Init ==
  /\ integrations = {}
  /\ accounts = {}
  /\ orders = {}
  /\ notes = {}
  /\ pc = [c \in Calls |-> "idle"]
  /\ request = [c \in Calls |-> NoRequest]
  /\ new = [c \in Calls |-> NoRows]

-----------------------------------------------------------------------------
(* The beginning and the end of a call *)

Open == {c \in Calls : pc[c] \notin {"idle", "done"}}
MayOpen(c) == pc[c] = "idle" /\ Cardinality(Open) < MaxOpen

\* require_company_role has let the user through.
Begin(c, asked, statement) ==
  /\ MayOpen(c)
  /\ request' = [request EXCEPT ![c] = asked]
  /\ pc' = [pc EXCEPT ![c] = statement]
  /\ UNCHANGED tables

Close(c) ==
  /\ pc' = [pc EXCEPT ![c] = "done"]
  /\ request' = [request EXCEPT ![c] = NoRequest]
  /\ new' = [new EXCEPT ![c] = NoRows]

Goto(c, statement) == pc' = [pc EXCEPT ![c] = statement] /\ UNCHANGED tables

\* 403 or 404 of the role, 404 of the order or the integration, 422 of the payload, and the
\* 502 or 503 of a marketplace mock, which is asked before any row.
Refuse(c) == MayOpen(c) /\ Close(c) /\ UNCHANGED tables

\* A statement or the Tiny mock raises, or the process dies: the session rolls back.
Fail(c) == c \in Open /\ Close(c) /\ UNCHANGED tables

-----------------------------------------------------------------------------
(* sync_marketplace_returns *)

StartSync(c) ==
  \E m \in Marketplaces :
    /\ Begin(c, [kind |-> "sync", marketplace |-> m, integration |-> {}], "find_account")
    /\ UNCHANGED new

Of(rows, m) == {r \in rows : r.marketplace = m}
MockIntegrations(m) == {i \in integrations : i.provider = m /\ i.mock}

\* ensure_mock_marketplace_account: the SELECT of the account.
FindAccount(c) ==
  /\ pc[c] = "find_account"
  /\ Goto(c, IF Of(accounts, request[c].marketplace) # {}
             THEN "find_order" ELSE "ensure_integration")
  /\ UNCHANGED <<request, new>>

\* _ensure_mock_integration: no constraint is on integrations, so its insert meets nothing.
EnsureIntegration(c) ==
  LET m == request[c].marketplace
      fresh == [id |-> c, provider |-> m, mock |-> TRUE, status |-> "ACTIVE", credentials |-> {}]
      found == MockIntegrations(m)
  IN
  /\ pc[c] = "ensure_integration"
  /\ IF found = {}
     THEN new' = [new EXCEPT ![c].integrations = {fresh}]
     ELSE Cardinality(found) = 1 /\ UNCHANGED new
  /\ request' = [request EXCEPT ![c].integration =
                   {i.id : i \in IF found = {} THEN {fresh} ELSE found}]
  /\ Goto(c, "insert_account")

\* Mutated: the tables have no unique constraint.
NeverTaken(c) == FALSE

\* The key of the next insert of a sync is in a committed row: the constraint raises.
KeyTaken(c) ==
  \/ pc[c] = "insert_account" /\ Of(accounts, request[c].marketplace) # {}
  \/ pc[c] = "insert_order" /\ Of(orders, request[c].marketplace) # {}

\* No other open call has inserted that key: the insert need not wait.
KeyFree(c) ==
  \A k \in Open \ {c} :
    /\ pc[c] = "insert_account" => Of(new[k].accounts, request[c].marketplace) = {}
    /\ pc[c] = "insert_order" => Of(new[k].orders, request[c].marketplace) = {}

\* Mutated: the account is committed on its own.
InsertAccountAndCommit(c) ==
  /\ pc[c] = "insert_account"
  /\ ~KeyTaken(c) /\ KeyFree(c)
  /\ integrations' = integrations \cup new[c].integrations
  /\ \E i \in request[c].integration :
       accounts' = accounts \cup
         {[id |-> c, marketplace |-> request[c].marketplace, integration |-> i]}
  /\ new' = [new EXCEPT ![c] = NoRows]
  /\ pc' = [pc EXCEPT ![c] = "find_order"]
  /\ UNCHANGED <<orders, notes, request>>

InsertAccount(c) ==
  /\ pc[c] = "insert_account"
  /\ ~KeyTaken(c) /\ KeyFree(c)
  /\ \E i \in request[c].integration :
       new' = [new EXCEPT ![c].accounts =
                {[id |-> c, marketplace |-> request[c].marketplace, integration |-> i]}]
  /\ Goto(c, "find_order")
  /\ UNCHANGED request

\* An order that is there keeps its status and its key.
FindOrder(c) ==
  /\ pc[c] = "find_order"
  /\ Goto(c, IF Of(orders, request[c].marketplace) # {} THEN "commit" ELSE "insert_order")
  /\ UNCHANGED <<request, new>>

InsertOrder(c) ==
  /\ pc[c] = "insert_order"
  /\ ~KeyTaken(c) /\ KeyFree(c)
  /\ new' = [new EXCEPT ![c].orders =
               {[id |-> c, marketplace |-> request[c].marketplace, status |-> "OPEN"]}]
  /\ Goto(c, "commit")
  /\ UNCHANGED request

\* Mutated: the error of an insert is caught and the insert tried again.
FailSyncOnTwins(c) ==
  /\ pc[c] = "ensure_integration" /\ Cardinality(MockIntegrations(request[c].marketplace)) > 1
  /\ Close(c)
  /\ UNCHANGED tables

\* Two mock integrations of one provider, or a key another sync has committed: 500.
FailSync(c) ==
  /\ \/ pc[c] = "ensure_integration" /\ Cardinality(MockIntegrations(request[c].marketplace)) > 1
     \/ KeyTaken(c)
  /\ Close(c)
  /\ UNCHANGED tables

-----------------------------------------------------------------------------
(* create_mock_return_note *)

StartDraft(c) ==
  \E o \in orders :
    /\ Begin(c, [kind |-> "draft", order |-> o.id], "find_note")
    /\ UNCHANGED new

\* Mutated: a note whose emission failed no longer counts.
UnfailedNotes(o) == {n \in notes : n.order = o /\ n.status \in ACTIVE_RETURN_NOTE_STATUSES \ {"FAILED"}}

ActiveNotes(o) == {n \in notes : n.order = o /\ n.status \in ACTIVE_RETURN_NOTE_STATUSES}

\* get_active_by_return_order; the Tiny mock then answers with the key of the original invoice.
FindNote(c) ==
  /\ pc[c] = "find_note"
  /\ ActiveNotes(request[c].order) = {}
  /\ Goto(c, "link")
  /\ UNCHANGED <<request, new>>

\* 409 for one active note, 500 for more.
RefuseDraft(c) ==
  /\ pc[c] = "find_note"
  /\ ActiveNotes(request[c].order) # {}
  /\ Close(c)
  /\ UNCHANGED tables

Linking(o) == {k \in Open : request[k].kind = "draft" /\ request[k].order = o /\ pc[k] = "commit"}

\* The flush: the UPDATE of the order waits for another draft of it, then the note is inserted.
LinkOrder(c) ==
  /\ pc[c] = "link"
  /\ Linking(request[c].order) = {}
  /\ new' = [new EXCEPT ![c].notes = {[id |-> c, order |-> request[c].order, status |-> "DRAFT"]}]
  /\ Goto(c, "commit")
  /\ UNCHANGED request

-----------------------------------------------------------------------------
(* The administration of integrations *)

\* create_integration: ACTIVE with credentials, DISCONNECTED without.
StartCreate(c) ==
  \E p \in Providers, mock \in BOOLEAN, credentials \in {{}, {c}} :
    /\ Begin(c, [kind |-> "create"], "commit")
    /\ new' = [new EXCEPT ![c].integrations =
                 {[id |-> c, provider |-> p, mock |-> mock, credentials |-> credentials,
                   status |-> IF credentials = {} THEN "DISCONNECTED" ELSE "ACTIVE"]}]

\* update_integration; a field left out keeps the value that was read.
StartUpdate(c) ==
  \E i \in integrations : \E status \in Settable \cup {i.status}, mock \in BOOLEAN :
    /\ Begin(c, [kind |-> "update", read |-> i,
                 row |-> [i EXCEPT !.status = status, !.mock = mock]], "write")
    /\ UNCHANGED new

\* Mutated: new credentials leave the status to the next check of them.
StartReplaceOnly(c) ==
  \E i \in integrations :
    /\ Begin(c, [kind |-> "replace", read |-> i, row |-> [i EXCEPT !.credentials = {c}]], "write")
    /\ UNCHANGED new

\* replace_credentials.
StartReplace(c) ==
  \E i \in integrations :
    /\ Begin(c, [kind |-> "replace", read |-> i,
                 row |-> [i EXCEPT !.credentials = {c}, !.status = "ACTIVE"]], "write")
    /\ UNCHANGED new

\* Mutated: the UPDATE names every column.
FullRow(i, read, row) == row

\* The columns that differ from what was read go over the row as it now is.
DirtyColumns(i, read, row) ==
  [i EXCEPT !.status = IF row.status # read.status THEN row.status ELSE @,
            !.mock = IF row.mock # read.mock THEN row.mock ELSE @,
            !.credentials = IF row.credentials # read.credentials THEN row.credentials ELSE @]

\* The flush of the commit: nothing lies between the UPDATE and the commit.
WriteIntegration(c) ==
  /\ pc[c] = "write"
  /\ integrations' =
       {IF i.id = request[c].read.id THEN DirtyColumns(i, request[c].read, request[c].row) ELSE i :
          i \in integrations}
  /\ Close(c)
  /\ UNCHANGED <<accounts, orders, notes>>

-----------------------------------------------------------------------------
(* Commits, and the emission *)

\* Mutated: a sync resets the orders it finds.
LinkedUnlessSynced(c, o) ==
  CASE request[c].kind = "draft" /\ o.id = request[c].order -> "LINKED_TO_NFE"
    [] request[c].kind = "sync" /\ o.marketplace = request[c].marketplace -> "OPEN"
    [] OTHER -> o.status

\* Mutated: the order takes the status of the note.
StatusOfNote(c, o) ==
  IF request[c].kind = "draft" /\ o.id = request[c].order THEN "DRAFT" ELSE o.status

\* The status of an order after the commit: a draft links its own.
StatusAfter(c, o) ==
  IF request[c].kind = "draft" /\ o.id = request[c].order THEN "LINKED_TO_NFE" ELSE o.status

Commit(c) ==
  /\ pc[c] = "commit"
  /\ integrations' = integrations \cup new[c].integrations
  /\ accounts' = accounts \cup new[c].accounts
  /\ orders' = {[o EXCEPT !.status = StatusAfter(c, o)] : o \in orders} \cup new[c].orders
  /\ notes' = notes \cup new[c].notes
  /\ Close(c)

\* Module Emission: a note that is drafted goes on to be queued, and issued or failed.  Requests
\* and deliveries that overlap write any of these statuses over any other.
Emit(n) ==
  /\ n \in notes
  /\ \E s \in IF n.status = "DRAFT" THEN {"QUEUED"} ELSE {"QUEUED", "ISSUED", "FAILED"} :
       notes' = (notes \ {n}) \cup {[n EXCEPT !.status = s]}
  /\ UNCHANGED <<integrations, accounts, orders, pc, request, new>>

-----------------------------------------------------------------------------
Start(c) == StartSync(c) \/ StartDraft(c) \/ StartCreate(c) \/ StartUpdate(c) \/ StartReplace(c)

Continue(c) ==
  \/ FindAccount(c) \/ EnsureIntegration(c) \/ InsertAccount(c)
  \/ FindOrder(c) \/ InsertOrder(c) \/ FailSync(c)
  \/ FindNote(c) \/ RefuseDraft(c) \/ LinkOrder(c)
  \/ WriteIntegration(c)
  \/ Commit(c)

Next ==
  \/ \E c \in Calls : Start(c) \/ Refuse(c) \/ Continue(c) \/ Fail(c)
  \/ \E n \in notes : Emit(n)

Spec == Init /\ [][Next]_vars

-----------------------------------------------------------------------------
(* Properties *)

\* Rows, requests and sessions hold values of their kind.
TypeOK ==
  /\ integrations \subseteq Integration
  /\ accounts \subseteq Account
  /\ orders \subseteq ReturnOrder
  /\ notes \subseteq ReturnNote
  /\ pc \in [Calls -> {"idle", "find_account", "ensure_integration", "insert_account",
                        "find_order", "insert_order", "find_note", "link", "write", "commit",
                        "done"}]
  /\ request \in [Calls -> Request]
  /\ new \in [Calls -> [integrations : SUBSET Integration, accounts : SUBSET Account,
                        orders : SUBSET ReturnOrder, notes : SUBSET ReturnNote]]

\* However syncs overlap, a marketplace gets one account and one order: the SELECT before
\* each insert decides nothing, the constraints and the failing sync do.
SyncIsIdempotent ==
  \A m \in Marketplaces :
    Cardinality(Of(accounts, m)) <= 1 /\ Cardinality(Of(orders, m)) <= 1

\* An account is never there without its order and the integration it hangs on, whatever
\* fails: hence a sync that finds the account finds the order, and one that does not fails at
\* the account, so that the constraint of the orders never has to decide.
SyncIsAtomic ==
  \A a \in accounts :
    /\ Of(orders, a.marketplace) # {}
    /\ \E i \in integrations : i.id = a.integration /\ i.provider = a.marketplace

\* An order is LINKED_TO_NFE exactly while it has a note, whatever syncs and failing drafts do
\* around the draft.
LinkedHasNote ==
  \A o \in orders : o.status = "LINKED_TO_NFE" <=> \E n \in notes : n.order = o.id

\* Only drafts that were open together escape the check of the active note: an order has no
\* more notes than calls may overlap, whether its notes are issued or have failed.
DuplicatesOverlap ==
  \A o \in orders : Cardinality({n \in notes : n.order = o.id}) <= MaxOpen

\* Drafts in two transactions that overlap: an order has one active note.
OneActiveNote ==
  \A o \in orders : Cardinality(ActiveNotes(o.id)) <= 1

Writes(c, kind) == request[c].kind = kind /\ pc[c] = "write" /\ pc'[c] = "done"

\* An update that read a row before new credentials were committed does not bring the old ones
\* back, and new credentials do not undo settings committed in between.
ColumnsKept ==
  [][ \A c \in Calls, i \in integrations, j \in integrations' : i.id = j.id =>
        /\ Writes(c, "update") => j.credentials = i.credentials
        /\ Writes(c, "replace") => j.mock = i.mock ]_vars

\* New credentials leave the integration ACTIVE, unless its status has changed since the call
\* read it: ACTIVE then is no change, so that a concurrent INVALID_TOKEN stays.
ReplacementActivates ==
  [][ \A c \in Calls, i \in integrations, j \in integrations' :
        (Writes(c, "replace") /\ i.id = request[c].read.id /\ i.id = j.id
           /\ j.credentials = {c}) =>
          j.status = "ACTIVE" \/ i.status # request[c].read.status ]_vars

\* No ring of calls waits for keys and rows of each other: while a call is open, one can go on.
SomeCallGoesOn == Open # {} => \E c \in Open : ENABLED Continue(c)

\* However calls overlap, each that succeeds takes effect at one instant, its commit.
Few(S) == Cardinality(S) < MaxOpen
Contract == INSTANCE ReturnOrdersContract WITH Names <- Calls
ImplementsContract == Contract!Spec

=============================================================================
