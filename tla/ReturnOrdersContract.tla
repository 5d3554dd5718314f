------------------------- MODULE ReturnOrdersContract -------------------------
(***************************************************************************)
(* What return orders promise, however calls overlap: a call that succeeds *)
(* takes effect at one instant, on the rows as they then are; one that     *)
(* fails leaves nothing.  Only the check of the active note is weaker: it  *)
(* lets through as many drafts of an order as calls overlap.               *)
(***************************************************************************)
CONSTANTS
  Names,        \* the rows and credentials that calls may add
  Marketplaces, Providers,
  Settable,     \* the statuses administrators set
  Few(_)        \* whether fewer notes than calls that may overlap

VARIABLES integrations, accounts, orders, notes

contract == <<integrations, accounts, orders, notes>>

Init == integrations = {} /\ accounts = {} /\ orders = {} /\ notes = {}

Unused(id) ==
  /\ \A r \in integrations \cup accounts \cup orders \cup notes : r.id # id
  /\ \A i \in integrations : id \notin i.credentials

\* A first sync adds the account and the order together, on an integration that is there or its own.
Sync(id, m) ==
  /\ Unused(id)
  /\ \A r \in accounts \cup orders : r.marketplace # m
  /\ \E i \in {x \in integrations : x.provider = m} \cup
                {[id |-> id, provider |-> m, mock |-> TRUE, status |-> "ACTIVE", credentials |-> {}]} :
       /\ integrations' = integrations \cup {i}
       /\ accounts' = accounts \cup {[id |-> id, marketplace |-> m, integration |-> i.id]}
  /\ orders' = orders \cup {[id |-> id, marketplace |-> m, status |-> "OPEN"]}
  /\ UNCHANGED notes

Draft(id, o) ==
  /\ Unused(id)
  /\ Few({n \in notes : n.order = o.id})
  /\ notes' = notes \cup {[id |-> id, order |-> o.id, status |-> "DRAFT"]}
  /\ orders' = {IF x.id = o.id THEN [x EXCEPT !.status = "LINKED_TO_NFE"] ELSE x : x \in orders}
  /\ UNCHANGED <<integrations, accounts>>

Create(id) ==
  /\ Unused(id)
  /\ \E provider \in Providers, mock \in BOOLEAN, credentials \in {{}, {id}} :
       integrations' = integrations \cup
         {[id |-> id, provider |-> provider, mock |-> mock, credentials |-> credentials,
           status |-> IF credentials = {} THEN "DISCONNECTED" ELSE "ACTIVE"]}
  /\ UNCHANGED <<accounts, orders, notes>>

\* The credentials stay.
Update(i) ==
  /\ \E status \in Settable \cup {i.status}, mock \in BOOLEAN :
       integrations' = (integrations \ {i}) \cup {[i EXCEPT !.status = status, !.mock = mock]}
  /\ UNCHANGED <<accounts, orders, notes>>

\* The settings stay; so does the status when it has just been changed by another call.
Replace(id, i) ==
  /\ Unused(id)
  /\ \E status \in {"ACTIVE", i.status} :
       integrations' = (integrations \ {i}) \cup
         {[i EXCEPT !.status = status, !.credentials = {id}]}
  /\ UNCHANGED <<accounts, orders, notes>>

\* A draft can only be queued; after that emission writes its statuses in any order.
Emit(n) ==
  /\ \E s \in {"QUEUED", "ISSUED", "FAILED"} :
       /\ n.status = "DRAFT" => s = "QUEUED"
       /\ notes' = (notes \ {n}) \cup {[n EXCEPT !.status = s]}
  /\ UNCHANGED <<integrations, accounts, orders>>

Next ==
  \/ \E id \in Names :
       \/ \E m \in Marketplaces : Sync(id, m)
       \/ \E o \in orders : Draft(id, o)
       \/ Create(id)
       \/ \E i \in integrations : Replace(id, i)
  \/ \E i \in integrations : Update(i)
  \/ \E n \in notes : Emit(n)

Spec == Init /\ [][Next]_contract

=============================================================================
