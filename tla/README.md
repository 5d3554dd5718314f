# Formal model of the return-note system

TLA+ specifications, TLC configurations and TLAPS proofs for the backend of this
repository (FastAPI, PostgreSQL, Celery, APScheduler) and the session of its frontend.
Five subsystems are modelled and checked: who may act (registration, sessions, companies
and memberships), return orders with their drafts and integrations, batch emission of
return notes, retention of the documents that emission stores, and the session the browser
keeps. All five are also proved about: every safety property that a passing run checks is a
theorem for any value of the constants, but for one that speaks of `ENABLED`.

Paths below are relative to the repository; `app/` is `backend/app/`.

## 1. Inventory

| Component | State | Operations | Hard behaviours |
|---|---|---|---|
| Emission batches (`app/services/emissions.py`, `app/workers/tasks.py`) | `emission_batches`, `emission_jobs`, `return_notes.status`, key, error | `POST /emission-batches/mock`, Celery task `emissions.process_mock_batch` | unlocked read then write, redelivery (`task_acks_late`), crash between file and commit, row-lock cycles, stale ORM values |
| Fiscal document storage (`app/services/fiscal_documents.py`, `app/storage/local.py`) | `fiscal_documents`, `storage_archives`, files | `store_document`, listing, download | files are not in the database transaction |
| Retention (`app/services/retention.py`) | `storage_archives.status`, audit | a cycle over a company, by API or by the scheduler | overlapping cycles, old `now`, no `ORDER BY` |
| Retention scheduler (`app/jobs/scheduler.py`) | `retention_jobs`, APScheduler timer | a cycle every few minutes | job row committed first, error path after a rollback, swallowed exceptions |
| Audit log (`app/services/audit_logs.py`) | `audit_logs` | append, paged listing | must agree with the rows of the same commit |
| Return orders and mock sync (`app/services/return_orders.py`) | `return_orders`, items, `integrations` | sync of a marketplace | check then insert against unique constraints |
| Return note drafting (`app/services/return_notes.py`) | `return_notes` | draft for an order | check then insert with no constraint |
| Companies, memberships, roles (`app/services/companies.py`) | `companies`, `company_users` | create with its owner, add a member | check then insert, two inserts that belong together, role check in every handler |
| Authentication (`app/services/auth.py`, `app/core/security.py`) | `users`; tokens are stateless | register, login, refresh | check then insert, tokens made before the commit, two kinds of token under one key |
| Integrations and credentials (`app/services/integrations.py`) | `integrations` | create, update, replace encrypted credentials | a row written back after another call has changed it |
| Mock providers (`app/integrations/`) | none | pure answers | none |
| Frontend session (`frontend/components/auth-provider.tsx`) | tokens in browser storage, user, companies, selected company | bootstrap, login, logout, select, the form of a company and the refresh after it | answers that arrive after a logout or another login, a form that goes on with its old token |
| Frontend pages | form state | forms and tables | none of their own |
| Application shell (`app/main.py`, `app/db/session.py`) | engine, session per request | wiring, health | an uncommitted session rolls back |

How they interact: the API handlers, the Celery worker and the scheduler are separate
processes that share PostgreSQL and nothing else; every handler or task is one session
and, but for the scheduler's job row, one transaction. The emission task also writes to
the file storage. Drafting leaves `DRAFT` notes, emission takes them to `QUEUED` and then
`ISSUED` or `FAILED`, an issued note gets two documents with an `ACTIVE` archive each,
and retention takes the archives to `COLD` and `DELETED`. Nothing in the source enqueues
the Celery task when a batch is created: somebody else has to.

What makes each component correct:

- *Emission*: a note is in one batch, is issued once, has its documents when it is shown
  as issued, is never left `QUEUED` with nothing to process it; a batch and its jobs agree.
- *Storage*: a row has its file, the two documents of a note come together.
- *Retention*: nothing ages early, what has expired is deleted for good, and every change
  of status is in the audit log.
- *Scheduler*: the job row tells the outcome of the cycle.
- *Orders, drafting*: one order per external id, one active note per order.
- *Companies, authentication*: one company per document, one membership per user and
  company, every mutation guarded by the role table.
- *Frontend session*: tokens, user and companies belong to one login.

`PROJECT.json` lists the components with their sources, and the hazards, each at its
line, with the properties that would catch it.

## 2. Modules

| Module | What it is |
|---|---|
| `Emission` | both emission handlers, their rows, sessions, locks, files and failures; all properties |
| `EmissionContract` | abstract specification: queue drafts in one batch, finalise it once |
| `MCEmission` | TLC instance (symmetry) |
| `EmissionProofs` | the theorems about `Emission` with any overlap |
| `EmissionSerialProofs` | those with one transaction at a time, `EmissionContract` among them |
| `Retention` | cycles of the scheduler and of administrators over one company's archives, time |
| `RetentionContract` | abstract specification: a cycle applies the policy at one past instant |
| `MCRetention` | TLC instance |
| `RetentionProofs` | the theorems about `Retention` with any overlap |
| `RetentionSerialProofs` | those with one cycle at a time, `RetentionContract` among them |
| `ReturnOrders` | syncs, drafts and the administration of integrations of one company |
| `ReturnOrdersContract` | abstract specification: each call one step on the committed rows |
| `MCReturnOrders` | TLC instance (symmetry) |
| `ReturnOrdersProofs` | the theorems about `ReturnOrders`, its contract among them |
| `Access` | registration, login, refresh, the check of the access token, companies, grants |
| `AccessContract` | abstract specification: each call one step on the committed rows |
| `MCAccess` | TLC instance (symmetry) |
| `AccessProofs` | the theorems about `Access`, its contract among them |
| `FrontendSession` | `AuthProvider` in several tabs, their storage and the answers they wait for |
| `MCFrontendSession` | TLC instance |
| `FrontendSessionProofs` | the theorems about `FrontendSession` |
| `Waiting` | a lemma on finite sets that `EmissionProofs` and `RetentionProofs` apply to deadlocks |

How they fit together: `Access` says when a call may begin (`StartCreate` and `StartAdd`
check the token and the role as every protected handler does); the other backend modules
begin behind that check and keep its refusals (`Refuse`, `RefuseNotes`, `RefuseManual`).
`ReturnOrders` leaves `DRAFT` notes, of which `Emission` starts; its action `Emit` is what
the rest of it sees of `Emission`: a draft is queued, and from then on any of `QUEUED`, `ISSUED`
and `FAILED` may follow any other, as overlapping requests and deliveries overwrite each other. `Emission` stores the archives that `Retention` ages
(`StoreArchive`). `FrontendSession` sees of the backend that a request is answered with
what the user owns or fails.

### The database in the backend modules

A handler is a transaction under READ COMMITTED, PostgreSQL's default, which
`app/db/session.py` does not change. It is split at every statement whose result or effect
another transaction can tell apart:

- A SELECT reads committed rows and takes no lock; despite its name
  `list_return_notes_for_update` has no `FOR UPDATE`. What was read stays in the session
  (`seenNote`, `seenJob`, `ids`, `todo`) and may be stale when it is used.
- An UPDATE is sent at the flush, takes the row lock or waits, and becomes visible at
  the commit. The unit of work writes only the columns that differ from the value it
  loaded; `Dirty(seen, new, stored)` says so. This is why a delivery that believes a note
  `FAILED` leaves the message of a failure on it.
- A cycle of waiting transactions is broken by rolling one of them back (`Deadlocked`,
  `AbortDeadlocked`).
- An exception, a lost connection or a dead process ends a transaction without its
  writes (`Abort`, `FailCycle`); files already saved stay.

Rows a transaction has inserted or updated and not committed are represented by its
program counter and position, and computed at the commit from what it had read. This is
exact as no other session can see them. A row that is not there is `ABSENT` or `NONE`.

`ReturnOrders` and `Access` insert rows under unique keys, and there the rows of an open
call are state (`new`): an insert that meets a key in a committed row raises (`KeyTaken`,
`Raises`), one that meets a key in another open call's rows waits for its end (`KeyFree`,
`MayInsert`). Rows are named by the call that inserted them.

### Emission

| Code | Model |
|---|---|
| `return_notes`, `emission_batches`, `emission_jobs`, `fiscal_documents` with `storage_archives`, `audit_logs` | `note`, `batch`, `lot` and `job`, `docs`, `audit` |
| object storage | `objects` |
| `create_mock_batch` | `SelectNotes` or `RefuseNotes`, `InsertBatch` or `RefuseActive`, `QueueNote` for each note, `CommitRequest` |
| `process_batch` | `SelectBatch` or `RefuseBatch`, `SelectJobs`, `SelectJobNotes`, `StartBatch`, then for each job `SkipIssuedNote`, `FailNote`, or `IssueNote`, `StoreXml`, `StoreDanfe`, and `CommitBatch` |
| redelivery by the broker | another member of `Deliveries`, at any time, also while the first still runs |

`lot` is the order in which `list_jobs_by_batch_id` returns the jobs: they share one
`created_at`, so the random id decides and any order is possible. Indexes count from 1 in
the model. `Deliveries` may name any batch, in any scenario, also one that does not exist.
A response after the commit is left out. The content of the access key, of the documents
and of the messages is left out: `key` and `error` say whether they are there.

### Retention

| Code | Model |
|---|---|
| `storage_archives.status`, `retention_until`; `audit_logs`; latest `retention_jobs` row | `status`, `until`; `audit`; `job` |
| `_process_company_retention` | `StartScheduled`, then the steps of a cycle |
| `apply_company_retention_for_user` | `StartManual` or `RefuseManual`, then the steps of a cycle |
| `apply_company_retention` | `SelectForDeletion`, `WriteNext` for each, `SelectForCold`, `WriteNext` for each, `CommitCycle` |
| `store_document` | `StoreArchive` |
| `add_years` | `add_years`, over the calendar of `IsDate` |
| error path of the scheduler | `FailCycle`, which does not reach `mark_failed` (finding 3) |

Time is counted in days of a calendar whose years are `YearLength` days long and keep the
place of `LeapDay`, which is a date only in `LeapYears`. `add_years` moves a day by whole
years and falls back to the day before when `date.replace` would raise, forwards (the end of
retention) and backwards (the cutoffs). `coalesce` and `max_instances=1` are the single `Scheduler`
cycle that starts again when it has ended. A cycle writes over whatever another one
committed to the archive meanwhile, as the code does.

### Return orders

| Code | Model |
|---|---|
| `integrations`, `marketplace_accounts`, `return_orders`, `return_notes` | `integrations`, `accounts`, `orders`, `notes` |
| `sync_marketplace_returns` with `ensure_mock_marketplace_account` | `StartSync`, `FindAccount`, `EnsureIntegration`, `InsertAccount`, `FindOrder`, `InsertOrder`, `Commit`; `FailSync` for what raises |
| `create_mock_return_note` | `StartDraft`, `FindNote` or `RefuseDraft`, `LinkOrder`, `Commit` |
| `create_integration` | `StartCreate`, `Commit` |
| `update_integration`, `replace_credentials` | `StartUpdate` or `StartReplace`, `WriteIntegration` |
| `raise_for_mock_scenario`, roles, validation | `Refuse`, `Fail` |

A mock marketplace always answers with the same account and the same order, so one of each
stands for a marketplace, and the branch that updates an order that is there finds nothing
to change. A cipher is the call that made it: two never agree. An update or replacement
holds the row as its session has read it and writes the columns that differ
(`DirtyColumns`).

### Access

| Code | Model |
|---|---|
| `users`, `companies`, `company_users` | `users`, `companies`, `members` |
| tokens in the hands of clients | `tokens`; those of an open registration are `minted` |
| `register` | `StartRegister`, `Find` or `Conflict`, `InsertUser`, `Commit` |
| `login`, `refresh` | `StartLogin` or `StartRefresh`, `Issue` |
| `get_current_user`, `decode_token` | `CurrentUsers`, `Valid` |
| `create_company` | `StartCreate`, `Find` or `Conflict`, `InsertCompany`, `InsertOwner`, `Commit` |
| `add_company_user` | `StartAdd`, `Find` or `Conflict`, `InsertMember`, `Commit` |

Tokens are not stored by the server: a client keeps all it was ever given. No code disables
a user; `Disable` stands for an operator on the database, as every check of `users.status`
expects one. The companies and memberships of the model are `ACTIVE`, as no code changes
their status either.

### Frontend session

| Code | Model |
|---|---|
| `localStorage` (both tokens, active company) | `stored`, shared by all tabs |
| the `useState`s of `AuthProvider` | `page[t]` |
| a pending `Promise.all` of bootstrap or `setSession`, or `refreshCompanies` | an entry of `loads` |
| bootstrap on opening or reloading | `Open`, then answers, `Resolved` or `Rejected` |
| `setSession`, after login or registration | `Login`, then answers |
| `logout`, `selectCompany` | `Logout`, `SelectCompany`, behind `Shell` |
| `handleSubmit` of the companies page | `SubmitCompany`, which takes the token; `CreateCompany` by the server; `CompanyCreated`, its answer, after which `refreshCompanies` asks for the list with the token of the submit |
| leaving a page with a form under way | kind `left` (`Abandoned`): the server may create the company, nobody awaits it |
| an answer to `/auth/me`, to `/companies` | `AnswerMe` or `FailMe`; `ReadList` by the server, then `InstallList` or `FailList` |

`Promise.all` rejects with the first failure and leaves the other request running:
`InstallList` installs its list even then. Nothing in the code compares the token of a load with the tab's when an
answer arrives, so neither does the model: a logout or another login may come between any two
of its steps. Both tokens are always set together and are one
number, that of the login that brought them. `accounts`, `founders`, `out` and the field
`alone` of a load remember what the properties speak of.

## 3. Runs

| Run | Instance | What it shows |
|---|---|---|
| `emission_race` | 2 notes, 2 requests, 3 deliveries, 3 open at once | overlapping requests, deliveries and redeliveries with crashes and deadlocks: types; a `QUEUED` note has a `PENDING` job; an `ISSUED` note has its key, its two documents with files and its audit entry; a document row has its file and its twin; batch and jobs agree; `attempts` counts only audited starts; final batches and keys stay; every wait for a row can end |
| `emission_serial` | 3 notes, 3 requests, 3 deliveries, 1 open at once | without overlap, every step is a step of `EmissionContract`; one batch and one issue per note; final batches are kept |
| `emission_live` | 2 notes, 2 requests, 2 deliveries, 2 open at once, fairness | an open transaction ends: no row lock or deadlock keeps it |
| `emission_double_queue` | the same, no fairness | *violation*, finding 1 |
| `emission_reprocess` | 1 request, 2 deliveries, 2 open at once | *violation*, finding 2 |
| `retention_race` | 2 archives, the scheduler and 1 manual cycle, 2 open at once, 3 years of 2 days, fairness | nothing ages early, not even around a leap day; every status is audited; what has expired is `DELETED` in the end for good, although a late cycle may put `COLD` over `DELETED` in between |
| `retention_serial` | 2 archives, 2 manual cycles, 1 open at once, 4 years | without overlap a cycle applies the policy at one instant (`RetentionContract`) and the audit entries are the history of the archive |
| `retention_unrecorded` | 1 open at once | *violation*, finding 3 |
| `orders_race` | 4 calls of any kind, 2 marketplaces, 2 open at once | one account and one order for a marketplace however syncs overlap; an account has its order and its integration; an order is linked exactly when it has a note; only drafts that overlap duplicate a note, `FAILED` ones included; no ring of waiting calls; an update and a replacement of credentials keep each other's columns, and a replacement leaves the integration `ACTIVE` unless its status changed since it was read; every commit is a step of `ReturnOrdersContract` |
| `orders_duplicate` | 3 calls, 1 marketplace | *violation*, finding 4 |
| `access_race` | 3 calls of any kind, 3 at once, 2 registered users, 3 addresses, 2 documents, expiry | one user for an address, one company for a document, one membership for a user in a company; a company has its owner and tokens have their user whatever fails; grants come from administrators of the same company; a protected call needs a session no older than the life of an access token and a user still active; every commit is a step of `AccessContract` |
| `frontend_session` | 2 tabs, 2 users, 2 logins, 1 company, 3 loads, fairness | the stored tokens are those of the latest login or none; no late answer brings a session back to a tab that has logged out; the loading screen goes away; one load that nothing disturbs since it took its token (a refresh: since its form was sent) makes user, tokens, companies and active company agree again, whatever was mixed before |

Bounds, and why they are enough:

- *Two notes* in the races make batches with an even and an odd index, lock cycles in
  crossing orders, and lists in both orders. *Two requests* are the double queueing. *Three
  deliveries* are two on one batch and one on the other, or a first, a late and a repeated
  one on the same.
- `MaxOpen` bounds the overlap: 1 makes transactions serial, 3 lets a request overlap two
  deliveries. It is the constant that separates the `race` runs from the `serial` ones.
- Each request and delivery runs once; `attempts` is thereby bounded without a guard of
  its own. The emission system stops when all have ended (`Quiescent`), so deadlock is
  checked and any other stop is an error.
- A year has 2 days, the second of which exists in one year only (`LeapDay` 1, `LeapYears`
  {1}): every archive is stored on a leap day, one day or one year from it. `MaxTime` of 6
  with `ColdAfter` 1 and `DeleteAfter` 2 lets an archive expire, be deleted, and a cycle keep
  an old time; 8 in the serial run gives the policy a year more on either side of both cutoffs.
- `MaxFailures` bounds the exceptions of retention cycles: with failures for ever nothing
  would be deleted.

- *Four calls* to `ReturnOrders`, two of them at once, are a sync and what it needs before
  it, two overlapping drafts of its order with a sync around them, or an integration created
  and then changed by two calls; two marketplaces keep their syncs apart. `Settable` has two
  of the five statuses: one that says the integration works and one that does not, which is
  all the handlers tell apart.
- *Three calls* to `Access` are two that race and the one that made what they race for; two
  users are registered before, so that a third address is free and grants have a target, and
  `RefreshLife` exceeds `AccessLife` by the one unit that tells the tokens apart.
- *Two logins and three loads* in two tabs are a session, its reload or its company form, and
  another session while they are under way, in the same tab or in the other: a form that is
  answered in a tab that has logged out, or with another user, is among them. `MaxLoads` also
  bounds reloading: a user who reloads for ever never leaves the loading screen.
- Calls and requests that are never sent are behaviours as well, so that `orders_race`,
  `access_race` and `frontend_session` end in states without a successor: a deadlock is a
  normal end there, and `SomeCallGoesOn` says of `ReturnOrders` that it is never one of open
  calls. It is an invariant, not a liveness property, as the run uses symmetry.

Symmetry is used in runs without liveness only; no definition orders notes, requests,
deliveries, archives or manual cycles. `ImplementsContract` is checked under it as a
safety property whose contract treats them alike.

### Fairness

- *Emission*: weak fairness, for each transaction, of "it continues, or is aborted as
  part of a deadlock". The event loop resumes a granted call, and in a bounded instance no
  row is taken again and again by others. Nothing obliges anybody to open a transaction:
  no source line enqueues the task. Eventual issue of a note is therefore not stated.
- *Retention*: weak fairness of `StartScheduled`, as the interval trigger fires every few
  minutes as long as the process lives; strong fairness of each cycle's steps, as PostgreSQL
  grants a row to its waiters in turn while new cycles come again and again. Time, storing
  and API calls are driven by nobody. Two things are assumed: the scheduler process lives
  (the compose file has no restart policy for it), and not every cycle fails.

- *Frontend session*: weak fairness of each load's answers, as a fetch is answered or fails
  in the end. Users do nothing they need not do.

### Findings

1. `emissions.py:74`: the status and active-job checks do not lock, so two overlapping
   requests queue one note in two batches. The README of the repository (line 549) says that
   notas in an active batch are rejected.
2. `emissions.py:211`: the guard on final batches reads a row that may be stale when its
   lock is granted, so an overlapping delivery processes a finalised batch again. The test
   at `test_emission_batches_mock.py:541` says this is an error.
3. `scheduler.py:66`: after a failed statement the rollback has expired the job object, and
   reading `job.id` outside the greenlet raises, so `mark_failed` is never reached; the
   error is swallowed and the job stays `RUNNING`. Line 1204 of the README says that
   failures are recorded. `test_scheduler.py:189` does not see it: its service raises before
   a transaction has begun.
4. `return_notes.py:57`: the check for an active note does not lock and no constraint backs it,
   so two overlapping drafts give one order two notes, and every later draft of it fails with
   an error no route handles. Line 513 of the README says a duplicate is rejected.

Two more disagreements with the README are seen by reading and need no exploration:
`emissions.py:418` lets a batch of one note complete under `partial_failure` (only odd
indexes fail), unlike its line 606; `repositories/retention.py:25` deletes `ACTIVE` archives as
well, without `COLD` in between, unlike its line 690. The models do as the code does.

What the passing runs of the newer modules say is weaker than one might expect, because the
code is: `DuplicatesOverlap` rather than one note for an order, and `ReplacementActivates`
with its exception, as an `INVALID_TOKEN` committed meanwhile survives the new credentials.
In the browser, a bootstrap that fails late clears the session of a newer login, one that
succeeds late puts the older tokens back into its tab, and a list may be installed after a
logout. A company form that is answered after a logout or another login puts the companies of
the former user into the tab and its new company into the tab and the storage
(`companies/page.tsx:32`). `LoneLoadAgrees` says what repairs this: the next load that nothing
disturbs from the moment it takes its token. It promises nothing of a disturbed one.

Each passing property has a mutant, an operator defined next to the definition it
mutates and marked so, that stands for a plausible bug and that makes the property fail
in the same run.

## 4. Proofs

Eight modules prove theorems for every value of the constants: any sets of notes, calls,
archives, users or tabs, any policy, any bound.

Assumptions, one for each module, that TLC evaluates in every run:

- `EmissionAssumption`: `Notes` is finite, the identifiers of the different kinds are
  distinct, `MaxOpen` is positive.
- `RetentionAssumption`: `Archives` is finite, the scheduler is not an API call,
  `DeleteAfter > ColdAfter > 0` as `RetentionPolicy` has them, the bounds are numbers, and the
  leap day is not the first of its year.
- `ReturnOrdersAssumption`: `Calls` is finite, the invoice provider is no marketplace, the
  statuses that are set are among those of the code, `MaxOpen` is positive.
- `AccessAssumption`: `Calls` is finite, users registered before are named by their address
  and the others by their call, an access token lives shorter than a refresh token.
- `FrontendSessionAssumption`: `Tabs` is finite, `None` is no user, the bounds are numbers.

The theorems of the two `Serial` modules, and `SerialDraftsMakeOneNote`, have the hypothesis
`MaxOpen = 1` as well: nothing overlaps, while failures, crashes, redeliveries and time are as
free as before. Three of them are about properties that the violation runs refute with
`MaxOpen = 2`, so that they say what those findings are due to: the overlap and nothing else.

| Theorem | Says |
|---|---|
| **`Waiting`** | |
| `BlockedHasRing` | in a finite set each of whose members waits for a member, some wait for one another in a ring |
| **`EmissionProofs`** | |
| `TypeCorrect` | `Spec => []TypeOK` |
| `NoQueuedNoteStranded` | `Spec => []QueuedHasPendingJob` |
| `IssuedNotesDocumented` | `Spec => []IssuedIsDocumented` |
| `DocumentsBacked` | `Spec => []DocumentsAreBacked` |
| `BatchesAgreeWithJobs` | `Spec => []BatchAgreesWithJobs` |
| `AttemptsComeFromStarts` | `Spec => []AttemptsAreAudited` |
| `KeysAndFatesRemembered` | `Spec => NothingForgotten` |
| `NoWaitForever` | `Spec => []EveryWaitCanEnd` |
| `TransactionsAreFinite` | `Spec => EveryStepCounts`: a number of steps left that falls with each step of a transaction and never rises |
| **`EmissionSerialProofs`** | under `MaxOpen = 1` |
| `SerialNotesIssuedOnce` | `Spec => []IssuedOnce` |
| `SerialNotesHaveOneFate` | `Spec => []OneFateEach` |
| `SerialFinalBatchesAreKept` | `Spec => FinalBatchIsKept`, which finding 2 refutes with overlap |
| `SerialNotesHaveOneActiveJob` | `Spec => []OneActiveJobPerNote`, which finding 1 refutes with overlap |
| `SerialEmissionImplementsContract` | `Spec => ImplementsContract` |
| **`RetentionProofs`** | |
| `RetentionTypeCorrect` | `Spec => []TypeOK` |
| `NothingAgesEarly` | `Spec => []NeverEarly` |
| `EveryTransitionAudited` | `Spec => []TransitionsAudited` |
| `NoWaitForever` | `Spec => []EveryWaitCanEnd`, the same of cycles and archive rows |
| `CyclesAreFinite` | `Spec => EveryStepCounts`: each step of a cycle leaves it a part or an entry less |
| `CutoffIsNeverAhead` | what lies at or before a cutoff counted back from a day has had its years counted forwards by that day |
| **`RetentionSerialProofs`** | under `MaxOpen = 1` |
| `SerialAuditTellsHistory` | `Spec => []AuditTellsHistory` |
| `SerialRetentionImplementsContract` | `Spec => ImplementsContract` |
| `SerialArchivesOnlyAge` | `Spec => [][\A a \in Archives : Ages(a)]_vars`: nothing comes back from `COLD` or `DELETED` |
| **`ReturnOrdersProofs`** | |
| `OrdersInvariant` | `Spec => []IInv`, the inductive invariant |
| `OrdersTypeCorrect` | `Spec => []TypeOK` |
| `SyncsAreIdempotent` | `Spec => []SyncIsIdempotent` |
| `SyncsAreAtomic` | `Spec => []SyncIsAtomic` |
| `LinkedOrdersHaveNotes` | `Spec => []LinkedHasNote` |
| `DuplicatesAreBounded` | `Spec => []DuplicatesOverlap` |
| `SerialDraftsMakeOneNote` | `Spec => []OneActiveNote` under `MaxOpen = 1`, which finding 4 refutes with overlap |
| `WaitingEnds` | `Spec => []SomeCallIsFree`: while a call is open, one of them waits for nobody |
| `ColumnsAreKept` | `Spec => ColumnsKept` |
| `ReplacementsActivate` | `Spec => ReplacementActivates` |
| `OrdersImplementContract` | `Spec => ImplementsContract`, with any overlap |
| **`AccessProofs`** | |
| `AccessTypeCorrect` | `Spec => []TypeOK` |
| `KeysStayUnique` | `Spec => []KeysAreUnique` |
| `CompaniesHaveOwners` | `Spec => []CompanyHasOwner` |
| `TokensBelongToUsers` | `Spec => []TokensHaveUsers` |
| `GrantsComeFromAdmins` | `Spec => GrantedByAdmin` |
| `CallsComeFromSessions` | `Spec => CallsAreAuthenticated` |
| `AccessImplementsContract` | `Spec => ImplementsContract`, with any overlap |
| **`FrontendSessionProofs`** | |
| `SessionInvariant` | `Spec => []IInv`, the inductive invariant |
| `FrontendTypeCorrect` | `Spec => []TypeOK` |
| `LatestLoginIsStored` | `Spec => []StoredIsLatest` |
| `LogoutIsFinal` | `Spec => []LogoutSticks` |
| `LoneLoadsAgree` | `Spec => LoneLoadAgrees` |

*Queued notes.* `QueuedHasPendingJob` is not inductive: the delivery that finalises the
pending job might skip the note, or find no dirty column to write, and leave it `QUEUED`.
`QueueInv` adds that every delivery that has loaded the batch of this job saw the note
`QUEUED`. Such a delivery neither skips it nor finds its status unchanged, so it leaves it
`ISSUED` or `FAILED`. The invariant needs `DeliveriesInv` (an open delivery has an existing
batch and a position of its list) and `BatchesInv` (a batch appears with its request's
commit, and its pending jobs are those of its list). It holds because the jobs of a new
batch become visible with the note they queue, so a delivery reads its jobs and its notes
after both. `IInv` is the conjunction with `TypeOK`.

*Documents.* `StoredInv` says that the files of every position that a loop has passed with
the outcome "issued" exist, and the XML when it is about to store the DANFE. At the commit
the loop has passed all positions, so the rows that appear have their files. `DInv`
joins it to `IInv` and the two properties; the two are mutually needed because
a delivery keeps a note `ISSUED` that somebody else has issued.

*Jobs.* Deliveries overwrite each other's rows, so `BatchAgreesWithJobs` needs what each has
read: `JobsInv` adds that a delivery that has seen a job of its batch no longer pending works
on a batch that is final, so that a commit that leaves a job alone does so because another
delivery has finished it. `AttemptsInv` counts the deliveries whose start of a job is in the
audit log (`Started`): none that is still open is among them, and what a delivery has read of
`attempts` is at most their number, so the increment it commits together with its own entry
stays covered. Increments may be lost; the inequality does not mind.

*Emission without overlap.* `AloneInv` says that at most one transaction is open and that what
it has read is what the tables hold: the notes a request has selected are drafts, the batch a
delivery has loaded is pending, the notes it has seen are as they are. No other transaction
commits while one stays open (`OpenSeesNoCommit`), and this is all that separates the serial
theorems from the findings. `FateInv` is the contract's view of the tables: batches have no
note in common, the status of a batch tells those of its notes, documents of a note are of one
delivery that has left it issued. In the refinement `CommitRequest` is the contract's `Queue`,
`CommitBatch` its finalising step, and every other action leaves the mapped variables alone.

*Retention.* `PlansInv` says that the time of a cycle lies in the past and that every
entry it has planned or written was due at that time (`Due`). `Due` speaks of
`retention_until` only, which never changes once the archive exists; so what other cycles
commit in between does not matter, and `NeverEarly` follows at the commit. That is the
reason why overwriting without a lock does no harm here. The step from the cutoff a cycle
computes backwards to the age `NeverEarly` counts forwards is `CutoffIsNeverAhead`: both
directions may fall on a 29 February that is not there, and each moves to the day before, so
that they need not be inverse to each other, but the cutoff is never ahead.

*Retention without overlap.* `AloneInv` says that what a cycle has written and has still to
write is what the policy asks for, at the time of the cycle, of the archives as the tables hold
them: the deletions (`Doomed`) and, after the second selection, the archives to make COLD
(`Cooled`). It needs that an order of a result set lists all of it (`OrderIsComplete`: an
injection between finite sets of one size is onto), that the second selection sees the first
one's writes and nothing else (`ExpiredAreTheRest`), and that a document stored while a cycle
is open is not due at its time (`NewIsNotDue`: a year after the clock, even from a leap day,
lies ahead of it). `CommitAppliesPolicy` then says what a commit does to each archive and which
entries it has; `SerialAuditTellsHistory` and the refinement follow, and `SerialArchivesOnlyAge`
from the contract alone.

*Return orders and access.* Both insert rows under unique keys, and both invariants have the
same parts. `SessionInv` says what an open call has inserted, by the place it has reached.
`NamesInv` says that committed rows bear the names of calls that have ended, so that a commit
never meets a row of its own name. `FreshInv` says that the key of an uncommitted row is in no
committed row and in no other open call's, which the wait and the check of an insert
establish and which every other call's insert keeps. The keys of the committed rows are then
unique by the commit. `ReturnOrders` adds `CountInv`: the notes of an order and the drafts of
it that have seen no note are together at most `MaxOpen`. A draft joins while there is no note,
among calls that are open at once; a commit turns a draft into a note; nothing takes a note
away. `Wanted` says which columns a change has taken over from the row it read, from which
the two action properties follow. `Access` adds `LoginsInv` (who is about to get tokens is a
committed user) and `PairsInv` (an access token came with a refresh token that counts from the
same instant, which is how `CallsAreAuthenticated` finds the session of a call).

*The contracts that hold with any overlap.* `ReturnOrdersContract` and `AccessContract` have no
sessions, no waits and no failures: a call is one step on the committed rows. The proof maps
the commit of a call, or the answer of a login, to that step and the rest to a stutter (time,
`Disable` and `Emit` are steps of the contracts too), so it has to show that what
a call found out earlier still holds at its commit, or does not matter. For `Access` the
additions come from `FreshInv` and `NamesInv`; `ActorsInv` adds that whoever founds a company or
adds a member has shown an access token and is still a committed user, and so is the user that
is added (`ActorsStay`: users and tokens are never taken away). For `ReturnOrders`, `PlansInv`
says what a call will commit as its contract has it: a sync its account and its order together
or neither, on an integration of its own if it has inserted one; a change the columns it wants
over those it read, with a cipher that is its own. `TwinsInv` says that an order never is there
without the account of its marketplace, so that a sync that finds an account has nothing to add,
and that committed accounts and notes bear the names of calls that have ended. `SyncCommits`,
`DraftCommits` (the bound on the notes is `CountInv`), `CreateCommits` and `WriteIsContract` map
the commits. The step of the contract for an update takes the columns the call wanted and leaves
the credentials as they are at the commit, which is what `DirtyColumns` does and a write of the
full row would not.

*Waits.* A deadlock is a ring (`Deadlocked`): what has to be shown is that every other wait
ends with the transaction that is waited for. `LocksInv` says that a row is held by an open
transaction or by none, and that the open ones are finitely many, since a step opens one at
most (`OpenMoves`). So whoever cannot write waits for an open transaction, and a group of
transactions none of which can write waits within itself. `BlockedHasRing` takes a smallest
non-empty part of the group whose members all wait within the part, by the well-foundedness of
strict inclusion on finite sets: leaving out those nobody waits for would make it smaller, so there
are none, and it is a ring. `TransactionsAreFinite` is the other half: `RequestLeft` and
`DeliveryLeft` bound the steps a transaction has left, by `PlacesInv` (it stands within its
list) and by `BatchStays` (the list of a batch does not grow). What is left for TLC of
`EveryTransactionEnds` is the fairness itself. In `Retention` the cycles hold the rows they
have staged, and `PlansInv` says that a cycle that is not open has staged none;
`CyclesAreFinite` counts the parts of a cycle and the entries of each.

*Frontend session.* `BootsInv` says that a tab has at most one bootstrap that may still
succeed, and shows the loading screen while it has one; `OutInv` that a tab that is out has no
token and no such bootstrap, so that no answer brings a session back. `LoadsInv` says that a
load has the tokens of a login that happened and a list of companies of that user, and that a
form's company, once the server has created it, is one of them (`CreateCompanyStep`, and
`OwnedGrows` for every later step). `AloneInv` says what the tab of a load looks like that
nothing has disturbed since it took its token, for a refresh since the submit, until it
ends; the end of such a load is `LoneLoadAgrees`. The helper module's `Max` is a choice, and `MaxIsAMember`
shows that there is a largest member to choose.

Checked by TLC only: what depends on fairness (`EveryTransactionEnds`, `ExpiredAreDeleted`,
`BootstrapEnds`) and what speaks of `ENABLED` (`SomeCallGoesOn`), both out of the prover's
reach; of the first `NoWaitForever` and `TransactionsAreFinite` prove all but the fairness, of the
latter `WaitingEnds` proves what can be said of who waits for whom. The four
violation runs are TLC's as well.

## 5. Not modelled, and why

- *Reads*: listing orders, notes, integrations, documents, logs and members changes no state;
  the role check before them is that of the other calls.
- *Contents*: the payload of a mock is a constant and the branch that updates an order never
  finds a difference; passwords are right or wrong; a cipher differs from every other; of a
  document, a message or an access key only its being there is modelled; of the settings of an
  integration only whether they make it a mock, as no handler reads another.
- *The unique key of orders* is modelled and never decides: the account is inserted in
  the same transaction before it (`SyncIsAtomic`).
- *One company* in `ReturnOrders` and `Retention`: no statement of theirs crosses companies;
  which company a user may act in is `Access`.
- *Health, configuration, middleware, rendered pages, forms*: no state that outlives a call.
  The notes and documents that `ui-storage.ts` keeps for the pages are a cache no step of the
  session reads.
- *Below the source*: the connection pool shared by the event loops of successive
  `asyncio.run` calls (`app/db/session.py:14`); its effect, a transaction that fails, is.
- *Alembic migrations*: run once, offline; their unique constraints are in the modules whose
  tables they are on.

## 6. Plan

Every safety property of the passing runs is proved but `SomeCallGoesOn`, and every module with
a contract is proved to implement it, `Emission` and `Retention` without overlap. What is worth adding:

1. Contracts of `Emission` and `Retention` that hold with overlap: what a batch promises when a
   second delivery overwrites it, and a cycle when an older one commits after it.
2. The rest of the liveness arguments, with a prover that knows `ENABLED`: the facts they need
   beside fairness are `NoWaitForever`, `TransactionsAreFinite`, `CyclesAreFinite` and
   `WaitingEnds`.

A module `NoteLifecycle` that composes drafting and emission statement by statement, instead of
through `Emit`, would show nothing the two do not: a draft reads no column emission writes but
the status, and `DuplicatesOverlap` holds for every status.

## 7. Running

From this directory, with `tlc` and `tlapm` installed and the community modules on the path:

    tlc -workers 2 -config emission_race.cfg MCEmission
    tlapm EmissionProofs.tla

`tlapm EmissionSerialProofs.tla` and `tlapm RetentionSerialProofs.tla` check the lemmas of the
modules they extend by name only; these have runs of their own.
