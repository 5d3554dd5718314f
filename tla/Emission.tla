------------------------------- MODULE Emission -------------------------------
(***************************************************************************)
(* Batch emission of return notes: the API handler that queues notes in a  *)
(* batch (EmissionBatchMockService.create_mock_batch), the Celery task     *)
(* that processes a batch (EmissionBatchMockProcessor.process_batch), the  *)
(* PostgreSQL rows both share and the object storage the task writes to.   *)
(*                                                                         *)
(* Every handler is one database transaction under READ COMMITTED.  It     *)
(* reads committed rows without locking them (the SELECT of                *)
(* list_return_notes_for_update has no FOR UPDATE), decides on what it     *)
(* read, and writes only the columns whose value differs from the one it   *)
(* read.  An UPDATE holds its row until the transaction ends; its effect   *)
(* is visible to others at the commit.  Objects saved to storage are not   *)
(* part of the transaction and survive a rollback.                         *)
(***************************************************************************)
EXTENDS Integers, FiniteSets, Sequences, Functions

CONSTANTS
  Notes,       \* return_notes rows of one company
  Requests,    \* API calls; the batch a call creates bears its name
  Deliveries,  \* executions of the Celery task, first ones and redeliveries
  MaxOpen,     \* bound: transactions open at the same time
  None         \* no transaction, no batch

ASSUME EmissionAssumption ==
  /\ IsFiniteSet(Notes)
  /\ Requests \cap Deliveries = {}
  /\ Notes \cap Requests = {}
  /\ None \notin Requests \cup Deliveries
  /\ MaxOpen \in Nat \ {0}

Transactions == Requests \cup Deliveries
Batches == Requests

Roles == {"OWNER", "ADMIN", "OPERATOR", "VIEWER", "NOT_A_MEMBER"}
COMPANY_OPERATOR_ROLES == {"OWNER", "ADMIN", "OPERATOR"}
Scenarios == {"success", "partial_failure", "failure"}
DocumentTypes == {"NFE_XML", "DANFE_PDF"}
AuditActions == {"RETURN_NOTE_QUEUED", "EMISSION_JOB_STARTED",
                 "RETURN_NOTE_FAILED", "RETURN_NOTE_ISSUED"}

\* The values the code writes; ABSENT and NONE stand for a row that is not there.
NoteStatuses == {"ABSENT", "DRAFT", "QUEUED", "ISSUED", "FAILED"}
BatchStatuses == {"NONE", "PENDING", "COMPLETED", "FAILED"}
JobStatuses == {"NONE", "PENDING", "SUCCESS", "FAILED"}
ELIGIBLE_RETURN_NOTE_STATUSES == {"DRAFT", "READY_TO_EMIT"}
FINAL_BATCH_STATUSES == {"COMPLETED", "FAILED", "CANCELLED"}
ACTIVE_JOB_STATUSES == {"PENDING", "RUNNING", "RETRYING"}

\* key: return_nfe_key and issued_at are set; error: error_message / last_error is set.
NoteRow == [status : NoteStatuses, key : BOOLEAN, error : BOOLEAN]
JobRow == [status : JobStatuses, attempts : Nat, error : BOOLEAN]
NoJob == [status |-> "NONE", attempts |-> 0, error |-> FALSE]
Object == Deliveries \X Notes \X DocumentTypes

\* The lists of distinct notes a request may name (min_length 1, duplicates rejected).
Lists == UNION {{s \in [1..k -> Notes] : IsInjective(s)} : k \in 1..Cardinality(Notes)}

VARIABLES
  note,      \* return_notes, committed
  batch,     \* emission_batches.status, committed
  lot,       \* the notes of a batch in the order list_jobs_by_batch_id returns its jobs
  job,       \* emission_jobs by batch and note, committed
  docs,      \* fiscal_documents with their storage_archives, committed
  audit,     \* audit_logs: <<transaction, action, batch, note>>, committed
  objects,   \* files in the object storage
  lock,      \* row locks of return_notes and emission_batches
  pc,        \* where each transaction stands
  pos,       \* next position of its list it handles
  ids,       \* return_note_ids of a request
  task,      \* batch_id and scenario of a delivery
  seenJob,   \* job rows a delivery has read
  seenNote   \* note rows a delivery has read

tables == <<note, batch, lot, job, docs, audit>>
session == <<pos, ids, task, seenJob, seenNote>>
vars == <<note, batch, lot, job, docs, audit, objects, lock, pc,
          pos, ids, task, seenJob, seenNote>>

NothingSeen == [n \in Notes |-> NoJob]
NoNoteSeen == [n \in Notes |-> [status |-> "ABSENT", key |-> FALSE, error |-> FALSE]]
NoTask == [batch |-> None, scenario |-> "success"]

Init ==
  /\ note \in [Notes -> {[status |-> s, key |-> FALSE, error |-> FALSE] :
                            s \in {"ABSENT", "DRAFT"}}]
  /\ batch = [b \in Batches |-> "NONE"]
  /\ lot = [b \in Batches |-> <<>>]
  /\ job = [b \in Batches |-> NothingSeen]
  /\ docs = {}
  /\ audit = {}
  /\ objects = {}
  /\ lock = [row \in Notes \cup Batches |-> None]
  /\ pc = [t \in Transactions |-> "idle"]
  /\ pos = [t \in Transactions |-> 0]
  /\ ids = [r \in Requests |-> <<>>]
  /\ task = [d \in Deliveries |-> NoTask]
  /\ seenJob = [d \in Deliveries |-> NothingSeen]
  /\ seenNote = [d \in Deliveries |-> NoNoteSeen]

-----------------------------------------------------------------------------
(* Transactions and row locks *)

Open == {t \in Transactions : pc[t] \notin {"idle", "done"}}
MayOpen(t) == pc[t] = "idle" /\ Cardinality(Open) < MaxOpen

\* The flush of an UPDATE takes the row, or waits for the transaction that has it.
CanWrite(t, row) == lock[row] \in {t, None}
Take(t, row) == lock' = [lock EXCEPT ![row] = t]

\* Mutated: the session is left as it is, with its transaction, when the call ends.
CloseKeepingLocks(t) ==
  /\ pc' = [pc EXCEPT ![t] = "done"]
  /\ pos' = [pos EXCEPT ![t] = 0]
  /\ ids' = [r \in Requests |-> IF r = t THEN <<>> ELSE ids[r]]
  /\ task' = [d \in Deliveries |-> IF d = t THEN NoTask ELSE task[d]]
  /\ seenJob' = [d \in Deliveries |-> IF d = t THEN NothingSeen ELSE seenJob[d]]
  /\ seenNote' = [d \in Deliveries |-> IF d = t THEN NoNoteSeen ELSE seenNote[d]]
  /\ UNCHANGED lock

\* Commit, rollback or death of the process: the locks go and so does the session.
Close(t) ==
  /\ pc' = [pc EXCEPT ![t] = "done"]
  /\ pos' = [pos EXCEPT ![t] = 0]
  /\ lock' = [row \in DOMAIN lock |-> IF lock[row] = t THEN None ELSE lock[row]]
  /\ ids' = [r \in Requests |-> IF r = t THEN <<>> ELSE ids[r]]
  /\ task' = [d \in Deliveries |-> IF d = t THEN NoTask ELSE task[d]]
  /\ seenJob' = [d \in Deliveries |-> IF d = t THEN NothingSeen ELSE seenJob[d]]
  /\ seenNote' = [d \in Deliveries |-> IF d = t THEN NoNoteSeen ELSE seenNote[d]]

\* An UPDATE carries only the columns that differ from the value last read.
Dirty(seen, new, stored) == IF new = seen THEN stored ELSE new

-----------------------------------------------------------------------------
(* POST /emission-batches/mock: create_mock_batch *)

\* Mutated: the statuses of the notes are not looked at.
MaySelectAny(role, list) ==
  /\ role \in COMPANY_OPERATOR_ROLES
  /\ \A n \in Range(list) : note[n].status # "ABSENT"

\* Mutated: a note that failed may be queued again.
MaySelectFailed(role, list) ==
  /\ role \in COMPANY_OPERATOR_ROLES
  /\ \A n \in Range(list) :
       note[n].status \in ELIGIBLE_RETURN_NOTE_STATUSES \cup {"FAILED"}

MaySelect(role, list) ==
  /\ role \in COMPANY_OPERATOR_ROLES
  /\ \A n \in Range(list) : note[n].status \in ELIGIBLE_RETURN_NOTE_STATUSES

\* require_company_role, then the SELECT of the notes and the eligibility tests.
SelectNotes(r) ==
  /\ MayOpen(r)
  /\ \E role \in Roles, list \in Lists :
       /\ MaySelect(role, list)
       /\ ids' = [ids EXCEPT ![r] = list]
  /\ pc' = [pc EXCEPT ![r] = "selected"]
  /\ UNCHANGED <<tables, objects, lock, pos, task, seenJob, seenNote>>

\* 403, or 409 "Return note is not eligible for emission".
RefuseNotes(r) ==
  /\ MayOpen(r)
  /\ \E role \in Roles, list \in Lists : ~MaySelect(role, list)
  /\ Close(r)
  /\ UNCHANGED <<tables, objects>>

HasActiveJob(n) == \E b \in Batches : job[b][n].status \in ACTIVE_JOB_STATUSES

\* No active job: the batch and its jobs are inserted, unseen until the commit.
InsertBatch(r) ==
  /\ pc[r] = "selected"
  /\ ~\E n \in Range(ids[r]) : HasActiveJob(n)
  /\ pc' = [pc EXCEPT ![r] = "queueing"]
  /\ pos' = [pos EXCEPT ![r] = 1]
  /\ UNCHANGED <<tables, objects, lock, ids, task, seenJob, seenNote>>

\* 409 "Return note already has an active emission job".
RefuseActive(r) ==
  /\ pc[r] = "selected"
  /\ \E n \in Range(ids[r]) : HasActiveJob(n)
  /\ Close(r)
  /\ UNCHANGED <<tables, objects>>

\* status = "QUEUED", flushed with the audit row that follows it.
QueueNote(r) ==
  /\ pc[r] = "queueing"
  /\ pos[r] \in DOMAIN ids[r]
  /\ CanWrite(r, ids[r][pos[r]])
  /\ Take(r, ids[r][pos[r]])
  /\ pos' = [pos EXCEPT ![r] = @ + 1]
  /\ UNCHANGED <<tables, objects, pc, ids, task, seenJob, seenNote>>

\* The commit.  Job ids are random, so list_jobs_by_batch_id may return the jobs,
\* created at one instant, in any order, the same from then on.
CommitRequest(r) ==
  LET queued == Range(ids[r])
  IN /\ pc[r] = "queueing"
     /\ pos[r] \notin DOMAIN ids[r]
     /\ note' = [n \in Notes |-> IF n \in queued THEN [note[n] EXCEPT !.status = "QUEUED"]
                                                  ELSE note[n]]
     /\ batch' = [batch EXCEPT ![r] = "PENDING"]
     /\ \E list \in Lists : Range(list) = queued /\ lot' = [lot EXCEPT ![r] = list]
     /\ job' = [job EXCEPT ![r] = [n \in Notes |->
                  IF n \in queued THEN [NoJob EXCEPT !.status = "PENDING"] ELSE NoJob]]
     /\ audit' = audit \cup {<<r, "RETURN_NOTE_QUEUED", r, n>> : n \in queued}
     /\ Close(r)
     /\ UNCHANGED <<docs, objects>>

-----------------------------------------------------------------------------
(* Celery task emissions.process_mock_batch: process_batch *)

\* Mutated: the guard on final statuses is gone.
MayProcessAny(b) == batch[b] # "NONE"

MayProcess(b) == batch[b] # "NONE" /\ batch[b] \notin FINAL_BATCH_STATUSES

\* The SELECT of the batch that the guard on final statuses reads.
SelectBatch(d) ==
  /\ MayOpen(d)
  /\ \E b \in Batches, scenario \in Scenarios :
       /\ MayProcess(b)
       /\ task' = [task EXCEPT ![d] = [batch |-> b, scenario |-> scenario]]
  /\ pc' = [pc EXCEPT ![d] = "batch"]
  /\ UNCHANGED <<tables, objects, lock, pos, ids, seenJob, seenNote>>

\* EmissionBatchNotFoundError, or EmissionBatchInvalidStateError on a final batch.
RefuseBatch(d) ==
  /\ MayOpen(d)
  /\ \E b \in Batches : ~MayProcess(b)
  /\ Close(d)
  /\ UNCHANGED <<tables, objects>>

SelectJobs(d) ==
  /\ pc[d] = "batch"
  /\ seenJob' = [seenJob EXCEPT ![d] = job[task[d].batch]]
  /\ pc' = [pc EXCEPT ![d] = "jobs"]
  /\ UNCHANGED <<tables, objects, lock, pos, ids, task, seenNote>>

SelectJobNotes(d) ==
  /\ pc[d] = "jobs"
  /\ seenNote' = [seenNote EXCEPT ![d] = [n \in Notes |->
                    IF n \in Range(lot[task[d].batch]) THEN note[n] ELSE NoNoteSeen[n]]]
  /\ pc' = [pc EXCEPT ![d] = "notes"]
  /\ UNCHANGED <<tables, objects, lock, pos, ids, task, seenJob>>

\* status = "RUNNING", flushed with EMISSION_BATCH_STARTED: holds the batch row.
StartBatch(d) ==
  /\ pc[d] = "notes"
  /\ CanWrite(d, task[d].batch)
  /\ Take(d, task[d].batch)
  /\ pc' = [pc EXCEPT ![d] = "jobloop"]
  /\ pos' = [pos EXCEPT ![d] = 1]
  /\ UNCHANGED <<tables, objects, ids, task, seenJob, seenNote>>

\* index counts from 1 here and from 0 in the code.
should_fail_job(scenario, index) ==
  scenario = "failure" \/ (scenario = "partial_failure" /\ (index - 1) % 2 = 1)

JobList(d) == lot[task[d].batch]

\* Mutated: only a note that failed before is worth another attempt.
SkippedUnlessFailed(d, i) == seenNote[d][JobList(d)[i]].status # "FAILED"

\* What the loop makes of the job and the note at an index of its list.
Skipped(d, i) == seenNote[d][JobList(d)[i]].status = "ISSUED"
Failed(d, i) == ~Skipped(d, i) /\ should_fail_job(task[d].scenario, i)
Issued(d, i) == ~Skipped(d, i) /\ ~should_fail_job(task[d].scenario, i)

AtJob(d) == pc[d] = "jobloop" /\ pos[d] \in DOMAIN JobList(d)

SkipIssuedNote(d) ==
  /\ AtJob(d)
  /\ Skipped(d, pos[d])
  /\ pos' = [pos EXCEPT ![d] = @ + 1]
  /\ UNCHANGED <<tables, objects, lock, pc, ids, task, seenJob, seenNote>>

\* A note already seen FAILED with its message has no dirty column: no UPDATE, no lock.
UpdatesFailedNote(d, n) ==
  ~(seenNote[d][n].status = "FAILED" /\ seenNote[d][n].error)

FailNote(d) ==
  LET n == JobList(d)[pos[d]]
  IN /\ AtJob(d)
     /\ Failed(d, pos[d])
     /\ IF UpdatesFailedNote(d, n) THEN CanWrite(d, n) /\ Take(d, n)
                                   ELSE UNCHANGED lock
     /\ pos' = [pos EXCEPT ![d] = @ + 1]
     /\ UNCHANGED <<tables, objects, pc, ids, task, seenJob, seenNote>>

\* status = "ISSUED", flushed by the SELECT that opens store_document.
IssueNote(d) ==
  LET n == JobList(d)[pos[d]]
  IN /\ AtJob(d)
     /\ Issued(d, pos[d])
     /\ CanWrite(d, n)
     /\ Take(d, n)
     /\ pc' = [pc EXCEPT ![d] = "xml"]
     /\ UNCHANGED <<tables, objects, pos, ids, task, seenJob, seenNote>>

\* Mutated: the rows are inserted whether or not the file was written.
SaveSwallowingErrors(d, type) ==
  \/ objects' = objects \cup {<<d, JobList(d)[pos[d]], type>>}
  \/ objects' = objects

\* store_document: a fresh object key, the file saved and read back, the rows inserted.
Save(d, type) == objects' = objects \cup {<<d, JobList(d)[pos[d]], type>>}

StoreXml(d) ==
  /\ pc[d] = "xml"
  /\ Save(d, "NFE_XML")
  /\ pc' = [pc EXCEPT ![d] = "pdf"]
  /\ UNCHANGED <<tables, lock, session>>

StoreDanfe(d) ==
  /\ pc[d] = "pdf"
  /\ Save(d, "DANFE_PDF")
  /\ pc' = [pc EXCEPT ![d] = "jobloop"]
  /\ pos' = [pos EXCEPT ![d] = @ + 1]
  /\ UNCHANGED <<tables, lock, ids, task, seenJob, seenNote>>

\* Mutated: a failed attempt also clears the key of an earlier issue.
NoteWrittenClearing(d, i) ==
  LET n == JobList(d)[i]
  IN IF Issued(d, i) THEN [status |-> "ISSUED", key |-> TRUE, error |-> FALSE]
     ELSE IF Failed(d, i) THEN [status |-> "FAILED", key |-> FALSE, error |-> TRUE]
     ELSE note[n]

\* The rows as the UPDATEs of the loop leave them at an index of the list.
NoteWritten(d, i) ==
  LET n == JobList(d)[i]
      seen == seenNote[d][n]
      outcome == IF Failed(d, i) THEN "FAILED" ELSE "ISSUED"
  IN IF Skipped(d, i) THEN note[n]
     ELSE [status |-> Dirty(seen.status, outcome, note[n].status),
           key |-> IF Failed(d, i) THEN note[n].key ELSE TRUE,
           error |-> Dirty(seen.error, outcome = "FAILED", note[n].error)]

\* Mutated: the job of a note that is already issued is left as it was.
JobWrittenIfRun(d, i) ==
  LET n == JobList(d)[i]
      seen == seenJob[d][n]
  IN IF Skipped(d, i) THEN job[task[d].batch][n]
     ELSE [status |-> IF Failed(d, i) THEN "FAILED" ELSE "SUCCESS",
           attempts |-> seen.attempts + 1,
           error |-> Failed(d, i)]

\* RUNNING is flushed in between, so a job that is run has its final status written.
JobWritten(d, i) ==
  LET n == JobList(d)[i]
      seen == seenJob[d][n]
      stored == job[task[d].batch][n]
      outcome == IF Failed(d, i) THEN "FAILED" ELSE "SUCCESS"
  IN IF Skipped(d, i)
     THEN [stored EXCEPT !.status = Dirty(seen.status, "SUCCESS", stored.status)]
     ELSE [status |-> outcome,
           attempts |-> seen.attempts + 1,
           error |-> Dirty(seen.error, outcome = "FAILED", stored.error)]

IndexOf(list, n) == CHOOSE i \in DOMAIN list : list[i] = n

\* Mutated: EMISSION_JOB_STARTED is only written once the job has succeeded.
AuditsOfSuccess(d) ==
  {<<d, action, task[d].batch, JobList(d)[i]>> :
     action \in {"EMISSION_JOB_STARTED", "RETURN_NOTE_ISSUED"},
     i \in {j \in DOMAIN JobList(d) : Issued(d, j)}}

AuditsWritten(d) ==
  LET by(action, Happened(_)) ==
        {<<d, action, task[d].batch, JobList(d)[i]>> : i \in {j \in DOMAIN JobList(d) : Happened(j)}}
      ran(i) == ~Skipped(d, i)
      failed(i) == Failed(d, i)
      issued(i) == Issued(d, i)
  IN by("EMISSION_JOB_STARTED", ran) \cup by("RETURN_NOTE_FAILED", failed)
       \cup by("RETURN_NOTE_ISSUED", issued)

\* Mutated: the row of the DANFE is forgotten.
OnlyXmlWritten(d) ==
  {<<d, JobList(d)[i], "NFE_XML">> : i \in {j \in DOMAIN JobList(d) : Issued(d, j)}}

DocumentsWritten(d) ==
  {<<d, JobList(d)[i], type>> :
     i \in {j \in DOMAIN JobList(d) : Issued(d, j)}, type \in DocumentTypes}

\* Mutated: the status set at the start is left.
NeverFinal(d) == "RUNNING"

\* Mutated: one job that did not fail is enough to complete the batch.
CompletedByOne(d) ==
  IF \E i \in DOMAIN JobList(d) : ~Failed(d, i) THEN "COMPLETED" ELSE "FAILED"

FinalStatus(d) ==
  IF \E i \in DOMAIN JobList(d) : Failed(d, i) THEN "FAILED" ELSE "COMPLETED"

\* The tail of process_batch and the commit of the task.
CommitBatch(d) ==
  LET b == task[d].batch
      list == JobList(d)
      done == Range(list)
  IN /\ pc[d] = "jobloop"
     /\ pos[d] \notin DOMAIN list
     /\ note' = [n \in Notes |-> IF n \in done THEN NoteWritten(d, IndexOf(list, n))
                                                ELSE note[n]]
     /\ job' = [job EXCEPT ![b] = [n \in Notes |->
                  IF n \in done THEN JobWritten(d, IndexOf(list, n)) ELSE @[n]]]
     /\ batch' = [batch EXCEPT ![b] = FinalStatus(d)]
     /\ docs' = docs \cup DocumentsWritten(d)
     /\ audit' = audit \cup AuditsWritten(d)
     /\ Close(d)
     /\ UNCHANGED <<lot, objects>>

-----------------------------------------------------------------------------
(* Failures *)

\* An exception, a dropped connection or a dead process: the database rolls back.
Abort(t) ==
  /\ t \in Open
  /\ Close(t)
  /\ UNCHANGED <<tables, objects>>

\* The row the next UPDATE of a transaction takes: none, or one.
Wanted(t) ==
  {row \in DOMAIN lock :
     \/ t \in Requests /\ pc[t] = "queueing" /\ pos[t] \in DOMAIN ids[t] /\ row = ids[t][pos[t]]
     \/ t \in Deliveries /\ pc[t] = "notes" /\ row = task[t].batch
     \/ /\ t \in Deliveries
        /\ AtJob(t)
        /\ row = JobList(t)[pos[t]]
        /\ Issued(t, pos[t]) \/ (Failed(t, pos[t]) /\ UpdatesFailedNote(t, row))}

Waits(t, u) == \E row \in Wanted(t) : lock[row] = u /\ u # t

\* On a cycle of transactions, each waiting for the next.
Deadlocked(t) ==
  \E ring \in SUBSET Open :
    /\ t \in ring
    /\ \A u \in ring : (\E v \in ring : Waits(u, v)) /\ (\E v \in ring : Waits(v, u))

\* The deadlock detector of PostgreSQL rolls back one of them.
AbortDeadlocked(t) == Deadlocked(t) /\ Abort(t)

-----------------------------------------------------------------------------
\* The steps that begin a transaction, and those that carry one on.
OpenRequest(r) == SelectNotes(r) \/ RefuseNotes(r)
ContinueRequest(r) == InsertBatch(r) \/ RefuseActive(r) \/ QueueNote(r) \/ CommitRequest(r)
OpenDelivery(d) == SelectBatch(d) \/ RefuseBatch(d)
ContinueDelivery(d) ==
  \/ SelectJobs(d) \/ SelectJobNotes(d) \/ StartBatch(d)
  \/ SkipIssuedNote(d) \/ FailNote(d) \/ IssueNote(d)
  \/ StoreXml(d) \/ StoreDanfe(d) \/ CommitBatch(d)

\* Every slot is used up: the bounded system stops here, and nowhere else.
Quiescent == (\A t \in Transactions : pc[t] = "done") /\ UNCHANGED vars

Next ==
  \/ \E r \in Requests : OpenRequest(r) \/ ContinueRequest(r)
  \/ \E d \in Deliveries : OpenDelivery(d) \/ ContinueDelivery(d)
  \/ \E t \in Transactions : Abort(t) \/ AbortDeadlocked(t)
  \/ Quiescent

Spec == Init /\ [][Next]_vars

\* A transaction, once open, is driven to its end: the event loop resumes a granted
\* call, the database grants a free row and breaks a deadlock.  Nobody has to open one.
FairSpec ==
  /\ Spec
  /\ \A r \in Requests : WF_vars(ContinueRequest(r) \/ AbortDeadlocked(r))
  /\ \A d \in Deliveries : WF_vars(ContinueDelivery(d) \/ AbortDeadlocked(d))

-----------------------------------------------------------------------------
(* Properties *)

TablesOK ==
  /\ note \in [Notes -> NoteRow]
  /\ batch \in [Batches -> BatchStatuses]
  /\ lot \in [Batches -> Lists \cup {<<>>}]
  /\ job \in [Batches -> [Notes -> JobRow]]
  /\ docs \subseteq Object
  /\ audit \subseteq Transactions \X AuditActions \X Batches \X Notes
  /\ objects \subseteq Object

SessionsOK ==
  /\ lock \in [Notes \cup Batches -> Transactions \cup {None}]
  /\ pc \in [Transactions -> {"idle", "selected", "queueing", "batch", "jobs", "notes",
                              "jobloop", "xml", "pdf", "done"}]
  /\ pos \in [Transactions -> Nat]
  /\ ids \in [Requests -> Lists \cup {<<>>}]
  /\ task \in [Deliveries -> [batch : Batches \cup {None}, scenario : Scenarios]]
  /\ seenJob \in [Deliveries -> [Notes -> JobRow]]
  /\ seenNote \in [Deliveries -> [Notes -> NoteRow]]

\* Each table and each session holds values of its kind: no status the code does not write,
\* none of the intermediate RUNNING, is ever committed.
TypeOK == TablesOK /\ SessionsOK

\* A note shown as QUEUED is not stranded: some batch still has a PENDING job for it,
\* whatever the requests and the deliveries that overlapped.
QueuedHasPendingJob ==
  \A n \in Notes : note[n].status = "QUEUED" =>
    \E b \in Batches : job[b][n].status = "PENDING"

\* An ISSUED note has its access key, and one delivery stored, recorded and audited both
\* of its documents, so no crash between the storage and the database shows it halfway.
IssuedIsDocumented ==
  \A n \in Notes : note[n].status = "ISSUED" =>
    /\ note[n].key
    /\ \E d \in Deliveries :
         /\ \A type \in DocumentTypes : <<d, n, type>> \in docs \cap objects
         /\ \E b \in Batches : <<d, "RETURN_NOTE_ISSUED", b, n>> \in audit

\* A fiscal_documents row never points at a missing file nor at a note without a key, even
\* when a later overwrite made the note FAILED or QUEUED again; XML and DANFE come together.
DocumentsAreBacked ==
  \A object \in docs :
    /\ object \in objects
    /\ note[object[2]].key
    /\ \A type \in DocumentTypes : <<object[1], object[2], type>> \in docs

\* The status of a batch and those of its jobs agree at every commit: all jobs untouched
\* while it is PENDING, all of them final once it is, though many deliveries overlap.
BatchAgreesWithJobs ==
  \A b \in Batches : \A n \in Range(lot[b]) :
    IF batch[b] = "PENDING" THEN job[b][n] = [NoJob EXCEPT !.status = "PENDING"]
                            ELSE job[b][n].status \in {"SUCCESS", "FAILED"}

\* attempts never counts a start the audit log has no EMISSION_JOB_STARTED for.
AttemptsAreAudited ==
  \A b \in Batches : \A n \in Notes :
    job[b][n].attempts <=
      Cardinality({d \in Deliveries : <<d, "EMISSION_JOB_STARTED", b, n>> \in audit})

\* A final batch is never PENDING again and a documented note never loses its access key.
NothingForgotten ==
  [][ /\ \A b \in Batches : batch[b] \in FINAL_BATCH_STATUSES
                              => batch'[b] \in FINAL_BATCH_STATUSES
      /\ \A n \in Notes : note[n].key => note'[n].key ]_vars

\* Every wait for a row can end: among open transactions that wait for no other open one, one has
\* the row it wants next or is on a cycle that the detector breaks, so no lock outlives its owner.
EveryWaitCanEnd ==
  \A group \in (SUBSET Open) \ {{}} :
    (\A t \in group, u \in Open : Waits(t, u) => u \in group) =>
      \E t \in group : Deadlocked(t) \/ \A row \in Wanted(t) : CanWrite(t, row)

\* No transaction stays open for ever: not behind a row lock, not in a deadlock.
EveryTransactionEnds ==
  \A t \in Transactions : pc[t] \notin {"idle", "done"} ~> pc[t] = "done"

\* The properties below hold while transactions do not overlap (MaxOpen = 1); the ones a
\* violation run checks are refuted as soon as they do.

\* A note has at most one active job: notes of an active batch are refused.
OneActiveJobPerNote ==
  \A n \in Notes : \A a, b \in Batches :
    HasActiveJob(n) /\ {job[a][n].status, job[b][n].status} \subseteq ACTIVE_JOB_STATUSES => a = b

\* A finalised batch is not processed again: its status, its jobs and its notes are kept.
FinalBatchIsKept ==
  [][ \A b \in Batches : batch[b] \in FINAL_BATCH_STATUSES =>
        /\ batch'[b] = batch[b]
        /\ job'[b] = job[b]
        /\ \A n \in Range(lot[b]) : note'[n] = note[n] ]_vars

\* One issue per note: one delivery has documents for it, it keeps them and the status, and no
\* message of an earlier failure is left on it.
IssuedOnce ==
  \A n \in Notes :
    /\ \A x, y \in docs : x[2] = n /\ y[2] = n => x[1] = y[1] /\ note[n].status = "ISSUED"
    /\ note[n].status = "ISSUED" => ~note[n].error

\* While transactions do not overlap, the handlers implement the contract of EmissionContract.
Contract == INSTANCE EmissionContract WITH
  Batches <- Batches,
  status <- [n \in Notes |-> note[n].status],
  fate <- batch,
  members <- [b \in Batches |-> Range(lot[b])]

ImplementsContract == Contract!Spec

\* A note is in one batch at most, and the statuses of both agree.
OneFateEach == Contract!OneFateEach

=============================================================================
