---------------------------- MODULE EmissionProofs ----------------------------
(***************************************************************************)
(* Proofs about Emission, for any notes, requests, deliveries and bound on *)
(* the open transactions.                                                  *)
(***************************************************************************)
EXTENDS Emission, Waiting, FiniteSetTheorems, TLAPS

USE EmissionAssumption DEF Transactions, Batches

Opened(t) == pc[t] \notin {"idle", "done"}
Loaded(d) == pc[d] \in {"notes", "jobloop", "xml", "pdf"}

\* An open delivery works on a batch that exists, at a position of its list.
DeliveriesInv ==
  \A d \in Deliveries : Opened(d) =>
    /\ task[d].batch \in Batches
    /\ batch[task[d].batch] # "NONE"
    /\ pc[d] \in {"xml", "pdf"} => pos[d] \in DOMAIN JobList(d)

\* The batch of a request that has not ended does not exist; a pending job is in the list
\* of its batch.
BatchesInv ==
  /\ \A r \in Requests : pc[r] # "done" => batch[r] = "NONE"
  /\ \A b \in Batches : \A n \in Notes :
       job[b][n].status = "PENDING" => batch[b] # "NONE" /\ n \in Range(lot[b])

\* A queued note has a pending job whose batch every delivery knows to have it queued: that
\* delivery will write the status of the note when it makes the job final.
QueueInv ==
  \A n \in Notes : note[n].status = "QUEUED" =>
    \E b \in Batches :
      /\ job[b][n].status = "PENDING"
      /\ \A d \in Deliveries :
           Loaded(d) /\ task[d].batch = b => seenNote[d][n].status = "QUEUED"

IInv == TypeOK /\ DeliveriesInv /\ BatchesInv /\ QueueInv

-----------------------------------------------------------------------------
(* Facts about the lists of a request and of a batch *)

\* A list is a non-empty sequence of notes.
LEMMA ListIsSequence ==
  ASSUME NEW s \in Lists
  PROVE  /\ \E k \in Nat \ {0} : DOMAIN s = 1..k
         /\ \A i \in DOMAIN s : s[i] \in Notes
BY DEF Lists

\* No note is twice in a list.
LEMMA ListIsInjective ==
  ASSUME NEW s \in Lists, NEW i \in DOMAIN s, NEW j \in DOMAIN s, s[i] = s[j]
  PROVE  i = j
BY DEF Lists, IsInjective

\* The empty list of a batch that does not exist has no position.
LEMMA EmptyHasNoPosition == DOMAIN <<>> = {}
OBVIOUS

\* The elements of a list are notes, each at a position of the list.
LEMMA PositionOfNote ==
  ASSUME NEW s \in Lists \cup {<<>>}, NEW n \in Range(s)
  PROVE  n \in Notes /\ IndexOf(s, n) \in DOMAIN s /\ s[IndexOf(s, n)] = n
BY ListIsSequence, EmptyHasNoPosition DEF Range, IndexOf

-----------------------------------------------------------------------------
(* Type correctness *)

\* Closing a transaction leaves every session well typed.
LEMMA CloseKeepsSessions ==
  ASSUME SessionsOK, NEW t \in Transactions, Close(t)
  PROVE  SessionsOK'
<1>1. NoTask \in [batch : Batches \cup {None}, scenario : Scenarios]
  BY DEF NoTask, Scenarios
<1>2. NothingSeen \in [Notes -> JobRow]
  BY DEF NothingSeen, NoJob, JobRow, JobStatuses
<1>3. NoNoteSeen \in [Notes -> NoteRow]
  BY DEF NoNoteSeen, NoteRow, NoteStatuses
<1>4. QED
  BY <1>1, <1>2, <1>3 DEF Close, SessionsOK

\* So does taking a row lock.
LEMMA TakeTyped ==
  ASSUME lock \in [Notes \cup Batches -> Transactions \cup {None}],
         NEW t \in Transactions, NEW row, Take(t, row)
  PROVE  lock' \in [Notes \cup Batches -> Transactions \cup {None}]
BY DEF Take

\* The initial rows and sessions are well typed.
LEMMA InitTypeOK == Init => TypeOK
<1> SUFFICES ASSUME Init PROVE TypeOK
  OBVIOUS
<1> DEFINE Fresh == {[status |-> s, key |-> FALSE, error |-> FALSE] : s \in {"ABSENT", "DRAFT"}}
<1>0. Fresh \subseteq NoteRow
  <2>1. \A s \in {"ABSENT", "DRAFT"} : [status |-> s, key |-> FALSE, error |-> FALSE] \in NoteRow
    BY DEF NoteRow, NoteStatuses
  <2>2. QED
    BY <2>1
<1>1. note \in [Notes -> NoteRow]
  <2>1. note \in [Notes -> Fresh]
    BY DEF Init
  <2> HIDE DEF Fresh
  <2>2. QED
    BY <1>0, <2>1
<1>2. /\ NothingSeen \in [Notes -> JobRow]
      /\ NoNoteSeen \in [Notes -> NoteRow]
      /\ NoTask \in [batch : Batches \cup {None}, scenario : Scenarios]
  BY DEF NothingSeen, NoJob, JobRow, JobStatuses, NoNoteSeen, NoteRow, NoteStatuses,
         NoTask, Scenarios
<1>3. TablesOK
  BY <1>1, <1>2 DEF Init, TablesOK, BatchStatuses
<1>4. SessionsOK
  BY <1>2 DEF Init, SessionsOK
<1>5. QED
  BY <1>3, <1>4 DEF TypeOK

\* The rows a delivery leaves are well typed.
LEMMA WrittenRowsTyped ==
  ASSUME TypeOK, NEW d \in Deliveries, task[d].batch \in Batches,
         NEW i \in DOMAIN JobList(d)
  PROVE  /\ JobList(d)[i] \in Notes
         /\ NoteWritten(d, i) \in NoteRow
         /\ JobWritten(d, i) \in JobRow
<1>1. JobList(d) \in Lists \cup {<<>>}
  BY DEF TypeOK, TablesOK, JobList
<1>2. JobList(d)[i] \in Notes
  BY <1>1, ListIsSequence, EmptyHasNoPosition
<1> DEFINE n == JobList(d)[i]
           b == task[d].batch
<1>3. /\ seenNote[d][n] \in NoteRow /\ note[n] \in NoteRow
      /\ seenJob[d][n] \in JobRow /\ job[b][n] \in JobRow
  BY <1>2 DEF TypeOK, TablesOK, SessionsOK
<1>4. \A x, y \in BOOLEAN : Dirty(seenJob[d][n].error, x, y) \in BOOLEAN
  BY DEF Dirty
<1>5. NoteWritten(d, i) \in NoteRow
  BY <1>3 DEF NoteWritten, NoteRow, NoteStatuses, Dirty
<1>6. JobWritten(d, i) \in JobRow
  <2>1. CASE Skipped(d, i)
    BY <1>3, <2>1 DEF JobWritten, JobRow, JobStatuses, Dirty
  <2>2. CASE ~Skipped(d, i)
    <3>1. seenJob[d][n].attempts + 1 \in Nat
      BY <1>3 DEF JobRow
    <3>2. QED
      BY <1>3, <1>4, <2>2, <3>1 DEF JobWritten, JobRow, JobStatuses
  <2>3. QED
    BY <2>1, <2>2
<1>7. QED
  BY <1>2, <1>5, <1>6

\* Every step leaves the tables and the sessions well typed.
LEMMA StepTypeOK ==
  ASSUME TypeOK, DeliveriesInv, [Next]_vars
  PROVE  TypeOK'
<1> USE DEF TypeOK
<1>1. ASSUME NEW t \in Transactions, Close(t), TablesOK'
      PROVE  TypeOK'
  BY <1>1, CloseKeepsSessions
<1>2. ASSUME UNCHANGED tables, UNCHANGED objects
      PROVE  TablesOK'
  BY <1>2 DEF TablesOK, tables
<1>3. ASSUME NEW r \in Requests, SelectNotes(r)
      PROVE  TypeOK'
  <2>1. SessionsOK'
    BY <1>3 DEF SelectNotes, SessionsOK
  <2>2. QED
    BY <1>2, <1>3, <2>1 DEF SelectNotes
<1>4. ASSUME NEW r \in Requests, RefuseNotes(r) \/ RefuseActive(r)
      PROVE  TypeOK'
  BY <1>1, <1>2, <1>4 DEF RefuseNotes, RefuseActive
<1>5. ASSUME NEW r \in Requests, InsertBatch(r)
      PROVE  TypeOK'
  <2>1. SessionsOK'
    BY <1>5 DEF InsertBatch, SessionsOK
  <2>2. QED
    BY <1>2, <1>5, <2>1 DEF InsertBatch
<1>6. ASSUME NEW r \in Requests, QueueNote(r)
      PROVE  TypeOK'
  <2>1. pos' \in [Transactions -> Nat]
    BY <1>6 DEF QueueNote, SessionsOK
  <2>2. lock' \in [Notes \cup Batches -> Transactions \cup {None}]
    BY <1>6, TakeTyped DEF QueueNote, SessionsOK
  <2>3. SessionsOK'
    BY <1>6, <2>1, <2>2 DEF QueueNote, SessionsOK
  <2>4. QED
    BY <1>2, <1>6, <2>3 DEF QueueNote
<1>7. ASSUME NEW r \in Requests, CommitRequest(r)
      PROVE  TypeOK'
  <2>1. \A n \in Range(ids[r]) : n \in Notes
    BY PositionOfNote DEF SessionsOK
  <2>2. note' \in [Notes -> NoteRow]
    <3>1. \A n \in Notes : /\ note[n] \in NoteRow
                          /\ [note[n] EXCEPT !.status = "QUEUED"] \in NoteRow
      BY DEF TablesOK, NoteRow, NoteStatuses
    <3>2. QED
      BY <1>7, <3>1 DEF CommitRequest
  <2>3. job' \in [Batches -> [Notes -> JobRow]]
    <3>1. NoJob \in JobRow /\ [NoJob EXCEPT !.status = "PENDING"] \in JobRow
      BY DEF NoJob, JobRow, JobStatuses
    <3>2. QED
      BY <1>7, <3>1 DEF CommitRequest, TablesOK
  <2>4. /\ batch' \in [Batches -> BatchStatuses]
        /\ lot' \in [Batches -> Lists \cup {<<>>}]
    BY <1>7 DEF CommitRequest, TablesOK, BatchStatuses
  <2>5. audit' \subseteq Transactions \X AuditActions \X Batches \X Notes
    BY <1>7, <2>1 DEF CommitRequest, TablesOK, AuditActions
  <2>6. TablesOK'
    BY <1>7, <2>2, <2>3, <2>4, <2>5 DEF CommitRequest, TablesOK
  <2>7. QED
    BY <1>1, <1>7, <2>6 DEF CommitRequest
<1>8. ASSUME NEW d \in Deliveries, SelectBatch(d)
      PROVE  TypeOK'
  <2>1. SessionsOK'
    BY <1>8 DEF SelectBatch, SessionsOK
  <2>2. QED
    BY <1>2, <1>8, <2>1 DEF SelectBatch
<1>9. ASSUME NEW d \in Deliveries, RefuseBatch(d)
      PROVE  TypeOK'
  BY <1>1, <1>2, <1>9 DEF RefuseBatch
<1>10. ASSUME NEW d \in Deliveries, SelectJobs(d)
       PROVE  TypeOK'
  <2>1. SessionsOK'
    BY <1>10 DEF SelectJobs, SessionsOK, TablesOK, DeliveriesInv, Opened
  <2>2. QED
    BY <1>2, <1>10, <2>1 DEF SelectJobs
<1>11. ASSUME NEW d \in Deliveries, SelectJobNotes(d)
       PROVE  TypeOK'
  <2>1. NoNoteSeen \in [Notes -> NoteRow]
    BY DEF NoNoteSeen, NoteRow, NoteStatuses
  <2>2. SessionsOK'
    BY <1>11, <2>1 DEF SelectJobNotes, SessionsOK, TablesOK
  <2>3. QED
    BY <1>2, <1>11, <2>2 DEF SelectJobNotes
<1>12. ASSUME NEW d \in Deliveries, StartBatch(d)
       PROVE  TypeOK'
  <2>1. lock' \in [Notes \cup Batches -> Transactions \cup {None}]
    BY <1>12, TakeTyped DEF StartBatch, SessionsOK
  <2>2. SessionsOK'
    BY <1>12, <2>1 DEF StartBatch, SessionsOK
  <2>3. QED
    BY <1>2, <1>12, <2>2 DEF StartBatch
<1>13. ASSUME NEW d \in Deliveries, SkipIssuedNote(d) \/ FailNote(d) \/ IssueNote(d)
       PROVE  TypeOK'
  <2>1. lock' \in [Notes \cup Batches -> Transactions \cup {None}]
    BY <1>13, TakeTyped DEF SkipIssuedNote, FailNote, IssueNote, SessionsOK
  <2>2. pos' \in [Transactions -> Nat]
    BY <1>13 DEF SkipIssuedNote, FailNote, IssueNote, SessionsOK
  <2>3. pc' \in [Transactions -> {"idle", "selected", "queueing", "batch", "jobs", "notes",
                                  "jobloop", "xml", "pdf", "done"}]
    BY <1>13 DEF SkipIssuedNote, FailNote, IssueNote, SessionsOK
  <2>4. SessionsOK'
    <3>1. UNCHANGED <<ids, task, seenJob, seenNote>>
      BY <1>13 DEF SkipIssuedNote, FailNote, IssueNote
    <3>2. QED
      BY <2>1, <2>2, <2>3, <3>1 DEF SessionsOK
  <2>5. QED
    BY <1>2, <1>13, <2>4 DEF SkipIssuedNote, FailNote, IssueNote
<1>14. ASSUME NEW d \in Deliveries, StoreXml(d) \/ StoreDanfe(d)
       PROVE  TypeOK'
  <2>1. pos[d] \in DOMAIN JobList(d) /\ task[d].batch \in Batches
    BY <1>14 DEF StoreXml, StoreDanfe, DeliveriesInv, Opened
  <2>2. JobList(d)[pos[d]] \in Notes
    BY <2>1, WrittenRowsTyped
  <2>3. TablesOK'
    BY <1>14, <2>2 DEF StoreXml, StoreDanfe, Save, TablesOK, tables, Object, DocumentTypes
  <2>4. SessionsOK'
    <3>1. CASE StoreXml(d)
      BY <3>1 DEF StoreXml, SessionsOK, session
    <3>2. CASE StoreDanfe(d)
      BY <3>2 DEF StoreDanfe, SessionsOK
    <3>3. QED
      BY <1>14, <3>1, <3>2
  <2>5. QED
    BY <2>3, <2>4
<1>15. ASSUME NEW d \in Deliveries, CommitBatch(d)
       PROVE  TypeOK'
  <2> DEFINE b == task[d].batch
             list == JobList(d)
  <2>1. b \in Batches /\ list \in Lists \cup {<<>>}
    BY <1>15 DEF CommitBatch, DeliveriesInv, Opened, JobList, TablesOK
  <2>2. \A i \in DOMAIN list :
          /\ list[i] \in Notes
          /\ NoteWritten(d, i) \in NoteRow
          /\ JobWritten(d, i) \in JobRow
    BY <2>1, WrittenRowsTyped
  <2>3. \A n \in Range(list) : IndexOf(list, n) \in DOMAIN list
    BY <2>1, PositionOfNote
  <2>4. note' \in [Notes -> NoteRow]
    BY <1>15, <2>2, <2>3 DEF CommitBatch, TablesOK
  <2>5. job' \in [Batches -> [Notes -> JobRow]]
    BY <1>15, <2>2, <2>3 DEF CommitBatch, TablesOK
  <2>6. batch' \in [Batches -> BatchStatuses]
    BY <1>15 DEF CommitBatch, FinalStatus, TablesOK, BatchStatuses
  <2>7. docs' \subseteq Object
    BY <1>15, <2>2 DEF CommitBatch, DocumentsWritten, TablesOK, Object
  <2>8. AuditsWritten(d) \subseteq Transactions \X AuditActions \X Batches \X Notes
    BY <2>1, <2>2 DEF AuditsWritten, AuditActions
  <2>9. TablesOK'
    BY <1>15, <2>4, <2>5, <2>6, <2>7, <2>8 DEF CommitBatch, TablesOK
  <2>10. QED
    BY <1>1, <1>15, <2>9 DEF CommitBatch
<1>16. ASSUME NEW t \in Transactions, Abort(t) \/ AbortDeadlocked(t)
       PROVE  TypeOK'
  BY <1>1, <1>2, <1>16 DEF Abort, AbortDeadlocked
<1>17. ASSUME UNCHANGED vars
       PROVE  TypeOK'
  BY <1>17 DEF vars, TablesOK, SessionsOK
<1>18. QED
  BY <1>3, <1>4, <1>5, <1>6, <1>7, <1>8, <1>9, <1>10, <1>11, <1>12, <1>13, <1>14, <1>15,
     <1>16, <1>17
  DEF Next, OpenRequest, ContinueRequest, OpenDelivery, ContinueDelivery, Quiescent

-----------------------------------------------------------------------------
(* Who changes what *)

\* What a delivery knows, and where it stands, is changed by its own steps only.
SessionKept(d) ==
  /\ pc'[d] = pc[d]
  /\ pos'[d] = pos[d]
  /\ task'[d] = task[d]
  /\ seenJob'[d] = seenJob[d]
  /\ seenNote'[d] = seenNote[d]

\* Closing a transaction leaves the sessions of the others alone.
LEMMA CloseKeepsOthers ==
  ASSUME SessionsOK, NEW t \in Transactions, Close(t),
         NEW d \in Deliveries, d # t
  PROVE  SessionKept(d)
BY DEF SessionKept, Close, SessionsOK

\* A closed transaction is done, and only that one.
LEMMA CloseEnds ==
  ASSUME SessionsOK, NEW t \in Transactions, Close(t)
  PROVE  /\ pc'[t] = "done"
         /\ \A u \in Transactions : u # t => pc'[u] = pc[u]
BY DEF Close, SessionsOK

\* The session of a delivery stays as it is, ends, or moves by a step of the delivery itself.
LEMMA DeliveryMovesItself ==
  ASSUME TypeOK, [Next]_vars, NEW d \in Deliveries
  PROVE  \/ SessionKept(d)
         \/ pc'[d] = "done"
         \/ SelectBatch(d) \/ SelectJobs(d) \/ SelectJobNotes(d) \/ StartBatch(d)
         \/ SkipIssuedNote(d) \/ FailNote(d) \/ IssueNote(d) \/ StoreXml(d) \/ StoreDanfe(d)
<1>1. ASSUME NEW t \in Transactions, Close(t)
      PROVE  SessionKept(d) \/ pc'[d] = "done"
  BY <1>1, CloseKeepsOthers, CloseEnds DEF TypeOK
<1>2. ASSUME NEW r \in Requests, OpenRequest(r) \/ ContinueRequest(r)
      PROVE  SessionKept(d) \/ pc'[d] = "done"
  <2>1. CASE SelectNotes(r) \/ InsertBatch(r) \/ QueueNote(r)
    BY <2>1 DEF SelectNotes, InsertBatch, QueueNote, SessionKept, TypeOK, SessionsOK
  <2>2. CASE RefuseNotes(r) \/ RefuseActive(r) \/ CommitRequest(r)
    BY <1>1, <2>2 DEF RefuseNotes, RefuseActive, CommitRequest
  <2>3. QED
    BY <1>2, <2>1, <2>2 DEF OpenRequest, ContinueRequest
<1>3. ASSUME NEW e \in Deliveries, RefuseBatch(e) \/ CommitBatch(e)
      PROVE  SessionKept(d) \/ pc'[d] = "done"
  BY <1>1, <1>3 DEF RefuseBatch, CommitBatch
<1>4. ASSUME NEW e \in Deliveries, e # d,
             \/ SelectBatch(e) \/ SelectJobs(e) \/ SelectJobNotes(e) \/ StartBatch(e)
             \/ SkipIssuedNote(e) \/ FailNote(e) \/ IssueNote(e) \/ StoreXml(e) \/ StoreDanfe(e)
      PROVE  SessionKept(d)
  <2>1. CASE SelectBatch(e) \/ SelectJobs(e) \/ SelectJobNotes(e) \/ StartBatch(e)
    BY <1>4, <2>1
    DEF SelectBatch, SelectJobs, SelectJobNotes, StartBatch, SessionKept, TypeOK, SessionsOK
  <2>2. CASE SkipIssuedNote(e) \/ FailNote(e) \/ IssueNote(e)
    BY <1>4, <2>2 DEF SkipIssuedNote, FailNote, IssueNote, SessionKept, TypeOK, SessionsOK
  <2>3. CASE StoreXml(e)
    BY <1>4, <2>3 DEF StoreXml, session, SessionKept, TypeOK, SessionsOK
  <2>4. CASE StoreDanfe(e)
    BY <1>4, <2>4 DEF StoreDanfe, SessionKept, TypeOK, SessionsOK
  <2>5. QED
    BY <1>4, <2>1, <2>2, <2>3, <2>4
<1>5. ASSUME NEW t \in Transactions, Abort(t) \/ AbortDeadlocked(t)
      PROVE  SessionKept(d) \/ pc'[d] = "done"
  BY <1>1, <1>5 DEF Abort, AbortDeadlocked
<1>6. ASSUME UNCHANGED vars
      PROVE  SessionKept(d)
  BY <1>6 DEF vars, SessionKept
<1>7. QED
  BY <1>2, <1>3, <1>4, <1>5, <1>6 DEF Next, OpenDelivery, ContinueDelivery, Quiescent

\* The tables change at a commit only.
LEMMA TablesMoveAtCommit ==
  ASSUME [Next]_vars
  PROVE  \/ UNCHANGED tables
         \/ \E r \in Requests : CommitRequest(r)
         \/ \E d \in Deliveries : CommitBatch(d)
<1>1. ASSUME NEW r \in Requests, OpenRequest(r) \/ ContinueRequest(r)
      PROVE  UNCHANGED tables \/ CommitRequest(r)
  BY <1>1 DEF OpenRequest, ContinueRequest, SelectNotes, RefuseNotes, InsertBatch,
              RefuseActive, QueueNote
<1>2. ASSUME NEW d \in Deliveries, OpenDelivery(d) \/ ContinueDelivery(d)
      PROVE  UNCHANGED tables \/ CommitBatch(d)
  BY <1>2 DEF OpenDelivery, ContinueDelivery, SelectBatch, RefuseBatch, SelectJobs,
              SelectJobNotes, StartBatch, SkipIssuedNote, FailNote, IssueNote, StoreXml,
              StoreDanfe
<1>3. ASSUME NEW t \in Transactions, Abort(t) \/ AbortDeadlocked(t)
      PROVE  UNCHANGED tables
  BY <1>3 DEF Abort, AbortDeadlocked
<1>4. UNCHANGED vars => UNCHANGED tables
  BY DEF vars, tables
<1>5. QED
  BY <1>1, <1>2, <1>3, <1>4 DEF Next, Quiescent

\* A batch that exists stays, and keeps its list.
LEMMA BatchStays ==
  ASSUME TypeOK, BatchesInv, [Next]_vars, NEW b \in Batches, batch[b] # "NONE"
  PROVE  batch'[b] # "NONE" /\ lot'[b] = lot[b]
<1>1. ASSUME NEW r \in Requests, CommitRequest(r)
      PROVE  batch'[b] # "NONE" /\ lot'[b] = lot[b]
  <2>1. b # r
    BY <1>1 DEF CommitRequest, BatchesInv
  <2>2. QED
    BY <1>1, <2>1 DEF CommitRequest, TypeOK, TablesOK
<1>2. ASSUME NEW d \in Deliveries, CommitBatch(d)
      PROVE  batch'[b] # "NONE" /\ lot'[b] = lot[b]
  BY <1>2 DEF CommitBatch, FinalStatus, TypeOK, TablesOK
<1>3. QED
  BY <1>1, <1>2, TablesMoveAtCommit DEF tables

\* An open delivery goes on having a batch and a position of its list.
LEMMA StepDeliveriesInv ==
  ASSUME TypeOK, DeliveriesInv, BatchesInv, [Next]_vars
  PROVE  DeliveriesInv'
<1> SUFFICES ASSUME NEW d \in Deliveries, Opened(d)'
             PROVE  (/\ task[d].batch \in Batches
                     /\ batch[task[d].batch] # "NONE"
                     /\ pc[d] \in {"xml", "pdf"} => pos[d] \in DOMAIN JobList(d))'
  BY DEF DeliveriesInv
<1>1. CASE SessionKept(d)
  BY <1>1, BatchStays DEF SessionKept, DeliveriesInv, Opened, JobList
<1>2. CASE SelectBatch(d)
  <2>1. /\ task'[d].batch \in Batches
        /\ batch[task'[d].batch] # "NONE"
        /\ pc'[d] = "batch"
    BY <1>2 DEF SelectBatch, MayProcess, TypeOK, SessionsOK
  <2>2. QED
    BY <2>1, BatchStays
<1>3. CASE SelectJobs(d) \/ SelectJobNotes(d) \/ StartBatch(d) \/ SkipIssuedNote(d) \/ FailNote(d)
  <2>1. Opened(d) /\ task'[d] = task[d] /\ pc'[d] \notin {"xml", "pdf"}
    BY <1>3 DEF SelectJobs, SelectJobNotes, StartBatch, SkipIssuedNote, FailNote, AtJob,
                Opened, TypeOK, SessionsOK
  <2>2. QED
    BY <2>1, BatchStays DEF DeliveriesInv
<1>4. CASE IssueNote(d)
  <2>1. Opened(d) /\ task'[d] = task[d] /\ pos'[d] = pos[d] /\ pos[d] \in DOMAIN JobList(d)
    BY <1>4 DEF IssueNote, AtJob, Opened
  <2>2. QED
    BY <2>1, BatchStays DEF DeliveriesInv, JobList
<1>5. CASE StoreXml(d)
  <2>1. Opened(d) /\ task'[d] = task[d] /\ pos'[d] = pos[d] /\ pc[d] = "xml"
    BY <1>5 DEF StoreXml, session, Opened
  <2>2. QED
    BY <2>1, BatchStays DEF DeliveriesInv, JobList
<1>6. CASE StoreDanfe(d)
  <2>1. Opened(d) /\ task'[d] = task[d] /\ pc'[d] = "jobloop"
    BY <1>6 DEF StoreDanfe, Opened, TypeOK, SessionsOK
  <2>2. QED
    BY <2>1, BatchStays DEF DeliveriesInv
<1>7. QED
  BY <1>1, <1>2, <1>3, <1>4, <1>5, <1>6, DeliveryMovesItself DEF Opened

\* A transaction that has ended does nothing more.
LEMMA DoneStays ==
  ASSUME TypeOK, [Next]_vars, NEW t \in Transactions, pc[t] = "done"
  PROVE  pc'[t] = "done"
<1>1. ASSUME NEW u \in Transactions, Close(u)
      PROVE  pc'[t] = "done"
  BY <1>1, CloseEnds DEF TypeOK
<1>2. ASSUME NEW r \in Requests, OpenRequest(r) \/ ContinueRequest(r)
      PROVE  pc'[t] = "done"
  <2>1. CASE SelectNotes(r) \/ InsertBatch(r) \/ QueueNote(r)
    BY <2>1 DEF SelectNotes, MayOpen, InsertBatch, QueueNote, TypeOK, SessionsOK
  <2>2. CASE RefuseNotes(r) \/ RefuseActive(r) \/ CommitRequest(r)
    BY <1>1, <2>2 DEF RefuseNotes, RefuseActive, CommitRequest
  <2>3. QED
    BY <1>2, <2>1, <2>2 DEF OpenRequest, ContinueRequest
<1>3. ASSUME NEW d \in Deliveries, OpenDelivery(d) \/ ContinueDelivery(d)
      PROVE  pc'[t] = "done"
  <2>1. CASE RefuseBatch(d) \/ CommitBatch(d)
    BY <1>1, <2>1 DEF RefuseBatch, CommitBatch
  <2>2. CASE SelectBatch(d) \/ SelectJobs(d) \/ SelectJobNotes(d) \/ StartBatch(d)
    BY <2>2 DEF SelectBatch, MayOpen, SelectJobs, SelectJobNotes, StartBatch, TypeOK, SessionsOK
  <2>3. CASE SkipIssuedNote(d) \/ FailNote(d) \/ IssueNote(d)
    BY <2>3 DEF SkipIssuedNote, FailNote, IssueNote, AtJob, TypeOK, SessionsOK
  <2>4. CASE StoreXml(d) \/ StoreDanfe(d)
    BY <2>4 DEF StoreXml, StoreDanfe, TypeOK, SessionsOK
  <2>5. QED
    BY <1>3, <2>1, <2>2, <2>3, <2>4 DEF OpenDelivery, ContinueDelivery
<1>4. ASSUME NEW u \in Transactions, Abort(u) \/ AbortDeadlocked(u)
      PROVE  pc'[t] = "done"
  BY <1>1, <1>4 DEF Abort, AbortDeadlocked
<1>5. ASSUME UNCHANGED vars
      PROVE  pc'[t] = "done"
  BY <1>5 DEF vars
<1>6. QED
  BY <1>2, <1>3, <1>4, <1>5 DEF Next, Quiescent

\* A batch appears with its request's commit, its pending jobs are those of its list.
LEMMA StepBatchesInv ==
  ASSUME TypeOK, DeliveriesInv, BatchesInv, [Next]_vars
  PROVE  BatchesInv'
<1>1. CASE UNCHANGED tables
  BY <1>1, DoneStays DEF tables, BatchesInv
<1>2. ASSUME NEW r \in Requests, CommitRequest(r)
      PROVE  BatchesInv'
  <2>1. pc'[r] = "done"
    BY <1>2, CloseEnds DEF CommitRequest, TypeOK
  <2>2. \A q \in Requests : pc'[q] # "done" => batch'[q] = "NONE"
    BY <1>2, <2>1, DoneStays DEF CommitRequest, BatchesInv, TypeOK, TablesOK
  <2>3. \A n \in Notes : job'[r][n].status = "PENDING" =>
                            batch'[r] # "NONE" /\ n \in Range(lot'[r])
    BY <1>2 DEF CommitRequest, NoJob, TypeOK, TablesOK
  <2>4. \A b \in Batches : b # r => job'[b] = job[b] /\ lot'[b] = lot[b]
    BY <1>2 DEF CommitRequest, TypeOK, TablesOK
  <2>5. QED
    BY <2>2, <2>3, <2>4, BatchStays DEF BatchesInv
<1>3. ASSUME NEW d \in Deliveries, CommitBatch(d)
      PROVE  BatchesInv'
  <2> DEFINE b == task[d].batch
  <2>1. b \in Batches /\ batch[b] # "NONE"
    BY <1>3 DEF CommitBatch, DeliveriesInv, Opened
  <2>2. \A q \in Requests : pc'[q] # "done" => batch'[q] = "NONE"
    BY <1>3, <2>1, DoneStays DEF CommitBatch, BatchesInv, TypeOK, TablesOK
  <2>3. \A n \in Notes : n \notin Range(lot[b]) => job'[b][n] = job[b][n]
    BY <1>3, <2>1 DEF CommitBatch, JobList, TypeOK, TablesOK
  <2>4. \A c \in Batches : c # b => job'[c] = job[c]
    BY <1>3 DEF CommitBatch, TypeOK, TablesOK
  <2>5. lot' = lot
    BY <1>3 DEF CommitBatch
  <2>6. batch'[b] # "NONE"
    BY <2>1, BatchStays
  <2>7. \A c \in Batches : \A n \in Notes :
          job'[c][n].status = "PENDING" => batch'[c] # "NONE" /\ n \in Range(lot'[c])
    BY <2>1, <2>3, <2>4, <2>5, <2>6, BatchStays DEF BatchesInv
  <2>8. QED
    BY <2>2, <2>7 DEF BatchesInv
<1>4. QED
  BY <1>1, <1>2, <1>3, TablesMoveAtCommit

-----------------------------------------------------------------------------
(* No queued note is stranded *)

\* What a delivery knows of a note that is queued in its batch is that it is queued, and a
\* step that leaves the tables alone leaves it so.
LEMMA ReadKeepsWitness ==
  ASSUME TypeOK, BatchesInv, [Next]_vars, UNCHANGED tables,
         NEW n \in Notes, note[n].status = "QUEUED",
         NEW b \in Batches, job[b][n].status = "PENDING",
         NEW d \in Deliveries,
         Loaded(d) /\ task[d].batch = b => seenNote[d][n].status = "QUEUED",
         Loaded(d)', task'[d].batch = b
  PROVE  seenNote'[d][n].status = "QUEUED"
<1>1. CASE SessionKept(d)
  BY <1>1 DEF SessionKept, Loaded
<1>2. CASE SelectBatch(d) \/ SelectJobs(d)
  BY <1>2 DEF SelectBatch, SelectJobs, Loaded, TypeOK, SessionsOK
<1>3. CASE SelectJobNotes(d)
  <2>1. task[d].batch = b /\ n \in Range(lot[b])
    BY <1>3 DEF SelectJobNotes, BatchesInv
  <2>2. QED
    BY <1>3, <2>1 DEF SelectJobNotes, TypeOK, SessionsOK
<1>4. CASE \/ StartBatch(d) \/ SkipIssuedNote(d) \/ FailNote(d) \/ IssueNote(d)
           \/ StoreXml(d) \/ StoreDanfe(d)
  <2>1. Loaded(d) /\ task'[d] = task[d] /\ seenNote'[d] = seenNote[d]
    BY <1>4 DEF StartBatch, SkipIssuedNote, FailNote, IssueNote, AtJob, StoreXml, StoreDanfe,
                session, Loaded
  <2>2. QED
    BY <2>1
<1>5. QED
  BY <1>1, <1>2, <1>3, <1>4, DeliveryMovesItself DEF Loaded

\* A delivery that saw a note of its list queued leaves it issued or failed.
LEMMA CommitSettlesNote ==
  ASSUME TypeOK, NEW d \in Deliveries, CommitBatch(d), task[d].batch \in Batches,
         NEW n \in Range(JobList(d)), seenNote[d][n].status = "QUEUED"
  PROVE  note'[n].status \in {"ISSUED", "FAILED"}
<1> DEFINE i == IndexOf(JobList(d), n)
<1>1. n \in Notes /\ i \in DOMAIN JobList(d) /\ JobList(d)[i] = n
  BY PositionOfNote DEF TypeOK, TablesOK, JobList
<1>2. ~Skipped(d, i)
  BY <1>1 DEF Skipped
<1>3. NoteWritten(d, i).status \in {"ISSUED", "FAILED"}
  BY <1>1, <1>2 DEF NoteWritten, Dirty
<1>4. QED
  BY <1>1, <1>3 DEF CommitBatch

\* A delivery never queues a note.
LEMMA CommitQueuesNothing ==
  ASSUME TypeOK, NEW d \in Deliveries, CommitBatch(d), task[d].batch \in Batches,
         NEW n \in Notes, note'[n].status = "QUEUED"
  PROVE  note[n].status = "QUEUED"
<1>1. CASE n \notin Range(JobList(d))
  BY <1>1 DEF CommitBatch
<1>2. CASE n \in Range(JobList(d))
  <2> DEFINE i == IndexOf(JobList(d), n)
  <2>1. i \in DOMAIN JobList(d) /\ JobList(d)[i] = n
    BY <1>2, PositionOfNote DEF TypeOK, TablesOK, JobList
  <2>2. note'[n] = NoteWritten(d, i)
    BY <1>2 DEF CommitBatch
  <2>3. NoteWritten(d, i).status = "QUEUED" => note[n].status = "QUEUED"
    BY <2>1 DEF NoteWritten, Dirty
  <2>4. QED
    BY <2>2, <2>3
<1>3. QED
  BY <1>1, <1>2

\* A queued note keeps a pending job that will settle it.
LEMMA StepQueueInv ==
  ASSUME IInv, [Next]_vars
  PROVE  QueueInv'
<1> USE DEF IInv
<1> SUFFICES ASSUME NEW n \in Notes, note'[n].status = "QUEUED"
             PROVE  \E b \in Batches :
                      /\ job'[b][n].status = "PENDING"
                      /\ \A d \in Deliveries :
                           Loaded(d)' /\ task'[d].batch = b
                             => seenNote'[d][n].status = "QUEUED"
  BY DEF QueueInv
<1>1. CASE UNCHANGED tables
  <2>1. PICK b \in Batches :
          /\ job[b][n].status = "PENDING"
          /\ \A d \in Deliveries :
               Loaded(d) /\ task[d].batch = b => seenNote[d][n].status = "QUEUED"
    BY <1>1 DEF tables, QueueInv
  <2>2. job'[b][n].status = "PENDING" /\ note[n].status = "QUEUED"
    BY <1>1, <2>1 DEF tables
  <2>3. QED
    BY <1>1, <2>1, <2>2, ReadKeepsWitness
<1>2. ASSUME NEW r \in Requests, CommitRequest(r)
      PROVE  \E b \in Batches :
               /\ job'[b][n].status = "PENDING"
               /\ \A d \in Deliveries :
                    Loaded(d)' /\ task'[d].batch = b => seenNote'[d][n].status = "QUEUED"
  <2>1. \A d \in Deliveries : SessionKept(d)
    <3>1. \A d \in Deliveries : d # r
      OBVIOUS
    <3>2. QED
      BY <1>2, <3>1, CloseKeepsOthers DEF CommitRequest, TypeOK
  <2>2. CASE n \in Range(ids[r])
    <3>1. job'[r][n].status = "PENDING"
      BY <1>2, <2>2 DEF CommitRequest, NoJob, TypeOK, TablesOK
    <3>2. batch[r] = "NONE"
      BY <1>2 DEF CommitRequest, BatchesInv
    <3>3. \A d \in Deliveries : ~(Loaded(d)' /\ task'[d].batch = r)
      BY <2>1, <3>2 DEF SessionKept, DeliveriesInv, Loaded, Opened
    <3>4. QED
      BY <3>1, <3>3
  <2>3. CASE n \notin Range(ids[r])
    <3>1. note[n].status = "QUEUED"
      BY <1>2, <2>3 DEF CommitRequest
    <3>2. PICK b \in Batches :
            /\ job[b][n].status = "PENDING"
            /\ \A d \in Deliveries :
                 Loaded(d) /\ task[d].batch = b => seenNote[d][n].status = "QUEUED"
      BY <3>1 DEF QueueInv
    <3>3. b # r
      BY <1>2, <3>2 DEF CommitRequest, BatchesInv
    <3>4. job'[b][n].status = "PENDING"
      BY <1>2, <3>2, <3>3 DEF CommitRequest, TypeOK, TablesOK
    <3>5. QED
      BY <2>1, <3>2, <3>4 DEF SessionKept, Loaded
  <2>4. QED
    BY <2>2, <2>3
<1>3. ASSUME NEW e \in Deliveries, CommitBatch(e)
      PROVE  \E b \in Batches :
               /\ job'[b][n].status = "PENDING"
               /\ \A d \in Deliveries :
                    Loaded(d)' /\ task'[d].batch = b => seenNote'[d][n].status = "QUEUED"
  <2>1. task[e].batch \in Batches /\ Loaded(e)
    BY <1>3 DEF CommitBatch, DeliveriesInv, Opened, Loaded
  <2>2. note[n].status = "QUEUED"
    BY <1>3, <2>1, CommitQueuesNothing
  <2>3. PICK b \in Batches :
          /\ job[b][n].status = "PENDING"
          /\ \A d \in Deliveries :
               Loaded(d) /\ task[d].batch = b => seenNote[d][n].status = "QUEUED"
    BY <2>2 DEF QueueInv
  <2>4. b # task[e].batch
    <3>1. SUFFICES ASSUME b = task[e].batch
                   PROVE  FALSE
      OBVIOUS
    <3>2. n \in Range(JobList(e)) /\ seenNote[e][n].status = "QUEUED"
      BY <2>1, <2>3, <3>1 DEF BatchesInv, JobList
    <3>3. QED
      BY <1>3, <2>1, <3>2, CommitSettlesNote
  <2>5. job'[b] = job[b]
    BY <1>3, <2>4 DEF CommitBatch, TypeOK, TablesOK
  <2>6. \A d \in Deliveries : SessionKept(d) \/ pc'[d] = "done"
    BY <1>3, CloseKeepsOthers, CloseEnds DEF CommitBatch, TypeOK
  <2>7. QED
    BY <2>3, <2>5, <2>6 DEF SessionKept, Loaded
<1>4. QED
  BY <1>1, <1>2, <1>3, TablesMoveAtCommit

-----------------------------------------------------------------------------
(* Theorems on types and queued notes *)

\* The initial states satisfy the invariant.
LEMMA InitIInv == Init => IInv
<1> SUFFICES ASSUME Init PROVE IInv
  OBVIOUS
<1>1. TypeOK
  BY InitTypeOK
<1>2. DeliveriesInv
  BY DEF Init, DeliveriesInv, Opened
<1>3. BatchesInv
  BY DEF Init, BatchesInv, NothingSeen, NoJob
<1>4. QueueInv
  <2>1. \A n \in Notes : note[n].status \in {"ABSENT", "DRAFT"}
    BY DEF Init
  <2>2. QED
    BY <2>1 DEF QueueInv
<1>5. QED
  BY <1>1, <1>2, <1>3, <1>4 DEF IInv

\* Every step, stuttering included, keeps the invariant.
LEMMA StepIInv == IInv /\ [Next]_vars => IInv'
BY StepTypeOK, StepDeliveriesInv, StepBatchesInv, StepQueueInv DEF IInv

\* So it holds in every reachable state.
LEMMA InvariantHolds == Spec => []IInv
BY InitIInv, StepIInv, PTL DEF Spec

\* Rows and sessions are always well typed: in particular the RUNNING that process_batch gives
\* to a batch and to its jobs is never committed.
THEOREM TypeCorrect == Spec => []TypeOK
<1>1. IInv => TypeOK
  BY DEF IInv
<1>2. QED
  BY <1>1, InvariantHolds, PTL

\* However many requests and deliveries overlap, abort or are repeated, a note shown as QUEUED
\* has a PENDING job: create_mock_batch and process_batch never strand one.
THEOREM NoQueuedNoteStranded == Spec => []QueuedHasPendingJob
<1>1. IInv => QueuedHasPendingJob
  BY DEF IInv, QueueInv, QueuedHasPendingJob
<1>2. QED
  BY <1>1, InvariantHolds, PTL

-----------------------------------------------------------------------------
(* Documents *)

Looping(d) == pc[d] \in {"jobloop", "xml", "pdf"}

\* The files of every note a delivery has issued so far are in the storage, that of the XML
\* before that of the DANFE.
StoredInv ==
  \A d \in Deliveries : Looping(d) =>
    /\ pos[d] >= 1
    /\ \A i \in DOMAIN JobList(d) : i < pos[d] /\ Issued(d, i) =>
         \A type \in DocumentTypes : <<d, JobList(d)[i], type>> \in objects
    /\ pc[d] = "pdf" => <<d, JobList(d)[pos[d]], "NFE_XML">> \in objects

DInv == IInv /\ StoredInv /\ DocumentsAreBacked /\ IssuedIsDocumented

\* Nothing removes a file from the storage.
LEMMA ObjectsStay ==
  ASSUME [Next]_vars
  PROVE  objects \subseteq objects'
<1>1. ASSUME NEW r \in Requests, OpenRequest(r) \/ ContinueRequest(r)
      PROVE  objects \subseteq objects'
  BY <1>1 DEF OpenRequest, ContinueRequest, SelectNotes, RefuseNotes, InsertBatch,
              RefuseActive, QueueNote, CommitRequest
<1>2. ASSUME NEW d \in Deliveries, OpenDelivery(d) \/ ContinueDelivery(d)
      PROVE  objects \subseteq objects'
  BY <1>2 DEF OpenDelivery, ContinueDelivery, SelectBatch, RefuseBatch, SelectJobs,
              SelectJobNotes, StartBatch, SkipIssuedNote, FailNote, IssueNote, StoreXml,
              StoreDanfe, CommitBatch, Save
<1>3. ASSUME NEW t \in Transactions, Abort(t) \/ AbortDeadlocked(t)
      PROVE  objects \subseteq objects'
  BY <1>3 DEF Abort, AbortDeadlocked
<1>4. UNCHANGED vars => objects \subseteq objects'
  BY DEF vars
<1>5. QED
  BY <1>1, <1>2, <1>3, <1>4 DEF Next, Quiescent

\* While a delivery loops, its list and what it makes of each position do not change.
LEMMA OutcomesKept ==
  ASSUME IInv, [Next]_vars, NEW d \in Deliveries, Opened(d),
         task'[d] = task[d], seenNote'[d] = seenNote[d]
  PROVE  /\ JobList(d)' = JobList(d)
         /\ \A i \in DOMAIN JobList(d) : Issued(d, i)' <=> Issued(d, i)
<1>1. JobList(d)' = JobList(d)
  BY BatchStays DEF IInv, DeliveriesInv, JobList
<1>2. QED
  BY <1>1 DEF Issued, Skipped

\* A loop moves past a position only when its outcome is settled and its files are stored.
LEMMA StepStoredInv ==
  ASSUME IInv, StoredInv, [Next]_vars
  PROVE  StoredInv'
<1> SUFFICES ASSUME NEW d \in Deliveries, Looping(d)'
             PROVE  (/\ pos[d] >= 1
                     /\ \A i \in DOMAIN JobList(d) : i < pos[d] /\ Issued(d, i) =>
                          \A type \in DocumentTypes : <<d, JobList(d)[i], type>> \in objects
                     /\ pc[d] = "pdf" => <<d, JobList(d)[pos[d]], "NFE_XML">> \in objects)'
  BY DEF StoredInv
<1> DEFINE list == JobList(d)
<1>1. pos[d] \in Nat /\ pos \in [Transactions -> Nat] /\ pc[d] = pc[d]
  BY DEF IInv, TypeOK, SessionsOK
<1>2. Opened(d) => list \in Lists \cup {<<>>}
  BY DEF IInv, TypeOK, TablesOK, DeliveriesInv, JobList
<1>3. Opened(d) => \A i \in DOMAIN list : i \in Nat /\ i >= 1
  BY <1>2, ListIsSequence, EmptyHasNoPosition
<1>4. CASE SessionKept(d)
  <2>1. Looping(d) /\ Opened(d) /\ pos'[d] = pos[d] /\ pc'[d] = pc[d]
    BY <1>4 DEF SessionKept, Looping, Opened
  <2>2. JobList(d)' = list /\ \A i \in DOMAIN list : Issued(d, i)' <=> Issued(d, i)
    BY <1>4, <2>1, OutcomesKept DEF SessionKept
  <2>3. QED
    BY <2>1, <2>2, ObjectsStay DEF StoredInv
<1>5. CASE SelectBatch(d) \/ SelectJobs(d) \/ SelectJobNotes(d)
  BY <1>5 DEF SelectBatch, SelectJobs, SelectJobNotes, Looping, IInv, TypeOK, SessionsOK
<1>6. CASE StartBatch(d)
  <2>1. Opened(d) /\ pos'[d] = 1 /\ pc'[d] = "jobloop"
    BY <1>6 DEF StartBatch, Opened, IInv, TypeOK, SessionsOK
  <2>2. JobList(d)' = list
    BY <1>6, <2>1, OutcomesKept DEF StartBatch
  <2>3. QED
    BY <1>3, <2>1, <2>2
<1>7. CASE SkipIssuedNote(d) \/ FailNote(d)
  <2>1. /\ Looping(d) /\ Opened(d) /\ pc'[d] = "jobloop"
        /\ pos'[d] = pos[d] + 1
        /\ task'[d] = task[d] /\ seenNote'[d] = seenNote[d]
        /\ ~Issued(d, pos[d])
    BY <1>7 DEF SkipIssuedNote, FailNote, AtJob, Looping, Opened, Failed, Issued, IInv, TypeOK,
                SessionsOK
  <2>2. JobList(d)' = list /\ \A i \in DOMAIN list : Issued(d, i)' <=> Issued(d, i)
    BY <2>1, OutcomesKept
  <2>3. \A i \in DOMAIN list : i < pos[d] + 1 => i < pos[d] \/ i = pos[d]
    BY <1>1, <1>3, <2>1
  <2>4. pos'[d] >= 1
    BY <1>1, <2>1 DEF StoredInv
  <2>5. ASSUME NEW i \in DOMAIN list, i < pos'[d], Issued(d, i)'
        PROVE  \A type \in DocumentTypes : <<d, list[i], type>> \in objects'
    BY <2>1, <2>2, <2>3, <2>5, ObjectsStay DEF StoredInv
  <2>6. QED
    BY <2>1, <2>2, <2>4, <2>5
<1>8. CASE IssueNote(d)
  <2>1. /\ Looping(d) /\ Opened(d) /\ pc'[d] = "xml"
        /\ pos'[d] = pos[d]
        /\ task'[d] = task[d] /\ seenNote'[d] = seenNote[d]
    BY <1>8 DEF IssueNote, AtJob, Looping, Opened, IInv, TypeOK, SessionsOK
  <2>2. JobList(d)' = list /\ \A i \in DOMAIN list : Issued(d, i)' <=> Issued(d, i)
    BY <2>1, OutcomesKept
  <2>3. QED
    BY <2>1, <2>2, ObjectsStay DEF StoredInv
<1>9. CASE StoreXml(d)
  <2>1. /\ Looping(d) /\ Opened(d) /\ pc'[d] = "pdf"
        /\ pos'[d] = pos[d]
        /\ task'[d] = task[d] /\ seenNote'[d] = seenNote[d]
        /\ <<d, list[pos[d]], "NFE_XML">> \in objects'
    BY <1>9 DEF StoreXml, Save, session, Looping, Opened, IInv, TypeOK, SessionsOK
  <2>2. JobList(d)' = list /\ \A i \in DOMAIN list : Issued(d, i)' <=> Issued(d, i)
    BY <2>1, OutcomesKept
  <2>3. QED
    BY <2>1, <2>2, ObjectsStay DEF StoredInv
<1>10. CASE StoreDanfe(d)
  <2>1. /\ Looping(d) /\ Opened(d) /\ pc[d] = "pdf" /\ pc'[d] = "jobloop"
        /\ pos'[d] = pos[d] + 1
        /\ task'[d] = task[d] /\ seenNote'[d] = seenNote[d]
        /\ <<d, list[pos[d]], "DANFE_PDF">> \in objects'
    BY <1>10 DEF StoreDanfe, Save, Looping, Opened, IInv, TypeOK, SessionsOK
  <2>2. JobList(d)' = list /\ \A i \in DOMAIN list : Issued(d, i)' <=> Issued(d, i)
    BY <2>1, OutcomesKept
  <2>3. \A i \in DOMAIN list : i < pos[d] + 1 => i < pos[d] \/ i = pos[d]
    BY <1>1, <1>3, <2>1
  <2>4. \A type \in DocumentTypes : <<d, list[pos[d]], type>> \in objects'
    BY <2>1, ObjectsStay DEF StoredInv, DocumentTypes
  <2>5. pos'[d] >= 1
    BY <1>1, <2>1 DEF StoredInv
  <2>6. ASSUME NEW i \in DOMAIN list, i < pos'[d], Issued(d, i)'
        PROVE  \A type \in DocumentTypes : <<d, list[i], type>> \in objects'
    BY <2>1, <2>2, <2>3, <2>4, <2>6, ObjectsStay DEF StoredInv
  <2>7. QED
    BY <2>1, <2>2, <2>5, <2>6
<1>11. QED
  BY <1>4, <1>5, <1>6, <1>7, <1>8, <1>9, <1>10, DeliveryMovesItself DEF IInv, Looping

\* At its commit a delivery has stored every document it records.
LEMMA DocumentsStored ==
  ASSUME IInv, StoredInv, NEW d \in Deliveries, CommitBatch(d)
  PROVE  DocumentsWritten(d) \subseteq objects
<1> DEFINE list == JobList(d)
<1>1. list \in Lists \cup {<<>>}
  BY DEF CommitBatch, IInv, TypeOK, TablesOK, DeliveriesInv, Opened, JobList
<1>2. pos[d] \in Nat /\ pos[d] >= 1 /\ pos[d] \notin DOMAIN list
  BY DEF CommitBatch, StoredInv, Looping, IInv, TypeOK, SessionsOK
<1>3. \A i \in DOMAIN list : i < pos[d]
  BY <1>1, <1>2, ListIsSequence, EmptyHasNoPosition
<1>4. Looping(d)
  BY DEF CommitBatch, Looping
<1>5. \A i \in DOMAIN list : Issued(d, i) =>
        \A type \in DocumentTypes : <<d, list[i], type>> \in objects
  BY <1>3, <1>4 DEF StoredInv
<1>6. QED
  BY <1>5 DEF DocumentsWritten

\* A commit never takes the key of a note away.
LEMMA KeysStay ==
  ASSUME IInv, [Next]_vars, NEW n \in Notes, note[n].key
  PROVE  note'[n].key
<1>1. ASSUME NEW r \in Requests, CommitRequest(r)
      PROVE  note'[n].key
  BY <1>1 DEF CommitRequest, IInv, TypeOK, TablesOK, NoteRow
<1>2. ASSUME NEW d \in Deliveries, CommitBatch(d)
      PROVE  note'[n].key
  <2>1. CASE n \notin Range(JobList(d))
    BY <1>2, <2>1 DEF CommitBatch
  <2>2. CASE n \in Range(JobList(d))
    <3> DEFINE i == IndexOf(JobList(d), n)
    <3>1. JobList(d)[i] = n
      BY <1>2, <2>2, PositionOfNote
      DEF CommitBatch, IInv, TypeOK, TablesOK, DeliveriesInv, Opened, JobList
    <3>2. NoteWritten(d, i).key
      BY <3>1 DEF NoteWritten
    <3>3. QED
      BY <1>2, <2>2, <3>2 DEF CommitBatch
  <2>3. QED
    BY <2>1, <2>2
<1>3. QED
  BY <1>1, <1>2, TablesMoveAtCommit DEF tables

\* The note at a position a delivery has issued gets its key and the status ISSUED or the one
\* somebody else has written since; an ISSUED status is its own or was there before.
LEMMA WhoIssued ==
  ASSUME IInv, NEW d \in Deliveries, CommitBatch(d),
         NEW n \in Notes, note'[n].status = "ISSUED", note[n].status # "ISSUED"
  PROVE  \E i \in DOMAIN JobList(d) : JobList(d)[i] = n /\ Issued(d, i)
<1>1. n \in Range(JobList(d))
  BY DEF CommitBatch
<1> DEFINE i == IndexOf(JobList(d), n)
<1>2. i \in DOMAIN JobList(d) /\ JobList(d)[i] = n
  BY <1>1, PositionOfNote
  DEF CommitBatch, IInv, TypeOK, TablesOK, DeliveriesInv, Opened, JobList
<1>3. note'[n] = NoteWritten(d, i)
  BY <1>1 DEF CommitBatch
<1>4. ~Skipped(d, i) /\ ~Failed(d, i)
  BY <1>2, <1>3 DEF NoteWritten, Dirty
<1>5. QED
  BY <1>2, <1>4 DEF Failed, Issued

\* The commit gives its key to every note the delivery issued.
LEMMA IssuedGetsKey ==
  ASSUME IInv, NEW d \in Deliveries, CommitBatch(d),
         NEW i \in DOMAIN JobList(d), Issued(d, i)
  PROVE  JobList(d)[i] \in Notes /\ note'[JobList(d)[i]].key
<1> DEFINE list == JobList(d)
           n == list[i]
<1>1. list \in Lists \cup {<<>>}
  BY DEF CommitBatch, IInv, TypeOK, TablesOK, DeliveriesInv, Opened, JobList
<1>2. n \in Range(list)
  BY DEF Range
<1>3. n \in Notes /\ IndexOf(list, n) \in DOMAIN list /\ list[IndexOf(list, n)] = n
  BY <1>1, <1>2, PositionOfNote
<1>4. IndexOf(list, n) = i
  BY <1>1, <1>3, ListIsInjective, EmptyHasNoPosition
<1>5. note'[n] = NoteWritten(d, i)
  BY <1>2, <1>3, <1>4 DEF CommitBatch
<1>6. NoteWritten(d, i).key
  BY DEF NoteWritten, Issued, Failed
<1>7. QED
  BY <1>3, <1>5, <1>6

\* Every documents row keeps its file, its note's key and its twin.
LEMMA StepDocumentsAreBacked ==
  ASSUME DInv, [Next]_vars
  PROVE  DocumentsAreBacked'
<1> USE DEF DInv
<1>0. docs \subseteq Object
  BY DEF IInv, TypeOK, TablesOK
<1>1. \A object \in docs : object[2] \in Notes
  BY <1>0 DEF Object
<1>2. CASE docs' = docs
  BY <1>1, <1>2, ObjectsStay, KeysStay DEF DocumentsAreBacked
<1>3. ASSUME NEW d \in Deliveries, CommitBatch(d)
      PROVE  DocumentsAreBacked'
  <2>1. docs' = docs \cup DocumentsWritten(d)
    BY <1>3 DEF CommitBatch
  <2>2. ASSUME NEW object \in DocumentsWritten(d)
        PROVE  /\ object \in objects
               /\ note'[object[2]].key
               /\ \A type \in DocumentTypes : <<object[1], object[2], type>> \in docs'
    <3>1. PICK i \in DOMAIN JobList(d), type \in DocumentTypes :
            Issued(d, i) /\ object = <<d, JobList(d)[i], type>>
      BY DEF DocumentsWritten
    <3>2. note'[object[2]].key
      BY <1>3, <3>1, IssuedGetsKey
    <3>3. \A other \in DocumentTypes : <<object[1], object[2], other>> \in DocumentsWritten(d)
      BY <3>1 DEF DocumentsWritten
    <3>4. object \in objects
      BY <1>3, DocumentsStored
    <3>5. QED
      BY <2>1, <3>2, <3>3, <3>4
  <2>3. QED
    BY <1>1, <2>1, <2>2, ObjectsStay, KeysStay DEF DocumentsAreBacked
<1>4. ASSUME NEW r \in Requests, CommitRequest(r)
      PROVE  docs' = docs
  BY <1>4 DEF CommitRequest
<1>5. QED
  BY <1>2, <1>3, <1>4, TablesMoveAtCommit DEF tables

\* A note that becomes ISSUED is documented by the delivery that issues it; one that is stays so.
LEMMA StepIssuedIsDocumented ==
  ASSUME DInv, [Next]_vars
  PROVE  IssuedIsDocumented'
<1> USE DEF DInv
<1> DEFINE Documented(n) ==
      \E d \in Deliveries :
        /\ \A type \in DocumentTypes : <<d, n, type>> \in docs \cap objects
        /\ \E b \in Batches : <<d, "RETURN_NOTE_ISSUED", b, n>> \in audit
<1>1. docs \subseteq docs' /\ audit \subseteq audit' /\ objects \subseteq objects'
  <2>1. \A r \in Requests : CommitRequest(r) => docs \subseteq docs' /\ audit \subseteq audit'
    BY DEF CommitRequest
  <2>2. \A d \in Deliveries : CommitBatch(d) => docs \subseteq docs' /\ audit \subseteq audit'
    BY DEF CommitBatch
  <2>3. QED
    BY <2>1, <2>2, ObjectsStay, TablesMoveAtCommit DEF tables
<1>2. ASSUME NEW n \in Notes, note[n].status = "ISSUED"
      PROVE  (note[n].key /\ Documented(n))'
  BY <1>1, <1>2, KeysStay DEF IssuedIsDocumented
<1>3. ASSUME NEW n \in Notes, note'[n].status = "ISSUED", note[n].status # "ISSUED"
      PROVE  (note[n].key /\ Documented(n))'
  <2>1. \A r \in Requests : ~CommitRequest(r)
    BY <1>3 DEF CommitRequest, IInv, TypeOK, TablesOK, NoteRow
  <2>2. PICK d \in Deliveries : CommitBatch(d)
    BY <1>3, <2>1, TablesMoveAtCommit DEF tables
  <2>3. PICK i \in DOMAIN JobList(d) : JobList(d)[i] = n /\ Issued(d, i)
    BY <1>3, <2>2, WhoIssued
  <2>4. note'[n].key
    BY <2>2, <2>3, IssuedGetsKey
  <2>5. \A type \in DocumentTypes : <<d, n, type>> \in DocumentsWritten(d)
    BY <2>3 DEF DocumentsWritten
  <2>6. \A type \in DocumentTypes : <<d, n, type>> \in docs' \cap objects'
    BY <1>1, <2>2, <2>5, DocumentsStored DEF CommitBatch
  <2>7. <<d, "RETURN_NOTE_ISSUED", task[d].batch, n>> \in AuditsWritten(d)
    BY <2>3 DEF AuditsWritten
  <2>8. task[d].batch \in Batches /\ <<d, "RETURN_NOTE_ISSUED", task[d].batch, n>> \in audit'
    BY <2>2, <2>7 DEF CommitBatch, IInv, DeliveriesInv, Opened
  <2>9. QED
    BY <2>4, <2>6, <2>8
<1>4. QED
  BY <1>2, <1>3 DEF IssuedIsDocumented

-----------------------------------------------------------------------------
(* Theorems on documents *)

\* The initial states satisfy the invariant on documents.
LEMMA InitDInv == Init => DInv
<1> SUFFICES ASSUME Init PROVE DInv
  OBVIOUS
<1>1. StoredInv
  BY DEF Init, StoredInv, Looping
<1>2. DocumentsAreBacked
  BY DEF Init, DocumentsAreBacked
<1>3. IssuedIsDocumented
  <2>1. \A n \in Notes : note[n].status \in {"ABSENT", "DRAFT"}
    BY DEF Init
  <2>2. QED
    BY <2>1 DEF IssuedIsDocumented
<1>4. QED
  BY <1>1, <1>2, <1>3, InitIInv DEF DInv

\* Every step keeps it.
LEMMA StepDInv == DInv /\ [Next]_vars => DInv'
BY StepIInv, StepStoredInv, StepDocumentsAreBacked, StepIssuedIsDocumented DEF DInv

\* So it holds in every reachable state.
LEMMA DocumentInvariantHolds == Spec => []DInv
BY InitDInv, StepDInv, PTL DEF Spec

\* A committed ISSUED status always comes with the key, both documents and their files, and the
\* audit of one same delivery: store_document writes files outside the transaction, and yet no
\* crash of process_batch between a file and the commit shows a note issued halfway.
THEOREM IssuedNotesDocumented == Spec => []IssuedIsDocumented
<1>1. DInv => IssuedIsDocumented
  BY DEF DInv
<1>2. QED
  BY <1>1, DocumentInvariantHolds, PTL

\* A fiscal document never refers to a missing file, to a note without a key, or comes alone.
THEOREM DocumentsBacked == Spec => []DocumentsAreBacked
<1>1. DInv => DocumentsAreBacked
  BY DEF DInv
<1>2. QED
  BY <1>1, DocumentInvariantHolds, PTL

-----------------------------------------------------------------------------
(* Jobs *)

JobsRead(d) == pc[d] \in {"jobs", "notes", "jobloop", "xml", "pdf"}

\* A delivery that has read a job which is not pending works on a batch that is final.
JobsInv ==
  /\ \A b \in Batches : batch[b] = "NONE" => lot[b] = <<>>
  /\ \A d \in Deliveries : JobsRead(d) => \A n \in Range(JobList(d)) :
       seenJob[d][n].status # "PENDING" => batch[task[d].batch] # "PENDING"
  /\ BatchAgreesWithJobs

\* The deliveries that have started a job, by the audit log.
Started(b, n) == {d \in Deliveries : <<d, "EMISSION_JOB_STARTED", b, n>> \in audit}

\* A delivery that has not ended has started nothing yet, and has read no attempt that was not
\* audited.
AttemptsInv ==
  /\ \A b \in Batches, n \in Notes : IsFiniteSet(Started(b, n))
  /\ \A d \in Deliveries : pc[d] # "done" =>
       \A b \in Batches, n \in Notes : d \notin Started(b, n)
  /\ \A d \in Deliveries : JobsRead(d) => \A n \in Notes :
       seenJob[d][n].attempts <= Cardinality(Started(task[d].batch, n))
  /\ \A b \in Batches, n \in Notes : job[b][n].attempts <= Cardinality(Started(b, n))

JInv == IInv /\ JobsInv /\ AttemptsInv

\* A final batch stays final.
LEMMA FinalStays ==
  ASSUME IInv, [Next]_vars, NEW b \in Batches, batch[b] \in FINAL_BATCH_STATUSES
  PROVE  batch'[b] \in FINAL_BATCH_STATUSES
<1>1. ASSUME NEW r \in Requests, CommitRequest(r)
      PROVE  batch'[b] = batch[b]
  <2>1. b # r
    BY <1>1 DEF CommitRequest, IInv, BatchesInv, FINAL_BATCH_STATUSES
  <2>2. QED
    BY <1>1, <2>1 DEF CommitRequest
<1>2. ASSUME NEW d \in Deliveries, CommitBatch(d)
      PROVE  batch'[b] \in FINAL_BATCH_STATUSES
  BY <1>2 DEF CommitBatch, FinalStatus, FINAL_BATCH_STATUSES, IInv, TypeOK, TablesOK
<1>3. QED
  BY <1>1, <1>2, TablesMoveAtCommit DEF tables

\* What an open delivery knows of the jobs of its batch it has read in one step.
LEMMA JobsKnown ==
  ASSUME IInv, [Next]_vars, NEW d \in Deliveries, JobsRead(d)'
  PROVE  /\ Opened(d) /\ task'[d] = task[d]
         /\ \/ JobsRead(d) /\ seenJob'[d] = seenJob[d]
            \/ seenJob'[d] = job[task[d].batch] /\ UNCHANGED tables
<1> USE DEF IInv, TypeOK, SessionsOK
<1>1. CASE SessionKept(d)
  BY <1>1 DEF SessionKept, JobsRead, Opened
<1>2. CASE SelectBatch(d)
  BY <1>2 DEF SelectBatch, JobsRead
<1>3. CASE SelectJobs(d)
  BY <1>3 DEF SelectJobs, JobsRead, Opened
<1>4. CASE \/ SelectJobNotes(d) \/ StartBatch(d) \/ SkipIssuedNote(d) \/ FailNote(d)
           \/ IssueNote(d) \/ StoreXml(d) \/ StoreDanfe(d)
  BY <1>4 DEF SelectJobNotes, StartBatch, SkipIssuedNote, FailNote, IssueNote, AtJob, StoreXml,
    StoreDanfe, session, JobsRead, Opened
<1>5. QED
  BY <1>1, <1>2, <1>3, <1>4, DeliveryMovesItself DEF JobsRead

\* What a commit makes of the jobs of a batch that agrees with them agrees with them.
LEMMA CommitAgrees ==
  ASSUME IInv, JobsInv, NEW d \in Deliveries, CommitBatch(d)
  PROVE  BatchAgreesWithJobs'
<1> DEFINE b == task[d].batch
<1>1. b \in Batches /\ JobList(d) = lot[b] /\ lot[b] \in Lists \cup {<<>>} /\ JobsRead(d)
  BY DEF CommitBatch, IInv, DeliveriesInv, Opened, JobList, TypeOK, TablesOK, JobsRead
<1>2. ASSUME NEW n \in Range(lot[b])
      PROVE  batch'[b] # "PENDING" /\ job'[b][n].status \in {"SUCCESS", "FAILED"}
  <2> DEFINE i == IndexOf(JobList(d), n)
  <2>1. n \in Notes /\ i \in DOMAIN JobList(d) /\ JobList(d)[i] = n
    BY <1>1, PositionOfNote
  <2>2. job'[b][n] = JobWritten(d, i)
    BY <1>1, <2>1 DEF CommitBatch, IInv, TypeOK, TablesOK
  <2>3. batch'[b] # "PENDING"
    BY <1>1 DEF CommitBatch, FinalStatus, IInv, TypeOK, TablesOK
  <2>4. job[b][n] \in JobRow
    BY <1>1, <2>1 DEF IInv, TypeOK, TablesOK
  <2> HIDE DEF i
  <2>5. CASE ~Skipped(d, i)
    BY <2>2, <2>3, <2>5 DEF JobWritten
  <2>6. CASE Skipped(d, i)
    <3>1. job'[b][n].status = Dirty(seenJob[d][n].status, "SUCCESS", job[b][n].status)
      BY <2>1, <2>2, <2>4, <2>6 DEF JobWritten, JobRow
    <3>2. seenJob[d][n].status = "SUCCESS" => job[b][n].status \in {"SUCCESS", "FAILED"}
      BY <1>1 DEF JobsInv, BatchAgreesWithJobs
    <3>3. QED
      BY <2>3, <3>1, <3>2 DEF Dirty
  <2>7. QED
    BY <2>5, <2>6
<1>3. \A c \in Batches \ {b} : batch'[c] = batch[c] /\ job'[c] = job[c]
  BY DEF CommitBatch, IInv, TypeOK, TablesOK
<1>4. lot' = lot
  BY DEF CommitBatch
<1>5. QED
  BY <1>1, <1>2, <1>3, <1>4 DEF JobsInv, BatchAgreesWithJobs

\* The statuses of batches and jobs go on agreeing.
LEMMA StepJobsInv ==
  ASSUME IInv, JobsInv, [Next]_vars
  PROVE  JobsInv'
<1>1. ASSUME NEW b \in Batches, batch'[b] = "NONE" PROVE lot'[b] = <<>>
  <2>1. batch[b] = "NONE" /\ lot[b] = <<>>
    BY <1>1, BatchStays DEF IInv, JobsInv
  <2>2. ASSUME NEW r \in Requests, CommitRequest(r) PROVE lot'[b] = lot[b]
    BY <1>1, <2>2 DEF CommitRequest, IInv, TypeOK, TablesOK
  <2>3. ASSUME NEW d \in Deliveries, CommitBatch(d) PROVE lot'[b] = lot[b]
    BY <2>3 DEF CommitBatch
  <2>4. QED
    BY <2>1, <2>2, <2>3, TablesMoveAtCommit DEF tables
<1>2. ASSUME NEW d \in Deliveries, JobsRead(d)', NEW n \in Range(JobList(d))',
             seenJob'[d][n].status # "PENDING"
      PROVE  batch'[task'[d].batch] # "PENDING"
  <2> DEFINE b == task[d].batch
  <2>1. /\ Opened(d) /\ task'[d] = task[d]
        /\ \/ JobsRead(d) /\ seenJob'[d] = seenJob[d]
           \/ seenJob'[d] = job[b] /\ UNCHANGED tables
    BY <1>2, JobsKnown
  <2>2. b \in Batches /\ batch[b] # "NONE" /\ lot'[b] = lot[b]
    BY <2>1, BatchStays DEF IInv, DeliveriesInv
  <2>3. n \in Range(JobList(d)) /\ n \in Range(lot[b])
    BY <1>2, <2>1, <2>2 DEF JobList
  <2>4. batch[b] # "PENDING"
    BY <1>2, <2>1, <2>2, <2>3 DEF JobsInv, BatchAgreesWithJobs, NoJob
  <2>5. batch[b] \in FINAL_BATCH_STATUSES
    BY <2>2, <2>4 DEF IInv, TypeOK, TablesOK, BatchStatuses, FINAL_BATCH_STATUSES
  <2>6. QED
    BY <2>1, <2>2, <2>5, FinalStays DEF FINAL_BATCH_STATUSES
<1>3. BatchAgreesWithJobs'
  <2>1. CASE UNCHANGED tables
    BY <2>1 DEF tables, JobsInv, BatchAgreesWithJobs
  <2>2. ASSUME NEW r \in Requests, CommitRequest(r) PROVE BatchAgreesWithJobs'
    <3>1. batch'[r] = "PENDING" /\ Range(lot'[r]) = Range(ids[r])
      BY <2>2 DEF CommitRequest, IInv, TypeOK, TablesOK
    <3>2. \A n \in Range(ids[r]) : n \in Notes
      BY PositionOfNote DEF IInv, TypeOK, SessionsOK
    <3>3. \A n \in Range(ids[r]) : job'[r][n] = [NoJob EXCEPT !.status = "PENDING"]
      BY <2>2, <3>2 DEF CommitRequest, IInv, TypeOK, TablesOK
    <3>4. \A b \in Batches \ {r} : batch'[b] = batch[b] /\ lot'[b] = lot[b] /\ job'[b] = job[b]
      BY <2>2 DEF CommitRequest, IInv, TypeOK, TablesOK
    <3>5. QED
      BY <3>1, <3>3, <3>4 DEF JobsInv, BatchAgreesWithJobs
  <2>3. ASSUME NEW d \in Deliveries, CommitBatch(d) PROVE BatchAgreesWithJobs'
    BY <2>3, CommitAgrees
  <2>4. QED
    BY <2>1, <2>2, <2>3, TablesMoveAtCommit
<1>4. QED
  BY <1>1, <1>2, <1>3 DEF JobsInv

\* The starts of a job are never forgotten, and only a commit adds one, its own.
LEMMA StartedGrows ==
  ASSUME IInv, AttemptsInv, [Next]_vars, NEW b \in Batches, NEW n \in Notes
  PROVE  /\ Started(b, n) \subseteq Started(b, n)'
         /\ IsFiniteSet(Started(b, n)')
         /\ Cardinality(Started(b, n)) \in Nat /\ Cardinality(Started(b, n)') \in Nat
         /\ Cardinality(Started(b, n)) <= Cardinality(Started(b, n)')
         /\ \A d \in Started(b, n)' : d \in Started(b, n) \/ CommitBatch(d)
<1>1. IsFiniteSet(Started(b, n))
  BY DEF AttemptsInv
<1>2. /\ Started(b, n) \subseteq Started(b, n)' /\ IsFiniteSet(Started(b, n)')
      /\ \A d \in Started(b, n)' : d \in Started(b, n) \/ CommitBatch(d)
  <2>1. CASE UNCHANGED tables
    BY <1>1, <2>1 DEF tables, Started
  <2>2. ASSUME NEW r \in Requests, CommitRequest(r) PROVE Started(b, n)' = Started(b, n)
    BY <2>2 DEF CommitRequest, Started
  <2>3. ASSUME NEW d \in Deliveries, CommitBatch(d)
        PROVE  /\ Started(b, n) \subseteq Started(b, n)'
               /\ Started(b, n)' \in SUBSET (Started(b, n) \cup {d})
    BY <2>3 DEF CommitBatch, Started, AuditsWritten
  <2>4. ASSUME NEW d \in Deliveries, CommitBatch(d) PROVE IsFiniteSet(Started(b, n)')
    BY <1>1, <2>3, <2>4, FS_AddElement, FS_Subset
  <2>5. QED
    BY <1>1, <2>1, <2>2, <2>3, <2>4, TablesMoveAtCommit
<1>3. QED
  BY <1>1, <1>2, FS_Subset, FS_CardinalityType

\* The attempts a delivery writes count the starts that were audited before it and its own.
LEMMA CommitCountsStart ==
  ASSUME IInv, AttemptsInv, [Next]_vars, NEW d \in Deliveries, CommitBatch(d),
         NEW b \in Batches, NEW n \in Notes
  PROVE  job'[b][n].attempts <= Cardinality(Started(b, n)')
<1>1. /\ Started(b, n) \subseteq Started(b, n)' /\ IsFiniteSet(Started(b, n))
      /\ Cardinality(Started(b, n)) \in Nat /\ Cardinality(Started(b, n)') \in Nat
      /\ Cardinality(Started(b, n)) <= Cardinality(Started(b, n)')
  BY StartedGrows DEF AttemptsInv
<1>2. job[b][n] \in JobRow /\ job[b][n].attempts <= Cardinality(Started(b, n))
  <2>1. job[b][n] \in JobRow
    BY DEF IInv, TypeOK, TablesOK
  <2>2. QED
    BY <2>1 DEF AttemptsInv
<1>3. CASE b # task[d].batch \/ n \notin Range(JobList(d))
  <2>1. job'[b][n] = job[b][n]
    BY <1>3 DEF CommitBatch, IInv, TypeOK, TablesOK
  <2>2. QED
    BY <1>1, <1>2, <2>1 DEF JobRow
<1>4. CASE b = task[d].batch /\ n \in Range(JobList(d))
  <2> DEFINE i == IndexOf(JobList(d), n)
  <2>1. JobList(d) = lot[b] /\ lot[b] \in Lists \cup {<<>>}
    BY <1>4 DEF JobList, IInv, TypeOK, TablesOK
  <2>2. i \in DOMAIN JobList(d) /\ JobList(d)[i] = n
    BY <1>4, <2>1, PositionOfNote
  <2>3. job'[b][n] = JobWritten(d, i)
    BY <1>4 DEF CommitBatch, IInv, TypeOK, TablesOK
  <2>4. CASE Skipped(d, i)
    <3>1. job'[b][n].attempts = job[b][n].attempts
      BY <1>2, <1>4, <2>2, <2>3, <2>4 DEF JobWritten, JobRow
    <3>2. QED
      BY <1>1, <1>2, <3>1 DEF JobRow
  <2>5. CASE ~Skipped(d, i)
    <3>1. job'[b][n].attempts = seenJob[d][n].attempts + 1
      BY <2>2, <2>3, <2>5 DEF JobWritten
    <3>2. /\ seenJob[d][n].attempts \in Nat /\ d \notin Started(b, n)
          /\ seenJob[d][n].attempts <= Cardinality(Started(b, n))
      <4>1. seenJob[d][n] \in JobRow /\ pc[d] = "jobloop"
        BY DEF CommitBatch, IInv, TypeOK, SessionsOK
      <4>2. QED
        BY <1>4, <4>1 DEF AttemptsInv, JobsRead, JobRow
    <3>3. <<d, "EMISSION_JOB_STARTED", b, n>> \in AuditsWritten(d)
      BY <1>4, <2>2, <2>5 DEF AuditsWritten
    <3>4. Started(b, n)' = Started(b, n) \cup {d}
      BY <3>3 DEF CommitBatch, Started, AuditsWritten
    <3>5. Cardinality(Started(b, n)') = Cardinality(Started(b, n)) + 1
      BY <1>1, <3>2, <3>4, FS_AddElement
    <3>6. QED
      BY <1>1, <3>1, <3>2, <3>5
  <2>6. QED
    BY <2>4, <2>5
<1>5. QED
  BY <1>3, <1>4

\* No attempt goes unaudited.
LEMMA StepAttemptsInv ==
  ASSUME IInv, AttemptsInv, [Next]_vars
  PROVE  AttemptsInv'
<1>1. ASSUME NEW b \in Batches, NEW n \in Notes PROVE IsFiniteSet(Started(b, n)')
  BY StartedGrows
<1>2. ASSUME NEW d \in Deliveries, pc'[d] # "done", NEW b \in Batches, NEW n \in Notes
      PROVE  d \notin Started(b, n)'
  <2>1. d \notin Started(b, n)
    BY <1>2, DoneStays DEF AttemptsInv, IInv
  <2>2. ~CommitBatch(d)
    BY <1>2, CloseEnds DEF CommitBatch, IInv, TypeOK
  <2>3. QED
    BY <2>1, <2>2, StartedGrows
<1>3. ASSUME NEW d \in Deliveries, JobsRead(d)', NEW n \in Notes
      PROVE  (seenJob[d][n].attempts <= Cardinality(Started(task[d].batch, n)))'
  <2>1. PICK b : b = task[d].batch
    OBVIOUS
  <2>2. /\ Opened(d) /\ task'[d].batch = b
        /\ \/ JobsRead(d) /\ seenJob'[d] = seenJob[d]
           \/ seenJob'[d] = job[b] /\ UNCHANGED tables
    BY <1>3, <2>1, JobsKnown
  <2>3. b \in Batches
    BY <2>1, <2>2 DEF IInv, DeliveriesInv
  <2>4. seenJob'[d][n].attempts <= Cardinality(Started(b, n))
    BY <2>1, <2>2, <2>3 DEF AttemptsInv
  <2>5. seenJob'[d][n].attempts \in Nat
    BY StepIInv DEF IInv, TypeOK, SessionsOK, JobRow
  <2>6. /\ Cardinality(Started(b, n)) \in Nat /\ Cardinality(Started(b, n)') \in Nat
        /\ Cardinality(Started(b, n)) <= Cardinality(Started(b, n)')
    BY <2>3, StartedGrows
  <2>7. seenJob'[d][n].attempts <= Cardinality(Started(b, n)')
    BY <2>4, <2>5, <2>6
  <2>8. QED
    BY <2>2, <2>7 DEF Started
<1>4. ASSUME NEW b \in Batches, NEW n \in Notes
      PROVE  job'[b][n].attempts <= Cardinality(Started(b, n)')
  <2>1. /\ Cardinality(Started(b, n)) \in Nat /\ Cardinality(Started(b, n)') \in Nat
        /\ Cardinality(Started(b, n)) <= Cardinality(Started(b, n)')
    BY StartedGrows
  <2>2. job[b][n].attempts \in Nat /\ job[b][n].attempts <= Cardinality(Started(b, n))
    <3>1. job[b][n] \in JobRow
      BY DEF IInv, TypeOK, TablesOK
    <3>2. QED
      BY <3>1 DEF AttemptsInv, JobRow
  <2>3. CASE UNCHANGED tables
    BY <2>1, <2>2, <2>3 DEF tables
  <2>4. ASSUME NEW r \in Requests, CommitRequest(r)
        PROVE  job'[b][n].attempts <= Cardinality(Started(b, n)')
    <3>1. job'[b][n].attempts \in {0, job[b][n].attempts}
      BY <2>4 DEF CommitRequest, NoJob, IInv, TypeOK, TablesOK
    <3>2. QED
      BY <2>1, <2>2, <3>1
  <2>5. ASSUME NEW d \in Deliveries, CommitBatch(d)
        PROVE  job'[b][n].attempts <= Cardinality(Started(b, n)')
    BY <2>5, CommitCountsStart
  <2>6. QED
    BY <2>3, <2>4, <2>5, TablesMoveAtCommit
<1>5. QED
  BY <1>1, <1>2, <1>3, <1>4 DEF AttemptsInv

\* The initial states satisfy the invariant on jobs.
LEMMA InitJInv == Init => JInv
<1> SUFFICES ASSUME Init PROVE JInv
  OBVIOUS
<1>1. JobsInv
  <2>1. \A b \in Batches : Range(lot[b]) = {}
    BY DEF Init, Range
  <2>2. QED
    BY <2>1 DEF Init, JobsInv, JobsRead, BatchAgreesWithJobs
<1>2. AttemptsInv
  <2>1. \A b \in Batches, n \in Notes : Started(b, n) = {} /\ job[b][n].attempts = 0
    BY DEF Init, Started, NothingSeen, NoJob
  <2>2. IsFiniteSet({}) /\ Cardinality({}) = 0
    BY FS_EmptySet
  <2>3. \A d \in Deliveries : ~JobsRead(d)
    BY DEF Init, JobsRead
  <2>4. \A b \in Batches, n \in Notes :
          IsFiniteSet(Started(b, n)) /\ job[b][n].attempts <= Cardinality(Started(b, n))
    <3>1. TAKE b \in Batches, n \in Notes
    <3>2. Started(b, n) = {} /\ job[b][n].attempts = 0
      BY <2>1
    <3>3. IsFiniteSet(Started(b, n)) /\ Cardinality(Started(b, n)) = 0
      BY <2>2, <3>2
    <3>4. QED
      BY <3>2, <3>3
  <2>5. \A d \in Deliveries, b \in Batches, n \in Notes : d \notin Started(b, n)
    BY <2>1
  <2>6. QED
    BY <2>3, <2>4, <2>5 DEF AttemptsInv
<1>3. QED
  BY <1>1, <1>2, InitIInv DEF JInv

\* Every step keeps it.
LEMMA StepJInv == JInv /\ [Next]_vars => JInv'
BY StepIInv, StepJobsInv, StepAttemptsInv DEF JInv

\* So it holds in every reachable state.
LEMMA JobInvariantHolds == Spec => []JInv
BY InitJInv, StepJInv, PTL DEF Spec

-----------------------------------------------------------------------------
(* Theorems on jobs and batches *)

\* However many deliveries process a batch at once, its status and those of its jobs agree at
\* every commit of process_batch, the last writer of each row notwithstanding.
THEOREM BatchesAgreeWithJobs == Spec => []BatchAgreesWithJobs
<1>1. JInv => BatchAgreesWithJobs
  BY DEF JInv, JobsInv
<1>2. QED
  BY <1>1, JobInvariantHolds, PTL

\* Increments of attempts may be lost, but none is there without its EMISSION_JOB_STARTED.
THEOREM AttemptsComeFromStarts == Spec => []AttemptsAreAudited
<1>1. JInv => AttemptsAreAudited
  BY DEF JInv, AttemptsInv, AttemptsAreAudited, Started
<1>2. QED
  BY <1>1, JobInvariantHolds, PTL

\* No commit reopens a final batch or takes the key of a note away.
THEOREM KeysAndFatesRemembered == Spec => NothingForgotten
<1>1. IInv /\ [Next]_vars =>
        [ /\ \A b \in Batches : batch[b] \in FINAL_BATCH_STATUSES
                                  => batch'[b] \in FINAL_BATCH_STATUSES
          /\ \A n \in Notes : note[n].key => note'[n].key ]_vars
  BY FinalStays, KeysStay
<1>2. QED
  BY <1>1, InvariantHolds, PTL DEF Spec, NothingForgotten

-----------------------------------------------------------------------------
(* Waiting for rows *)

\* A step opens one transaction when there may be one more, or none.
LEMMA OpenMoves ==
  ASSUME TypeOK, [Next]_vars
  PROVE  \/ Open' \in SUBSET Open
         \/ \E t \in Transactions : MayOpen(t) /\ Open' \in SUBSET (Open \cup {t})
<1> DEFINE Moves == \/ Open' \in SUBSET Open
                    \/ \E t \in Transactions : MayOpen(t) /\ Open' \in SUBSET (Open \cup {t})
<1> USE DEF TypeOK, SessionsOK
<1>1. ASSUME NEW t \in Transactions, Close(t)
      PROVE  Open' \in SUBSET Open
  BY <1>1, CloseEnds DEF Open
<1>2. ASSUME NEW r \in Requests, OpenRequest(r) \/ ContinueRequest(r)
      PROVE  Moves
  <2>1. CASE SelectNotes(r)
    BY <2>1 DEF SelectNotes, Open
  <2>2. CASE InsertBatch(r) \/ QueueNote(r)
    BY <2>2 DEF InsertBatch, QueueNote, Open
  <2>3. CASE RefuseNotes(r) \/ RefuseActive(r) \/ CommitRequest(r)
    BY <1>1, <2>3 DEF RefuseNotes, RefuseActive, CommitRequest
  <2>4. QED
    BY <1>2, <2>1, <2>2, <2>3 DEF OpenRequest, ContinueRequest
<1>3. ASSUME NEW d \in Deliveries, OpenDelivery(d) \/ ContinueDelivery(d)
      PROVE  Moves
  <2>1. CASE SelectBatch(d)
    BY <2>1 DEF SelectBatch, Open
  <2>2. CASE RefuseBatch(d) \/ CommitBatch(d)
    BY <1>1, <2>2 DEF RefuseBatch, CommitBatch
  <2>3. CASE SelectJobs(d) \/ SelectJobNotes(d) \/ StartBatch(d)
    BY <2>3 DEF SelectJobs, SelectJobNotes, StartBatch, Open
  <2>4. CASE SkipIssuedNote(d) \/ FailNote(d) \/ IssueNote(d) \/ StoreXml(d) \/ StoreDanfe(d)
    BY <2>4 DEF SkipIssuedNote, FailNote, IssueNote, AtJob, StoreXml, StoreDanfe, Open
  <2>5. QED
    BY <1>3, <2>1, <2>2, <2>3, <2>4 DEF OpenDelivery, ContinueDelivery
<1>4. ASSUME NEW t \in Transactions, Abort(t) \/ AbortDeadlocked(t)
      PROVE  Moves
  BY <1>1, <1>4 DEF Abort, AbortDeadlocked
<1>5. ASSUME UNCHANGED vars
      PROVE  Moves
  BY <1>5 DEF vars, Open
<1>6. QED
  BY <1>2, <1>3, <1>4, <1>5 DEF Next, Quiescent

\* A row is held by an open transaction or by nobody, and the open ones can be counted.
LocksInv ==
  /\ IsFiniteSet(Open)
  /\ \A row \in Notes \cup Batches : lock[row] \in Open \cup {None}

\* A transaction that ends frees its rows and leaves those of the others.
LEMMA CloseFrees ==
  ASSUME TypeOK, LocksInv, NEW t \in Transactions, Close(t)
  PROVE  \A row \in Notes \cup Batches : lock'[row] \in Open' \cup {None}
<1> SUFFICES ASSUME NEW row \in Notes \cup Batches PROVE lock'[row] \in Open' \cup {None}
  OBVIOUS
<1>1. DOMAIN lock = Notes \cup Batches /\ lock[row] \in Open \cup {None}
  BY DEF TypeOK, SessionsOK, LocksInv
<1>2. lock'[row] = IF lock[row] = t THEN None ELSE lock[row]
  BY <1>1 DEF Close
<1>3. ASSUME lock[row] \in Open, lock[row] # t PROVE lock[row] \in Open'
  BY <1>3, CloseEnds DEF TypeOK, Open
<1>4. QED
  BY <1>1, <1>2, <1>3

\* A row is taken by a transaction that stays open.
LEMMA TakeHolds ==
  ASSUME TypeOK, LocksInv, NEW t \in Transactions, NEW r \in Notes \cup Batches, Take(t, r),
         t \in Open', Open \subseteq Open'
  PROVE  \A row \in Notes \cup Batches : lock'[row] \in Open' \cup {None}
BY DEF Take, TypeOK, SessionsOK, LocksInv

\* What is held, and by whom, is kept by every step.
LEMMA StepLocks ==
  ASSUME IInv, LocksInv, [Next]_vars
  PROVE  \A row \in Notes \cup Batches : lock'[row] \in Open' \cup {None}
<1> DEFINE Held == \A row \in Notes \cup Batches : lock'[row] \in Open' \cup {None}
<1>0. TypeOK
  BY DEF IInv
<1>1. ASSUME NEW t \in Transactions, Close(t) PROVE Held
  BY <1>0, <1>1, CloseFrees
<1>2. ASSUME UNCHANGED lock, Open \subseteq Open' PROVE Held
  BY <1>2 DEF LocksInv
<1>3. ASSUME NEW r \in Requests, QueueNote(r) PROVE Held
  <2>1. ids[r][pos[r]] \in Notes
    BY <1>0, <1>3, ListIsSequence, EmptyHasNoPosition DEF QueueNote, TypeOK, SessionsOK
  <2>2. r \in Open' /\ Open \subseteq Open'
    BY <1>0, <1>3 DEF QueueNote, Open
  <2>3. QED
    BY <1>0, <1>3, <2>1, <2>2, TakeHolds DEF QueueNote
<1>4. ASSUME NEW d \in Deliveries, StartBatch(d) PROVE Held
  <2>1. task[d].batch \in Batches
    BY <1>4 DEF StartBatch, IInv, DeliveriesInv, Opened
  <2>2. d \in Open' /\ Open \subseteq Open'
    BY <1>0, <1>4 DEF StartBatch, Open, TypeOK, SessionsOK
  <2>3. QED
    BY <1>0, <1>4, <2>1, <2>2, TakeHolds DEF StartBatch
<1>5. ASSUME NEW d \in Deliveries, FailNote(d) \/ IssueNote(d) PROVE Held
  <2>1. JobList(d)[pos[d]] \in Notes
    BY <1>0, <1>5, ListIsSequence, EmptyHasNoPosition
    DEF FailNote, IssueNote, AtJob, JobList, IInv, DeliveriesInv, Opened, TypeOK, TablesOK
  <2>2. d \in Open' /\ Open \subseteq Open'
    BY <1>0, <1>5 DEF FailNote, IssueNote, AtJob, Open, TypeOK, SessionsOK
  <2>3. CASE Take(d, JobList(d)[pos[d]])
    BY <1>0, <2>1, <2>2, <2>3, TakeHolds
  <2>4. CASE UNCHANGED lock
    BY <1>2, <2>2, <2>4
  <2>5. QED
    BY <1>5, <2>3, <2>4 DEF FailNote, IssueNote
<1>6. ASSUME NEW r \in Requests, OpenRequest(r) \/ ContinueRequest(r) PROVE Held
  <2>1. CASE SelectNotes(r) \/ InsertBatch(r)
    BY <1>0, <1>2, <2>1 DEF SelectNotes, InsertBatch, MayOpen, Open, TypeOK, SessionsOK
  <2>2. CASE RefuseNotes(r) \/ RefuseActive(r) \/ CommitRequest(r)
    BY <1>1, <2>2 DEF RefuseNotes, RefuseActive, CommitRequest
  <2>3. QED
    BY <1>3, <1>6, <2>1, <2>2 DEF OpenRequest, ContinueRequest
<1>7. ASSUME NEW d \in Deliveries, OpenDelivery(d) \/ ContinueDelivery(d) PROVE Held
  <2>1. CASE SelectBatch(d) \/ SelectJobs(d) \/ SelectJobNotes(d)
    BY <1>0, <1>2, <2>1
    DEF SelectBatch, SelectJobs, SelectJobNotes, MayOpen, Open, TypeOK, SessionsOK
  <2>2. CASE SkipIssuedNote(d) \/ StoreXml(d) \/ StoreDanfe(d)
    BY <1>0, <1>2, <2>2
    DEF SkipIssuedNote, StoreXml, StoreDanfe, session, Open, TypeOK, SessionsOK
  <2>3. CASE RefuseBatch(d) \/ CommitBatch(d)
    BY <1>1, <2>3 DEF RefuseBatch, CommitBatch
  <2>4. QED
    BY <1>4, <1>5, <1>7, <2>1, <2>2, <2>3 DEF OpenDelivery, ContinueDelivery
<1>8. ASSUME NEW t \in Transactions, Abort(t) \/ AbortDeadlocked(t) PROVE Held
  BY <1>1, <1>8 DEF Abort, AbortDeadlocked
<1>9. ASSUME UNCHANGED vars PROVE Held
  BY <1>2, <1>9 DEF vars, Open
<1>10. QED
  BY <1>6, <1>7, <1>8, <1>9 DEF Next, Quiescent

LEMMA LocksHold == Spec => [](IInv /\ LocksInv)
<1>1. Init => LocksInv
  <2> SUFFICES ASSUME Init PROVE LocksInv
    OBVIOUS
  <2>1. Open = {}
    BY DEF Init, Open
  <2>2. QED
    BY <2>1, FS_EmptySet DEF Init, LocksInv
<1>2. ASSUME IInv, LocksInv, [Next]_vars PROVE LocksInv'
  <2>1. IsFiniteSet(Open)'
    <3>1. ASSUME NEW S, Open' \in SUBSET S, IsFiniteSet(S) PROVE IsFiniteSet(Open')
      BY <3>1, FS_Subset
    <3>2. IsFiniteSet(Open) /\ \A t \in Transactions : IsFiniteSet(Open \cup {t})
      BY <1>2, FS_Singleton, FS_Union DEF LocksInv
    <3>3. QED
      BY <1>2, <3>1, <3>2, OpenMoves DEF IInv
  <2>2. QED
    BY <1>2, <2>1, StepLocks DEF LocksInv
<1>3. QED
  BY <1>1, <1>2, InitIInv, StepIInv, PTL DEF Spec

\* Every wait for a row can end: a transaction that has not the row it wants waits for one that
\* is open, and open ones that all wait for one another are on a ring that the detector breaks.
THEOREM NoWaitForever == Spec => []EveryWaitCanEnd
<1>1. ASSUME IInv, LocksInv PROVE EveryWaitCanEnd
  <2> DEFINE Free(t) == \A row \in Wanted(t) : CanWrite(t, row)
             Wait == {w \in Open \X Open : Waits(w[1], w[2])}
  <2>1. ASSUME NEW t \in Transactions, ~Free(t) PROVE \E u \in Open : Waits(t, u)
    BY <1>1, <2>1 DEF Wanted, CanWrite, Waits, LocksInv, IInv, TypeOK, SessionsOK
  <2> HIDE DEF Free
  <2> SUFFICES ASSUME NEW group \in SUBSET Open, group # {},
                      \A t \in group, u \in Open : Waits(t, u) => u \in group,
                      \A t \in group : ~Free(t)
               PROVE  \E t \in group : Deadlocked(t)
    BY DEF EveryWaitCanEnd, Free
  <2>2. IsFiniteSet(group)
    BY <1>1, FS_Subset DEF LocksInv
  <2>3. Blocked(group, Wait)
    BY <2>1 DEF Blocked, Open
  <2>4. PICK ring \in SUBSET group : ring # {} /\ Ring(ring, Wait)
    BY <2>2, <2>3, BlockedHasRing
  <2>5. ring \in SUBSET Open
           /\ \A u \in ring : (\E v \in ring : Waits(u, v)) /\ (\E v \in ring : Waits(v, u))
    BY <2>4 DEF Ring
  <2>6. \A t \in ring : Deadlocked(t)
    BY <2>5 DEF Deadlocked
  <2>7. QED
    BY <2>4, <2>6
<1>2. QED
  BY <1>1, LocksHold, PTL

-----------------------------------------------------------------------------
(* Transactions are finite *)

\* The most steps a request has left, and those a delivery has: one for a note to queue, three
\* for a job to run.
RequestLeft(r) ==
  CASE pc[r] = "selected" -> Len(ids[r]) + 2
    [] pc[r] = "queueing" -> Len(ids[r]) + 2 - pos[r]
    [] OTHER -> 0

DeliveryLeft(d) ==
  CASE pc[d] = "batch" -> 3 * Len(JobList(d)) + 4
    [] pc[d] = "jobs" -> 3 * Len(JobList(d)) + 3
    [] pc[d] = "notes" -> 3 * Len(JobList(d)) + 2
    [] pc[d] = "jobloop" -> 3 * (Len(JobList(d)) - pos[d]) + 4
    [] pc[d] = "xml" -> 3 * (Len(JobList(d)) - pos[d]) + 3
    [] pc[d] = "pdf" -> 3 * (Len(JobList(d)) - pos[d]) + 2
    [] OTHER -> 0

\* A transaction stands at a statement of its handler, within its list or just after its end.
PlacesInv ==
  /\ \A r \in Requests :
       /\ pc[r] \in {"idle", "selected", "queueing", "done"}
       /\ pc[r] \in {"selected", "queueing"} => ids[r] \in Lists
       /\ pc[r] = "queueing" => pos[r] \in 1..(Len(ids[r]) + 1)
  /\ \A d \in Deliveries :
       /\ pc[d] \notin {"selected", "queueing"}
       /\ pc[d] = "jobloop" => pos[d] \in 1..(Len(JobList(d)) + 1)

\* A list has a length and the positions up to it.
LEMMA ListLength ==
  ASSUME NEW s \in Lists \cup {<<>>}
  PROVE  Len(s) \in Nat /\ DOMAIN s = 1..Len(s)
<1>1. CASE s \in Lists
  <2>1. PICK k \in Nat : s \in [1..k -> Notes]
    BY <1>1 DEF Lists
  <2>2. s \in Seq(Notes)
    BY <2>1
  <2>3. QED
    BY <2>2
<1>2. QED
  BY <1>1

\* The session of a request stays as it is, ends, or moves by a step of the request itself.
LEMMA RequestMovesItself ==
  ASSUME TypeOK, [Next]_vars, NEW r \in Requests
  PROVE  \/ pc'[r] = pc[r] /\ pos'[r] = pos[r] /\ ids'[r] = ids[r]
         \/ pc'[r] = "done"
         \/ SelectNotes(r) \/ InsertBatch(r) \/ QueueNote(r)
<1> DEFINE Kept == pc'[r] = pc[r] /\ pos'[r] = pos[r] /\ ids'[r] = ids[r]
<1> USE DEF TypeOK, SessionsOK
<1>1. ASSUME NEW t \in Transactions, Close(t)
      PROVE  Kept \/ pc'[r] = "done"
  BY <1>1 DEF Close
<1>2. ASSUME NEW q \in Requests, OpenRequest(q) \/ ContinueRequest(q)
      PROVE  Kept \/ pc'[r] = "done" \/ SelectNotes(r) \/ InsertBatch(r) \/ QueueNote(r)
  <2>1. CASE SelectNotes(q) \/ InsertBatch(q) \/ QueueNote(q)
    BY <2>1 DEF SelectNotes, InsertBatch, QueueNote
  <2>2. CASE RefuseNotes(q) \/ RefuseActive(q) \/ CommitRequest(q)
    BY <1>1, <2>2 DEF RefuseNotes, RefuseActive, CommitRequest
  <2>3. QED
    BY <1>2, <2>1, <2>2 DEF OpenRequest, ContinueRequest
<1>3. ASSUME NEW d \in Deliveries, OpenDelivery(d) \/ ContinueDelivery(d)
      PROVE  Kept \/ pc'[r] = "done"
  <2>1. CASE SelectBatch(d) \/ SelectJobs(d) \/ SelectJobNotes(d) \/ StartBatch(d)
    BY <2>1 DEF SelectBatch, SelectJobs, SelectJobNotes, StartBatch
  <2>2. CASE SkipIssuedNote(d) \/ FailNote(d) \/ IssueNote(d) \/ StoreXml(d) \/ StoreDanfe(d)
    BY <2>2 DEF SkipIssuedNote, FailNote, IssueNote, StoreXml, StoreDanfe, session
  <2>3. CASE RefuseBatch(d) \/ CommitBatch(d)
    BY <1>1, <2>3 DEF RefuseBatch, CommitBatch
  <2>4. QED
    BY <1>3, <2>1, <2>2, <2>3 DEF OpenDelivery, ContinueDelivery
<1>4. ASSUME NEW t \in Transactions, Abort(t) \/ AbortDeadlocked(t)
      PROVE  Kept \/ pc'[r] = "done"
  BY <1>1, <1>4 DEF Abort, AbortDeadlocked
<1>5. ASSUME UNCHANGED vars
      PROVE  Kept
  BY <1>5 DEF vars
<1>6. QED
  BY <1>2, <1>3, <1>4, <1>5 DEF Next, Quiescent

LEMMA StepPlacesInv ==
  ASSUME IInv, PlacesInv, [Next]_vars
  PROVE  PlacesInv'
<1>0. TypeOK /\ DeliveriesInv /\ BatchesInv
  BY DEF IInv
<1>1. ASSUME NEW r \in Requests
      PROVE  /\ pc'[r] \in {"idle", "selected", "queueing", "done"}
             /\ pc'[r] \in {"selected", "queueing"} => ids'[r] \in Lists
             /\ pc'[r] = "queueing" => pos'[r] \in 1..(Len(ids'[r]) + 1)
  <2>1. CASE SelectNotes(r)
    BY <1>0, <2>1 DEF SelectNotes, TypeOK, SessionsOK
  <2>2. CASE InsertBatch(r)
    <3>1. ids[r] \in Lists /\ ids'[r] = ids[r] /\ pos'[r] = 1 /\ pc'[r] = "queueing"
      BY <1>0, <2>2 DEF InsertBatch, PlacesInv, TypeOK, SessionsOK
    <3>2. QED
      BY <3>1, ListLength
  <2>3. CASE QueueNote(r)
    <3>1. /\ ids[r] \in Lists /\ ids'[r] = ids[r] /\ pc'[r] = "queueing"
          /\ pos[r] \in DOMAIN ids[r] /\ pos'[r] = pos[r] + 1
      BY <1>0, <2>3 DEF QueueNote, PlacesInv, TypeOK, SessionsOK
    <3>2. QED
      BY <3>1, ListLength
  <2>4. CASE pc'[r] = pc[r] /\ pos'[r] = pos[r] /\ ids'[r] = ids[r]
    BY <2>4 DEF PlacesInv
  <2>5. QED
    BY <1>0, <2>1, <2>2, <2>3, <2>4, RequestMovesItself
<1>2. ASSUME NEW d \in Deliveries, pc'[d] = "jobloop"
      PROVE  pos'[d] \in 1..(Len(JobList(d)') + 1)
  <2>1. CASE SelectBatch(d) \/ SelectJobs(d) \/ SelectJobNotes(d) \/ IssueNote(d) \/ StoreXml(d)
    BY <1>0, <1>2, <2>1
    DEF SelectBatch, SelectJobs, SelectJobNotes, IssueNote, AtJob, StoreXml, TypeOK, SessionsOK
  <2>2. ASSUME Opened(d), task'[d] = task[d]
        PROVE  JobList(d)' = JobList(d) /\ JobList(d) \in Lists \cup {<<>>}
    BY <1>0, <2>2, BatchStays DEF DeliveriesInv, JobList, TypeOK, TablesOK
  <2>3. CASE StartBatch(d)
    <3>1. Opened(d) /\ task'[d] = task[d] /\ pos'[d] = 1
      BY <1>0, <2>3 DEF StartBatch, Opened, TypeOK, SessionsOK
    <3>2. QED
      BY <2>2, <3>1, ListLength
  <2>4. CASE SkipIssuedNote(d) \/ FailNote(d) \/ StoreDanfe(d)
    <3>1. Opened(d) /\ task'[d] = task[d] /\ pos[d] \in DOMAIN JobList(d) /\ pos'[d] = pos[d] + 1
      BY <1>0, <2>4
      DEF SkipIssuedNote, FailNote, StoreDanfe, AtJob, Opened, DeliveriesInv, TypeOK, SessionsOK
    <3>2. QED
      BY <2>2, <3>1, ListLength
  <2>5. CASE SessionKept(d)
    <3>1. Opened(d) /\ task'[d] = task[d] /\ pos'[d] = pos[d] /\ pc[d] = "jobloop"
      BY <1>2, <2>5 DEF SessionKept, Opened
    <3>2. QED
      BY <2>2, <3>1 DEF PlacesInv
  <2>6. QED
    BY <1>0, <1>2, <2>1, <2>3, <2>4, <2>5, DeliveryMovesItself
<1>3. ASSUME NEW d \in Deliveries
      PROVE  pc'[d] \notin {"selected", "queueing"}
  <2>1. CASE SessionKept(d)
    BY <2>1 DEF SessionKept, PlacesInv
  <2>2. CASE SelectBatch(d) \/ SelectJobs(d) \/ SelectJobNotes(d) \/ StartBatch(d)
    BY <1>0, <2>2
    DEF SelectBatch, SelectJobs, SelectJobNotes, StartBatch, TypeOK, SessionsOK
  <2>3. CASE SkipIssuedNote(d) \/ FailNote(d) \/ IssueNote(d) \/ StoreXml(d) \/ StoreDanfe(d)
    BY <1>0, <2>3
    DEF SkipIssuedNote, FailNote, IssueNote, StoreXml, StoreDanfe, AtJob, TypeOK, SessionsOK
  <2>4. QED
    BY <1>0, <2>1, <2>2, <2>3, DeliveryMovesItself
<1>4. QED
  BY <1>1, <1>2, <1>3 DEF PlacesInv

\* Where an open transaction stands, in numbers.
LEMMA PlacesAreNumbers ==
  ASSUME IInv, PlacesInv
  PROVE  /\ \A r \in Requests : Opened(r) =>
              /\ pc[r] \in {"selected", "queueing"}
              /\ Len(ids[r]) \in Nat /\ pos[r] \in Nat
              /\ pc[r] = "queueing" => pos[r] <= Len(ids[r]) + 1
         /\ \A d \in Deliveries : Opened(d) =>
              /\ pc[d] \in {"batch", "jobs", "notes", "jobloop", "xml", "pdf"}
              /\ Len(JobList(d)) \in Nat /\ pos[d] \in Nat
              /\ pc[d] = "jobloop" => pos[d] <= Len(JobList(d)) + 1
              /\ pc[d] \in {"xml", "pdf"} => pos[d] <= Len(JobList(d))
<1>0. TypeOK
  BY DEF IInv
<1>1. ASSUME NEW r \in Requests, Opened(r)
      PROVE  /\ pc[r] \in {"selected", "queueing"}
             /\ Len(ids[r]) \in Nat /\ pos[r] \in Nat
             /\ pc[r] = "queueing" => pos[r] <= Len(ids[r]) + 1
  BY <1>0, <1>1, ListLength DEF PlacesInv, Opened, TypeOK, SessionsOK
<1>2. ASSUME NEW d \in Deliveries, Opened(d)
      PROVE  /\ pc[d] \in {"batch", "jobs", "notes", "jobloop", "xml", "pdf"}
             /\ Len(JobList(d)) \in Nat /\ pos[d] \in Nat
             /\ pc[d] = "jobloop" => pos[d] <= Len(JobList(d)) + 1
             /\ pc[d] \in {"xml", "pdf"} => pos[d] <= Len(JobList(d))
  <2>1. JobList(d) \in Lists \cup {<<>>}
    BY <1>0, <1>2 DEF JobList, IInv, DeliveriesInv, TypeOK, TablesOK
  <2>2. Len(JobList(d)) \in Nat /\ DOMAIN JobList(d) = 1..Len(JobList(d))
    BY <2>1, ListLength
  <2>3. QED
    BY <1>0, <1>2, <2>2 DEF PlacesInv, IInv, DeliveriesInv, Opened, TypeOK, SessionsOK
<1>3. QED
  BY <1>1, <1>2

\* What is left is a number, and something is left while the transaction is open.
LEMMA LeftIsANumber ==
  ASSUME IInv, PlacesInv
  PROVE  /\ \A r \in Requests : RequestLeft(r) \in Nat /\ (Opened(r) => RequestLeft(r) > 0)
         /\ \A d \in Deliveries : DeliveryLeft(d) \in Nat /\ (Opened(d) => DeliveryLeft(d) > 0)
<1>1. ASSUME NEW r \in Requests
      PROVE  RequestLeft(r) \in Nat /\ (Opened(r) => RequestLeft(r) > 0)
  <2>1. CASE Opened(r)
    BY <2>1, PlacesAreNumbers DEF RequestLeft
  <2>2. CASE ~Opened(r)
    BY <2>2 DEF RequestLeft, Opened
  <2>3. QED
    BY <2>1, <2>2
<1>2. ASSUME NEW d \in Deliveries
      PROVE  DeliveryLeft(d) \in Nat /\ (Opened(d) => DeliveryLeft(d) > 0)
  <2>1. CASE pc[d] \in {"batch", "jobs", "notes"}
    BY <2>1, PlacesAreNumbers DEF DeliveryLeft, Opened
  <2>2. CASE pc[d] \in {"jobloop", "xml", "pdf"}
    <3>1. /\ Len(JobList(d)) \in Nat /\ pos[d] \in Nat
          /\ pos[d] <= Len(JobList(d)) + 1
          /\ pc[d] # "jobloop" => pos[d] <= Len(JobList(d))
      BY <2>2, PlacesAreNumbers DEF Opened
    <3>2. QED
      BY <2>2, <3>1 DEF DeliveryLeft
  <2>3. CASE ~Opened(d)
    BY <2>3 DEF DeliveryLeft, Opened
  <2>4. QED
    BY <2>1, <2>2, <2>3, PlacesAreNumbers
<1>3. QED
  BY <1>1, <1>2

\* A step of a request leaves it fewer.
LEMMA RequestStepCounts ==
  ASSUME IInv, PlacesInv, NEW r \in Requests, ContinueRequest(r)
  PROVE  RequestLeft(r)' \in Nat /\ RequestLeft(r)' < RequestLeft(r)
<1>0. TypeOK
  BY DEF IInv
<1>1. CASE InsertBatch(r)
  <2>1. pc[r] = "selected" /\ pc'[r] = "queueing" /\ pos'[r] = 1 /\ ids'[r] = ids[r]
    BY <1>0, <1>1 DEF InsertBatch, TypeOK, SessionsOK
  <2>2. QED
    BY <2>1, PlacesAreNumbers DEF RequestLeft, Opened
<1>2. CASE QueueNote(r)
  <2>1. pc[r] = "queueing" /\ pc'[r] = "queueing" /\ pos'[r] = pos[r] + 1 /\ ids'[r] = ids[r]
    BY <1>0, <1>2 DEF QueueNote, TypeOK, SessionsOK
  <2>2. QED
    BY <2>1, PlacesAreNumbers DEF RequestLeft, Opened
<1>3. CASE RefuseActive(r) \/ CommitRequest(r)
  <2>1. Opened(r) /\ pc'[r] = "done"
    BY <1>0, <1>3, CloseEnds DEF RefuseActive, CommitRequest, Opened, TypeOK
  <2>2. RequestLeft(r)' = 0
    BY <2>1 DEF RequestLeft
  <2>3. QED
    BY <2>1, <2>2, LeftIsANumber
<1>4. QED
  BY <1>1, <1>2, <1>3 DEF ContinueRequest

\* And so does a step of a delivery.
LEMMA DeliveryStepCounts ==
  ASSUME IInv, PlacesInv, NEW d \in Deliveries, ContinueDelivery(d)
  PROVE  DeliveryLeft(d)' \in Nat /\ DeliveryLeft(d)' < DeliveryLeft(d)
<1>0. TypeOK
  BY DEF IInv
<1>1. CASE SelectJobs(d) \/ SelectJobNotes(d) \/ StartBatch(d)
  <2>1. /\ Opened(d) /\ JobList(d)' = JobList(d)
        /\ \/ pc[d] = "batch" /\ pc'[d] = "jobs"
           \/ pc[d] = "jobs" /\ pc'[d] = "notes"
           \/ pc[d] = "notes" /\ pc'[d] = "jobloop" /\ pos'[d] = 1
    BY <1>0, <1>1
    DEF SelectJobs, SelectJobNotes, StartBatch, JobList, tables, Opened, TypeOK, SessionsOK
  <2>2. QED
    BY <2>1, PlacesAreNumbers DEF DeliveryLeft
<1>2. CASE SkipIssuedNote(d) \/ FailNote(d) \/ StoreDanfe(d)
  <2>1. /\ Opened(d) /\ JobList(d)' = JobList(d)
        /\ pc[d] = "jobloop" \/ pc[d] = "pdf"
        /\ pc[d] = "jobloop" => pos[d] \in DOMAIN JobList(d)
        /\ pc'[d] = "jobloop" /\ pos'[d] = pos[d] + 1
    BY <1>0, <1>2
    DEF SkipIssuedNote, FailNote, StoreDanfe, AtJob, JobList, tables, Opened, TypeOK, SessionsOK
  <2>2. Len(JobList(d)) \in Nat /\ pos[d] \in Nat /\ pos[d] <= Len(JobList(d))
    <3>1. JobList(d) \in Lists \cup {<<>>}
      BY <1>0, <2>1 DEF JobList, IInv, DeliveriesInv, TypeOK, TablesOK
    <3>2. QED
      BY <2>1, <3>1, ListLength, PlacesAreNumbers
  <2>3. DeliveryLeft(d)' = 3 * (Len(JobList(d)) - (pos[d] + 1)) + 4
    BY <2>1 DEF DeliveryLeft
  <2>4. DeliveryLeft(d) >= 3 * (Len(JobList(d)) - pos[d]) + 2
    BY <2>1, <2>2 DEF DeliveryLeft
  <2>5. DeliveryLeft(d) \in Nat
    BY LeftIsANumber
  <2>6. QED
    BY <2>2, <2>3, <2>4, <2>5
<1>3. CASE IssueNote(d) \/ StoreXml(d)
  <2>1. /\ Opened(d) /\ JobList(d)' = JobList(d) /\ pos'[d] = pos[d]
        /\ \/ pc[d] = "jobloop" /\ pc'[d] = "xml"
           \/ pc[d] = "xml" /\ pc'[d] = "pdf"
    BY <1>0, <1>3
    DEF IssueNote, StoreXml, AtJob, JobList, tables, session, Opened, TypeOK, SessionsOK
  <2>2. QED
    BY <2>1, PlacesAreNumbers DEF DeliveryLeft
<1>4. CASE CommitBatch(d)
  <2>1. Opened(d) /\ pc'[d] = "done"
    BY <1>0, <1>4, CloseEnds DEF CommitBatch, Opened, TypeOK
  <2>2. DeliveryLeft(d)' = 0
    BY <2>1 DEF DeliveryLeft
  <2>3. QED
    BY <2>1, <2>2, LeftIsANumber
<1>5. QED
  BY <1>1, <1>2, <1>3, <1>4 DEF ContinueDelivery

\* Every step of an open transaction leaves it fewer steps, and no step of another one more.
EveryStepCounts ==
  [][ /\ \A r \in Requests :
           /\ ContinueRequest(r) => RequestLeft(r)' < RequestLeft(r)
           /\ Opened(r) => RequestLeft(r)' <= RequestLeft(r)
      /\ \A d \in Deliveries :
           /\ ContinueDelivery(d) => DeliveryLeft(d)' < DeliveryLeft(d)
           /\ Opened(d) => DeliveryLeft(d)' <= DeliveryLeft(d) ]_vars

\* An open transaction takes finitely many steps, at most three for a job and four for the rest,
\* whatever the others do meanwhile: nothing sends process_batch or create_mock_batch back.  With
\* NoWaitForever it is why, under fair scheduling, every transaction ends.
THEOREM TransactionsAreFinite == Spec => EveryStepCounts
<1>1. Init => PlacesInv
  BY DEF Init, PlacesInv
<1>2. ASSUME IInv, PlacesInv, [Next]_vars, NEW r \in Requests, Opened(r)
      PROVE  RequestLeft(r)' <= RequestLeft(r)
  <2>1. CASE InsertBatch(r) \/ QueueNote(r)
    <3>1. RequestLeft(r)' \in Nat /\ RequestLeft(r)' < RequestLeft(r)
      BY <1>2, <2>1, RequestStepCounts DEF ContinueRequest
    <3>2. RequestLeft(r) \in Nat
      BY <1>2, LeftIsANumber
    <3>3. QED
      BY <3>1, <3>2
  <2>2. CASE pc'[r] = pc[r] /\ pos'[r] = pos[r] /\ ids'[r] = ids[r]
    <3>1. RequestLeft(r)' = RequestLeft(r)
      BY <2>2 DEF RequestLeft
    <3>2. QED
      BY <1>2, <3>1, LeftIsANumber
  <2>3. CASE pc'[r] = "done"
    <3>1. RequestLeft(r)' = 0
      BY <2>3 DEF RequestLeft
    <3>2. QED
      BY <1>2, <3>1, LeftIsANumber
  <2>4. QED
    BY <1>2, <2>1, <2>2, <2>3, RequestMovesItself DEF SelectNotes, MayOpen, Opened, IInv
<1>3. ASSUME IInv, PlacesInv, [Next]_vars, NEW d \in Deliveries, Opened(d)
      PROVE  DeliveryLeft(d)' <= DeliveryLeft(d)
  <2>1. CASE ContinueDelivery(d)
    <3>1. DeliveryLeft(d)' \in Nat /\ DeliveryLeft(d)' < DeliveryLeft(d)
      BY <1>3, <2>1, DeliveryStepCounts
    <3>2. DeliveryLeft(d) \in Nat
      BY <1>3, LeftIsANumber
    <3>3. QED
      BY <3>1, <3>2
  <2>2. CASE SessionKept(d)
    <3>1. JobList(d)' = JobList(d)
      BY <1>3, <2>2, BatchStays DEF SessionKept, JobList, IInv, DeliveriesInv
    <3>2. DeliveryLeft(d)' = DeliveryLeft(d)
      BY <2>2, <3>1 DEF SessionKept, DeliveryLeft
    <3>3. QED
      BY <1>3, <3>2, LeftIsANumber
  <2>3. CASE pc'[d] = "done"
    <3>1. DeliveryLeft(d)' = 0
      BY <2>3 DEF DeliveryLeft
    <3>2. QED
      BY <1>3, <3>1, LeftIsANumber
  <2>4. QED
    BY <1>3, <2>1, <2>2, <2>3, DeliveryMovesItself
    DEF ContinueDelivery, SelectBatch, MayOpen, Opened, IInv
<1>4. ASSUME IInv, PlacesInv, [Next]_vars
      PROVE  /\ \A r \in Requests :
                  /\ ContinueRequest(r) => RequestLeft(r)' < RequestLeft(r)
                  /\ Opened(r) => RequestLeft(r)' <= RequestLeft(r)
             /\ \A d \in Deliveries :
                  /\ ContinueDelivery(d) => DeliveryLeft(d)' < DeliveryLeft(d)
                  /\ Opened(d) => DeliveryLeft(d)' <= DeliveryLeft(d)
  BY <1>2, <1>3, <1>4, RequestStepCounts, DeliveryStepCounts
<1>5. QED
  BY <1>1, <1>4, StepPlacesInv, InvariantHolds, PTL DEF Spec, EveryStepCounts

=============================================================================
