------------------------- MODULE EmissionSerialProofs -------------------------
(***************************************************************************)
(* Proofs about Emission while transactions do not overlap (MaxOpen = 1),  *)
(* for any notes, requests and deliveries: what a test that makes one call *)
(* after the other sees.                                                   *)
(***************************************************************************)
EXTENDS EmissionProofs

USE EmissionAssumption DEF Transactions, Batches

Prepared(r) == pc[r] \in {"selected", "queueing"}

\* At most one transaction is open, and what it has read is what the tables hold.
AloneInv ==
  /\ IsFiniteSet(Open) /\ \A t, u \in Open : t = u
  /\ \A r \in Requests : Prepared(r) =>
       ids[r] \in Lists /\ \A n \in Range(ids[r]) : note[n].status = "DRAFT"
  /\ \A d \in Deliveries : Opened(d) => batch[task[d].batch] = "PENDING"
  /\ \A d \in Deliveries : Loaded(d) =>
       \A n \in Range(JobList(d)) : seenNote[d][n] = note[n]

\* A note is in one batch, which tells its status; only a failed note bears a message; the
\* documents of a note are of one delivery that has left it issued.
FateInv ==
  /\ \A a, b \in Batches : a # b => Range(lot[a]) \cap Range(lot[b]) = {}
  /\ \A b \in Batches : \A n \in Range(lot[b]) :
       /\ batch[b] = "PENDING" => note[n].status = "QUEUED"
       /\ batch[b] = "COMPLETED" => note[n].status = "ISSUED"
       /\ batch[b] = "FAILED" => note[n].status \in {"ISSUED", "FAILED"}
  /\ \A n \in Notes : note[n].status # "FAILED" => ~note[n].error
  /\ \A x \in docs : note[x[2]].status = "ISSUED"
  /\ \A x, y \in docs : x[2] = y[2] => x[1] = y[1]

SInv == JInv /\ AloneInv /\ FateInv

-----------------------------------------------------------------------------
(* One transaction at a time *)

\* With one slot, no transaction opens beside another.
LEMMA StepOpen ==
  ASSUME MaxOpen = 1, TypeOK, AloneInv, [Next]_vars
  PROVE  IsFiniteSet(Open') /\ \A t, u \in Open' : t = u
<1>1. IsFiniteSet(Open) /\ \A t, u \in Open : t = u
  BY DEF AloneInv
<1>2. CASE Open' \in SUBSET Open
  BY <1>1, <1>2, FS_Subset
<1>3. ASSUME NEW t \in Transactions, MayOpen(t), Open' \in SUBSET (Open \cup {t})
      PROVE  IsFiniteSet(Open') /\ \A v, u \in Open' : v = u
  <2>1. Cardinality(Open) = 0
    BY <1>1, <1>3, FS_CardinalityType DEF MayOpen
  <2>2. Open = {}
    BY <1>1, <2>1, FS_EmptySet
  <2>3. IsFiniteSet({t})
    BY FS_Singleton
  <2>4. QED
    BY <1>3, <2>2, <2>3, FS_Subset
<1>4. QED
  BY <1>2, <1>3, OpenMoves

\* So what commits is what was open, and a transaction that stays open sees the tables stay.
LEMMA OpenSeesNoCommit ==
  ASSUME TypeOK, AloneInv, [Next]_vars, NEW t \in Transactions, Opened(t), Opened(t)'
  PROVE  UNCHANGED tables
<1>1. \A u \in Transactions : Opened(u) => u = t
  BY DEF AloneInv, Open, Opened
<1>2. ASSUME NEW r \in Requests, CommitRequest(r) PROVE FALSE
  <2>1. Opened(r) /\ pc'[r] = "done"
    BY <1>2, CloseEnds DEF CommitRequest, Opened, TypeOK
  <2>2. QED
    BY <1>1, <2>1 DEF Opened
<1>3. ASSUME NEW d \in Deliveries, CommitBatch(d) PROVE FALSE
  <2>1. Opened(d) /\ pc'[d] = "done"
    BY <1>3, CloseEnds DEF CommitBatch, Opened, TypeOK
  <2>2. QED
    BY <1>1, <2>1 DEF Opened
<1>4. QED
  BY <1>2, <1>3, TablesMoveAtCommit

\* The session of a request that goes on.
LEMMA RequestGoesOn ==
  ASSUME TypeOK, [Next]_vars, NEW r \in Requests, Prepared(r)'
  PROVE  \/ Prepared(r) /\ ids'[r] = ids[r]
         \/ SelectNotes(r)
BY RequestMovesItself DEF InsertBatch, QueueNote, Prepared

\* What an open transaction has read goes on being what the tables hold.
LEMMA StepAloneInv ==
  ASSUME MaxOpen = 1, IInv, AloneInv, [Next]_vars
  PROVE  AloneInv'
<1> USE DEF IInv
<1>1. IsFiniteSet(Open') /\ \A t, u \in Open' : t = u
  BY StepOpen
<1>2. ASSUME NEW r \in Requests, Prepared(r)'
      PROVE  ids'[r] \in Lists /\ \A n \in Range(ids'[r]) : note'[n].status = "DRAFT"
  <2>1. CASE SelectNotes(r)
    <3>1. PICK role \in Roles, list \in Lists :
            MaySelect(role, list) /\ ids' = [ids EXCEPT ![r] = list]
      BY <2>1 DEF SelectNotes
    <3>2. ids'[r] = list /\ note' = note
      BY <2>1, <3>1 DEF SelectNotes, tables, TypeOK, SessionsOK
    <3>3. \A n \in Range(list) : n \in Notes
      BY PositionOfNote
    <3>4. \A n \in Range(list) : note[n].status = "DRAFT"
      BY <3>1, <3>3 DEF MaySelect, ELIGIBLE_RETURN_NOTE_STATUSES, TypeOK, TablesOK, NoteRow,
        NoteStatuses
    <3>5. QED
      BY <3>2, <3>4
  <2>2. CASE Prepared(r) /\ ids'[r] = ids[r]
    <3>1. Opened(r) /\ Opened(r)'
      BY <1>2, <2>2 DEF Prepared, Opened
    <3>2. note' = note
      BY <3>1, OpenSeesNoCommit DEF tables
    <3>3. QED
      BY <2>2, <3>2 DEF AloneInv
  <2>3. QED
    BY <1>2, <2>1, <2>2, RequestGoesOn
<1>3. ASSUME NEW d \in Deliveries, Opened(d)'
      PROVE  /\ batch'[task'[d].batch] = "PENDING"
             /\ Loaded(d)' => \A n \in Range(JobList(d)') : seenNote'[d][n] = note'[n]
  <2>1. CASE SelectBatch(d)
    <3>1. /\ task'[d].batch \in Batches /\ MayProcess(task'[d].batch)
          /\ pc'[d] = "batch" /\ batch' = batch
      BY <2>1 DEF SelectBatch, tables, TypeOK, SessionsOK
    <3>2. batch[task'[d].batch] = "PENDING"
      BY <3>1 DEF MayProcess, FINAL_BATCH_STATUSES, TypeOK, TablesOK, BatchStatuses
    <3>3. QED
      BY <3>1, <3>2 DEF Loaded
  <2>2. CASE ~SelectBatch(d)
    <3>1. Opened(d) /\ task'[d] = task[d]
      <4>1. CASE SessionKept(d)
        BY <1>3, <4>1 DEF SessionKept, Opened
      <4>2. CASE \/ SelectJobs(d) \/ SelectJobNotes(d) \/ StartBatch(d)
                 \/ SkipIssuedNote(d) \/ FailNote(d) \/ IssueNote(d) \/ StoreXml(d) \/ StoreDanfe(d)
        BY <4>2 DEF SelectJobs, SelectJobNotes, StartBatch, SkipIssuedNote, FailNote, IssueNote,
          AtJob, StoreXml, StoreDanfe, session, Opened
      <4>3. QED
        BY <1>3, <2>2, <4>1, <4>2, DeliveryMovesItself DEF Opened
    <3>2. note' = note /\ batch' = batch /\ lot' = lot
      BY <1>3, <3>1, OpenSeesNoCommit DEF tables
    <3>3. batch'[task'[d].batch] = "PENDING"
      BY <3>1, <3>2 DEF AloneInv
    <3>4. ASSUME Loaded(d)', NEW n \in Range(lot[task[d].batch])
          PROVE  seenNote'[d][n] = note[n]
      <4>1. CASE SelectJobNotes(d)
        <5>1. task[d].batch \in Batches /\ lot[task[d].batch] \in Lists \cup {<<>>}
          BY <3>1 DEF DeliveriesInv, TypeOK, TablesOK
        <5>2. n \in Notes
          BY <3>4, <5>1, PositionOfNote
        <5>3. QED
          BY <3>4, <4>1, <5>2 DEF SelectJobNotes, TypeOK, SessionsOK
      <4>2. CASE Loaded(d) /\ seenNote'[d] = seenNote[d]
        BY <3>4, <4>2 DEF AloneInv, JobList
      <4>3. (Loaded(d) /\ seenNote'[d] = seenNote[d]) \/ SelectJobNotes(d)
        <5>1. CASE SessionKept(d)
          BY <3>4, <5>1 DEF SessionKept, Loaded
        <5>2. CASE SelectJobs(d)
          BY <3>4, <5>2 DEF SelectJobs, Loaded, TypeOK, SessionsOK
        <5>3. CASE \/ StartBatch(d) \/ SkipIssuedNote(d) \/ FailNote(d) \/ IssueNote(d)
                   \/ StoreXml(d) \/ StoreDanfe(d)
          BY <5>3 DEF StartBatch, SkipIssuedNote, FailNote, IssueNote, AtJob, StoreXml, StoreDanfe,
            session, Loaded
        <5>4. QED
          BY <1>3, <2>2, <5>1, <5>2, <5>3, DeliveryMovesItself DEF Opened
      <4>4. QED
        BY <4>1, <4>2, <4>3
    <3>5. JobList(d)' = lot[task[d].batch]
      BY <3>1, <3>2 DEF JobList
    <3>6. QED
      BY <3>2, <3>3, <3>4, <3>5
  <2>3. QED
    BY <2>1, <2>2
<1>4. QED
  BY <1>1, <1>2, <1>3 DEF AloneInv, JobList, Loaded, Opened

-----------------------------------------------------------------------------
(* What a commit makes of notes and batches *)

\* A request creates a batch of the draft notes it has read, and queues them.
LEMMA RequestOutcome ==
  ASSUME IInv, AloneInv, NEW r \in Requests, CommitRequest(r)
  PROVE  /\ batch[r] = "NONE" /\ Range(ids[r]) \subseteq Notes /\ Range(ids[r]) # {}
         /\ \A n \in Range(ids[r]) : note[n].status = "DRAFT"
         /\ batch' = [batch EXCEPT ![r] = "PENDING"]
         /\ Range(lot'[r]) = Range(ids[r]) /\ \A b \in Batches \ {r} : lot'[b] = lot[b]
         /\ \A n \in Notes :
              /\ note'[n].status = IF n \in Range(ids[r]) THEN "QUEUED" ELSE note[n].status
              /\ note'[n].error = note[n].error
         /\ docs' = docs
<1>1. pc[r] = "queueing" /\ Prepared(r)
  BY DEF CommitRequest, Prepared
<1>2. ids[r] \in Lists /\ \A n \in Range(ids[r]) : note[n].status = "DRAFT"
  BY <1>1 DEF AloneInv
<1>3. \A n \in Range(ids[r]) : n \in Notes
  BY <1>2, PositionOfNote
<1>4. Range(ids[r]) # {}
  <2>1. PICK k \in Nat \ {0} : DOMAIN ids[r] = 1..k
    BY <1>2, ListIsSequence
  <2>2. 1 \in DOMAIN ids[r]
    BY <2>1
  <2>3. QED
    BY <2>2 DEF Range
<1>5. batch[r] = "NONE"
  BY <1>1 DEF IInv, BatchesInv
<1>6. Range(lot'[r]) = Range(ids[r]) /\ \A b \in Batches \ {r} : lot'[b] = lot[b]
  BY DEF CommitRequest, IInv, TypeOK, TablesOK
<1>7. ASSUME NEW n \in Notes
      PROVE  /\ note'[n].status = IF n \in Range(ids[r]) THEN "QUEUED" ELSE note[n].status
             /\ note'[n].error = note[n].error
  <2>1. note[n] \in NoteRow
    BY DEF IInv, TypeOK, TablesOK
  <2>2. note'[n] = IF n \in Range(ids[r]) THEN [note[n] EXCEPT !.status = "QUEUED"] ELSE note[n]
    BY DEF CommitRequest
  <2>3. QED
    BY <2>1, <2>2 DEF NoteRow
<1>8. batch' = [batch EXCEPT ![r] = "PENDING"] /\ docs' = docs
  BY DEF CommitRequest
<1>9. QED
  BY <1>2, <1>3, <1>4, <1>5, <1>6, <1>7, <1>8

\* The notes a delivery issues.
IssuedBy(d) == {JobList(d)[i] : i \in {j \in DOMAIN JobList(d) : Issued(d, j)}}

\* A delivery finalises a pending batch: it issues some of its notes, all of them queued, and
\* fails the others.
LEMMA BatchOutcome ==
  ASSUME IInv, AloneInv, FateInv, NEW d \in Deliveries, CommitBatch(d),
         NEW b, b = task[d].batch
  PROVE  /\ b \in Batches /\ batch[b] = "PENDING" /\ Range(lot[b]) \subseteq Notes
         /\ IssuedBy(d) \subseteq Range(lot[b])
         /\ \A n \in Range(lot[b]) : note[n].status = "QUEUED"
         /\ batch' = [batch EXCEPT ![b] = IF IssuedBy(d) = Range(lot[b])
                                          THEN "COMPLETED" ELSE "FAILED"]
         /\ lot' = lot
         /\ \A n \in Notes :
              /\ n \in IssuedBy(d) => note'[n].status = "ISSUED" /\ ~note'[n].error
              /\ n \in Range(lot[b]) \ IssuedBy(d) => note'[n].status = "FAILED"
              /\ n \notin Range(lot[b]) => note'[n] = note[n]
         /\ docs' = docs \cup DocumentsWritten(d)
         /\ \A x \in DocumentsWritten(d) : x[1] = d /\ x[2] \in IssuedBy(d)
<1> DEFINE list == JobList(d)
<1>1. Opened(d) /\ Loaded(d)
  BY DEF CommitBatch, Opened, Loaded
<1>2. b \in Batches /\ batch[b] = "PENDING" /\ list = lot[b] /\ list \in Lists \cup {<<>>}
  BY <1>1 DEF IInv, DeliveriesInv, AloneInv, JobList, TypeOK, TablesOK
<1>3. \A n \in Range(list) : n \in Notes
  BY <1>2, PositionOfNote
<1>4. \A n \in Range(list) : note[n].status = "QUEUED" /\ seenNote[d][n] = note[n]
  BY <1>1, <1>2 DEF FateInv, AloneInv
<1>5. \A n \in Notes : note[n].status # "FAILED" => ~note[n].error
  BY DEF FateInv
<1>6. ASSUME NEW i \in DOMAIN list
      PROVE  /\ list[i] \in Range(list) /\ ~Skipped(d, i)
             /\ Issued(d, i) <=> ~Failed(d, i)
             /\ list[i] \in IssuedBy(d) <=> Issued(d, i)
  <2>1. list[i] \in Range(list)
    BY DEF Range
  <2>2. ~Skipped(d, i)
    BY <1>4, <2>1 DEF Skipped
  <2>3. ASSUME list[i] \in IssuedBy(d) PROVE Issued(d, i)
    <3>1. PICK j \in DOMAIN list : Issued(d, j) /\ list[i] = list[j]
      BY <2>3 DEF IssuedBy
    <3>2. list \in Lists
      BY <1>2, EmptyHasNoPosition
    <3>3. i = j
      BY <3>1, <3>2, ListIsInjective
    <3>4. QED
      BY <3>1, <3>3
  <2>4. QED
    BY <2>1, <2>2, <2>3 DEF IssuedBy, Issued, Failed
<1>7. ASSUME NEW n \in Range(list)
      PROVE  /\ n \in IssuedBy(d) => note'[n].status = "ISSUED" /\ ~note'[n].error
             /\ n \notin IssuedBy(d) => note'[n].status = "FAILED"
  <2>1. PICK i \in DOMAIN list : i = IndexOf(list, n) /\ list[i] = n
    BY <1>2, PositionOfNote
  <2>2. note'[n] = NoteWritten(d, i)
    BY <1>3, <2>1 DEF CommitBatch
  <2>3. /\ seenNote[d][n].status = "QUEUED" /\ ~seenNote[d][n].error
        /\ seenNote[d][n] = note[n] /\ ~note[n].error
    BY <1>3, <1>4, <1>5
  <2>4. CASE Failed(d, i)
    <3>1. note'[n].status = "FAILED" /\ n \notin IssuedBy(d)
      BY <1>6, <2>1, <2>2, <2>3, <2>4 DEF NoteWritten, Dirty
    <3>2. QED
      BY <3>1
  <2>5. CASE ~Failed(d, i)
    <3>1. ~Skipped(d, i) /\ n \in IssuedBy(d)
      BY <1>6, <2>1, <2>5
    <3>2. note'[n].status = "ISSUED"
      BY <2>1, <2>2, <2>3, <2>5, <3>1 DEF NoteWritten, Dirty
    <3>3. note[n].error = FALSE /\ seenNote[d][n].error = FALSE
      BY <1>3, <2>3 DEF IInv, TypeOK, TablesOK, NoteRow
    <3>4. note'[n].error = Dirty(seenNote[d][n].error, "ISSUED" = "FAILED", note[n].error)
      BY <2>1, <2>2, <2>5, <3>1 DEF NoteWritten
    <3>5. ("ISSUED" = "FAILED") = FALSE
      OBVIOUS
    <3>6. ~note'[n].error
      BY <3>3, <3>4, <3>5 DEF Dirty
    <3>7. QED
      BY <3>1, <3>2, <3>6
  <2>6. QED
    BY <2>4, <2>5
<1>8. IssuedBy(d) \subseteq Range(list)
  BY <1>6 DEF IssuedBy
<1>9. IssuedBy(d) = Range(list) <=> ~\E i \in DOMAIN list : Failed(d, i)
  BY <1>6, <1>8 DEF Range
<1>10. batch' = [batch EXCEPT ![b] = IF IssuedBy(d) = Range(list) THEN "COMPLETED" ELSE "FAILED"]
  BY <1>9 DEF CommitBatch, FinalStatus
<1>11. /\ docs' = docs \cup DocumentsWritten(d) /\ lot' = lot
       /\ \A n \in Notes \ Range(list) : note'[n] = note[n]
  BY DEF CommitBatch
<1>12. \A x \in DocumentsWritten(d) : x[1] = d /\ x[2] \in IssuedBy(d)
  BY DEF DocumentsWritten, IssuedBy
<1>13. QED
  BY <1>2, <1>3, <1>4, <1>7, <1>8, <1>10, <1>11, <1>12

-----------------------------------------------------------------------------
(* One fate each *)

LEMMA RequestKeepsFates ==
  ASSUME IInv, AloneInv, JobsInv, FateInv, NEW r \in Requests, CommitRequest(r)
  PROVE  FateInv'
<1> DEFINE chosen == Range(ids[r])
<1>1. /\ batch[r] = "NONE" /\ chosen \subseteq Notes
      /\ \A n \in chosen : note[n].status = "DRAFT"
      /\ batch' = [batch EXCEPT ![r] = "PENDING"]
      /\ Range(lot'[r]) = chosen /\ \A b \in Batches \ {r} : lot'[b] = lot[b]
      /\ \A n \in Notes :
           /\ note'[n].status = IF n \in chosen THEN "QUEUED" ELSE note[n].status
           /\ note'[n].error = note[n].error
      /\ docs' = docs
  BY RequestOutcome
<1>2. batch'[r] = "PENDING" /\ \A b \in Batches \ {r} : batch'[b] = batch[b]
  BY <1>1 DEF IInv, TypeOK, TablesOK
<1> HIDE DEF chosen
<1>3. ASSUME NEW b \in Batches, NEW n \in Range(lot[b])
      PROVE  n \in Notes /\ n \notin chosen
  <2>1. n \in Notes /\ batch[b] # "NONE"
    BY PositionOfNote, EmptyHasNoPosition DEF JobsInv, IInv, TypeOK, TablesOK, Range
  <2>2. note[n].status # "DRAFT"
    BY <2>1 DEF FateInv, IInv, TypeOK, TablesOK, BatchStatuses
  <2>3. QED
    BY <1>1, <2>1, <2>2
<1>4. \A a, b \in Batches : a # b => Range(lot'[a]) \cap Range(lot'[b]) = {}
  BY <1>1, <1>3 DEF FateInv
<1>5. ASSUME NEW b \in Batches, NEW n \in Range(lot'[b])
      PROVE  /\ batch'[b] = "PENDING" => note'[n].status = "QUEUED"
             /\ batch'[b] = "COMPLETED" => note'[n].status = "ISSUED"
             /\ batch'[b] = "FAILED" => note'[n].status \in {"ISSUED", "FAILED"}
  <2>1. CASE b = r
    BY <1>1, <1>2, <1>5, <2>1
  <2>2. CASE b # r
    <3>1. n \in Range(lot[b]) /\ batch'[b] = batch[b]
      BY <1>1, <1>2, <1>5, <2>2
    <3>2. note'[n].status = note[n].status
      BY <1>1, <1>3, <3>1
    <3>3. QED
      BY <3>1, <3>2 DEF FateInv
  <2>3. QED
    BY <2>1, <2>2
<1>6. \A n \in Notes : note'[n].status # "FAILED" => ~note'[n].error
  BY <1>1 DEF FateInv
<1>7. \A x \in docs : note'[x[2]].status = "ISSUED"
  <2>1. TAKE x \in docs
  <2>2. x[2] \in Notes /\ note[x[2]].status = "ISSUED"
    BY DEF FateInv, IInv, TypeOK, TablesOK, Object
  <2>3. QED
    BY <1>1, <2>2
<1>8. QED
  BY <1>1, <1>4, <1>5, <1>6, <1>7 DEF FateInv

LEMMA DeliveryKeepsFates ==
  ASSUME IInv, AloneInv, FateInv, NEW d \in Deliveries, CommitBatch(d)
  PROVE  FateInv'
<1>1. PICK b : b = task[d].batch
  OBVIOUS
<1>2. /\ b \in Batches /\ batch[b] = "PENDING" /\ Range(lot[b]) \subseteq Notes
      /\ IssuedBy(d) \subseteq Range(lot[b])
      /\ \A n \in Range(lot[b]) : note[n].status = "QUEUED"
      /\ batch' = [batch EXCEPT ![b] = IF IssuedBy(d) = Range(lot[b])
                                       THEN "COMPLETED" ELSE "FAILED"]
      /\ lot' = lot
      /\ \A n \in Notes :
           /\ n \in IssuedBy(d) => note'[n].status = "ISSUED" /\ ~note'[n].error
           /\ n \in Range(lot[b]) \ IssuedBy(d) => note'[n].status = "FAILED"
           /\ n \notin Range(lot[b]) => note'[n] = note[n]
      /\ docs' = docs \cup DocumentsWritten(d)
      /\ \A x \in DocumentsWritten(d) : x[1] = d /\ x[2] \in IssuedBy(d)
  BY <1>1, BatchOutcome
<1>3. /\ batch'[b] = IF IssuedBy(d) = Range(lot[b]) THEN "COMPLETED" ELSE "FAILED"
      /\ \A c \in Batches \ {b} : batch'[c] = batch[c]
  BY <1>2 DEF IInv, TypeOK, TablesOK
<1>4. ASSUME NEW c \in Batches, NEW n \in Range(lot[c])
      PROVE  /\ batch'[c] = "PENDING" => note'[n].status = "QUEUED"
             /\ batch'[c] = "COMPLETED" => note'[n].status = "ISSUED"
             /\ batch'[c] = "FAILED" => note'[n].status \in {"ISSUED", "FAILED"}
  <2>1. n \in Notes
    BY PositionOfNote DEF IInv, TypeOK, TablesOK
  <2>2. CASE c = b
    BY <1>2, <1>3, <1>4, <2>1, <2>2
  <2>3. CASE c # b
    <3>1. n \notin Range(lot[b])
      BY <1>2, <2>3 DEF FateInv
    <3>2. note'[n] = note[n] /\ batch'[c] = batch[c]
      BY <1>2, <1>3, <2>1, <2>3, <3>1
    <3>3. QED
      BY <3>2 DEF FateInv
  <2>4. QED
    BY <2>2, <2>3
<1>5. \A n \in Notes : note'[n].status # "FAILED" => ~note'[n].error
  BY <1>2 DEF FateInv
<1>6. \A x \in docs : x[2] \in Notes /\ x[2] \notin Range(lot[b]) /\ note[x[2]].status = "ISSUED"
  <2>1. TAKE x \in docs
  <2>2. x[2] \in Notes /\ note[x[2]].status = "ISSUED"
    BY DEF FateInv, IInv, TypeOK, TablesOK, Object
  <2>3. QED
    BY <1>2, <2>2
<1>7. \A x \in docs' : note'[x[2]].status = "ISSUED"
  BY <1>2, <1>6
<1>8. \A x, y \in docs' : x[2] = y[2] => x[1] = y[1]
  BY <1>2, <1>6 DEF FateInv
<1>9. QED
  BY <1>2, <1>4, <1>5, <1>7, <1>8 DEF FateInv

LEMMA InitSInv == Init => SInv
<1> SUFFICES ASSUME Init PROVE SInv
  OBVIOUS
<1>1. AloneInv
  <2>1. Open = {}
    BY DEF Init, Open
  <2>2. IsFiniteSet(Open)
    BY <2>1, FS_EmptySet
  <2>3. QED
    BY <2>1, <2>2 DEF Init, AloneInv, Prepared, Opened, Loaded
<1>2. FateInv
  <2>1. \A b \in Batches : Range(lot[b]) = {}
    BY DEF Init, Range
  <2>2. \A n \in Notes : ~note[n].error
    BY DEF Init
  <2>3. docs = {}
    BY DEF Init
  <2>4. QED
    BY <2>1, <2>2, <2>3 DEF FateInv
<1>3. QED
  BY <1>1, <1>2, InitJInv DEF SInv

LEMMA StepSInv ==
  ASSUME MaxOpen = 1, SInv, [Next]_vars
  PROVE  SInv'
<1> USE DEF SInv
<1>1. JInv'
  BY StepJInv
<1>2. IInv /\ JobsInv
  BY DEF JInv
<1>3. AloneInv'
  BY <1>2, StepAloneInv
<1>4. FateInv'
  <2>1. CASE UNCHANGED tables
    BY <2>1 DEF tables, FateInv
  <2>2. QED
    BY <1>2, <2>1, RequestKeepsFates, DeliveryKeepsFates, TablesMoveAtCommit
<1>5. QED
  BY <1>1, <1>3, <1>4

\* What transactions that do not overlap have read is true when they commit.
LEMMA SerialInvariantHolds ==
  ASSUME MaxOpen = 1
  PROVE  Spec => []SInv
<1>1. SInv /\ [Next]_vars => SInv'
  BY StepSInv
<1>2. QED
  BY <1>1, InitSInv, PTL DEF Spec

-----------------------------------------------------------------------------
(* Theorems *)

\* One call after the other, a note is issued once: one delivery has its documents, it keeps
\* them and the status, and no message of an earlier failure is left on it.
THEOREM SerialNotesIssuedOnce ==
  ASSUME MaxOpen = 1
  PROVE  Spec => []IssuedOnce
<1>1. SInv => IssuedOnce
  BY DEF SInv, FateInv, IssuedOnce
<1>2. QED
  BY <1>1, SerialInvariantHolds, PTL

\* A note is in one batch at most, and where the two stand agrees.
THEOREM SerialNotesHaveOneFate ==
  ASSUME MaxOpen = 1
  PROVE  Spec => []OneFateEach
<1>1. SInv => OneFateEach
  <2>1. SUFFICES ASSUME SInv PROVE OneFateEach
    OBVIOUS
  <2>2. JobsInv /\ FateInv /\ TypeOK
    BY <2>1 DEF SInv, JInv, IInv
  <2>3. \A b \in Batches : Range(lot[b]) = [c \in Batches |-> Range(lot[c])][b]
    OBVIOUS
  <2>4. \A a, b \in Batches : a # b => Range(lot[a]) \cap Range(lot[b]) = {}
    BY <2>2 DEF FateInv
  <2>5. ASSUME NEW b \in Batches, NEW n \in Range(lot[b])
        PROVE  /\ n \in Notes
               /\ CASE batch[b] = "PENDING" -> note[n].status = "QUEUED"
                    [] batch[b] = "COMPLETED" -> note[n].status = "ISSUED"
                    [] OTHER -> note[n].status \in {"ISSUED", "FAILED"}
    <3>1. n \in Notes /\ batch[b] # "NONE"
      BY <2>2, PositionOfNote, EmptyHasNoPosition DEF JobsInv, TypeOK, TablesOK, Range
    <3>2. batch[b] \in {"PENDING", "COMPLETED", "FAILED"}
      BY <2>2, <3>1 DEF TypeOK, TablesOK, BatchStatuses
    <3>3. QED
      BY <2>2, <3>1, <3>2 DEF FateInv
  <2>6. QED
    BY <2>4, <2>5 DEF OneFateEach, Contract!OneFateEach
<1>2. QED
  BY <1>1, SerialInvariantHolds, PTL

\* A batch that is final is not processed again: it keeps its status, its jobs and its notes.
THEOREM SerialFinalBatchesAreKept ==
  ASSUME MaxOpen = 1
  PROVE  Spec => FinalBatchIsKept
<1> DEFINE Kept(b) == /\ batch'[b] = batch[b]
                      /\ job'[b] = job[b]
                      /\ \A n \in Range(lot[b]) : note'[n] = note[n]
<1>1. ASSUME SInv, [Next]_vars, NEW b \in Batches, batch[b] \in FINAL_BATCH_STATUSES
      PROVE  Kept(b)
  <2>1. IInv /\ JobsInv /\ AloneInv /\ FateInv
    BY <1>1 DEF SInv, JInv
  <2>2. batch[b] # "PENDING" /\ batch[b] # "NONE"
    BY <1>1 DEF FINAL_BATCH_STATUSES
  <2>3. ASSUME NEW n \in Range(lot[b])
        PROVE  n \in Notes /\ note[n].status \in {"ISSUED", "FAILED"}
    <3>1. n \in Notes
      BY <2>1, PositionOfNote DEF IInv, TypeOK, TablesOK
    <3>2. QED
      BY <2>1, <2>2, <3>1 DEF FateInv, IInv, TypeOK, TablesOK, BatchStatuses
  <2>4. CASE UNCHANGED tables
    BY <2>4 DEF tables
  <2>5. ASSUME NEW r \in Requests, CommitRequest(r) PROVE Kept(b)
    <3>1. batch[r] = "NONE" /\ \A n \in Range(ids[r]) : note[n].status = "DRAFT"
      BY <2>1, <2>5, RequestOutcome
    <3>2. b # r /\ \A n \in Range(lot[b]) : n \in Notes /\ n \notin Range(ids[r])
      BY <2>2, <2>3, <3>1
    <3>3. QED
      BY <2>1, <2>5, <3>2 DEF CommitRequest, IInv, TypeOK, TablesOK
  <2>6. ASSUME NEW d \in Deliveries, CommitBatch(d) PROVE Kept(b)
    <3>1. PICK c : c = task[d].batch
      OBVIOUS
    <3>2. /\ c \in Batches /\ batch[c] = "PENDING"
          /\ \A n \in Range(lot[c]) : note[n].status = "QUEUED"
          /\ \A n \in Notes : n \notin Range(lot[c]) => note'[n] = note[n]
      BY <2>1, <2>6, <3>1, BatchOutcome
    <3>3. b # c /\ \A n \in Range(lot[b]) : note'[n] = note[n]
      BY <2>2, <2>3, <3>2
    <3>4. batch'[b] = batch[b] /\ job'[b] = job[b]
      BY <2>1, <2>6, <3>1, <3>3 DEF CommitBatch, IInv, TypeOK, TablesOK
    <3>5. QED
      BY <3>3, <3>4
  <2>7. QED
    BY <2>4, <2>5, <2>6, <1>1, TablesMoveAtCommit
<1>2. SInv /\ [Next]_vars =>
        [ \A b \in Batches : batch[b] \in FINAL_BATCH_STATUSES =>
            /\ batch'[b] = batch[b]
            /\ job'[b] = job[b]
            /\ \A n \in Range(lot[b]) : note'[n] = note[n] ]_vars
  BY <1>1
<1>3. QED
  BY <1>2, SerialInvariantHolds, PTL DEF Spec, FinalBatchIsKept

\* A note has one active job at most: what two requests that overlap can break holds as soon as
\* they do not.
THEOREM SerialNotesHaveOneActiveJob ==
  ASSUME MaxOpen = 1
  PROVE  Spec => []OneActiveJobPerNote
<1>1. SInv => OneActiveJobPerNote
  <2>1. SUFFICES ASSUME SInv, NEW n \in Notes, NEW a \in Batches, NEW b \in Batches,
                        {job[a][n].status, job[b][n].status} \subseteq ACTIVE_JOB_STATUSES
                 PROVE  a = b
    BY DEF OneActiveJobPerNote
  <2>2. IInv /\ FateInv
    BY <2>1 DEF SInv, JInv
  <2>3. job[a][n].status = "PENDING" /\ job[b][n].status = "PENDING"
    <3>1. job[a][n] \in JobRow /\ job[b][n] \in JobRow
      BY <2>2 DEF IInv, TypeOK, TablesOK
    <3>2. job[a][n].status \in ACTIVE_JOB_STATUSES /\ job[b][n].status \in ACTIVE_JOB_STATUSES
      BY <2>1
    <3>3. QED
      BY <3>1, <3>2 DEF JobRow, JobStatuses, ACTIVE_JOB_STATUSES
  <2>4. n \in Range(lot[a]) /\ n \in Range(lot[b])
    BY <2>2, <2>3 DEF IInv, BatchesInv
  <2>5. QED
    BY <2>2, <2>4 DEF FateInv
<1>2. QED
  BY <1>1, SerialInvariantHolds, PTL

\* One call after the other, create_mock_batch and process_batch implement EmissionContract: a
\* request that commits queues draft notes in a new batch, a delivery that commits finalises a
\* pending one, and every other step is invisible.
THEOREM SerialEmissionImplementsContract ==
  ASSUME MaxOpen = 1
  PROVE  Spec => ImplementsContract
<1> DEFINE status == [n \in Notes |-> note[n].status]
           members == [b \in Batches |-> Range(lot[b])]
<1>1. Init => Contract!Init
  <2>1. SUFFICES ASSUME Init PROVE Contract!Init
    OBVIOUS
  <2>2. status \in [Notes -> {"ABSENT", "DRAFT"}]
    <3>1. \A n \in Notes : note[n].status \in {"ABSENT", "DRAFT"}
      BY <2>1 DEF Init
    <3>2. QED
      BY <3>1
  <2>3. members = [b \in Batches |-> {}]
    <3>1. \A b \in Batches : Range(lot[b]) = {}
      BY <2>1 DEF Init, Range
    <3>2. QED
      BY <3>1
  <2>4. batch = [b \in Batches |-> "NONE"]
    BY <2>1 DEF Init
  <2>5. QED
    BY <2>2, <2>3, <2>4 DEF Contract!Init
<1>2. ASSUME SInv, [Next]_vars
      PROVE  [Contract!Next]_(Contract!contract)
  <2>1. IInv /\ AloneInv /\ FateInv
    BY <1>2 DEF SInv, JInv
  <2>2. CASE UNCHANGED tables
    BY <2>2 DEF tables, Contract!contract
  <2>3. ASSUME NEW r \in Requests, CommitRequest(r)
        PROVE  Contract!Next
    <3>1. PICK chosen : chosen = Range(ids[r])
      OBVIOUS
    <3>2. /\ batch[r] = "NONE" /\ chosen \subseteq Notes /\ chosen # {}
          /\ \A n \in chosen : note[n].status = "DRAFT"
          /\ batch' = [batch EXCEPT ![r] = "PENDING"]
          /\ Range(lot'[r]) = chosen /\ \A b \in Batches \ {r} : lot'[b] = lot[b]
          /\ \A n \in Notes :
               note'[n].status = IF n \in chosen THEN "QUEUED" ELSE note[n].status
      BY <2>1, <2>3, <3>1, RequestOutcome
    <3>3. status' = [n \in Notes |-> IF n \in chosen THEN "QUEUED" ELSE status[n]]
      BY <3>2
    <3>4. members' = [members EXCEPT ![r] = chosen]
      BY <3>2
    <3>5. \A n \in chosen : status[n] = "DRAFT"
      BY <3>2
    <3>6. Contract!Queue(r, chosen)
      BY <3>2, <3>3, <3>4, <3>5 DEF Contract!Queue
    <3>7. QED
      BY <3>2, <3>6 DEF Contract!Next
  <2>4. ASSUME NEW d \in Deliveries, CommitBatch(d)
        PROVE  Contract!Next
    <3>1. PICK b : b = task[d].batch
      OBVIOUS
    <3>2. PICK issued : issued = IssuedBy(d)
      OBVIOUS
    <3>3. /\ b \in Batches /\ batch[b] = "PENDING" /\ Range(lot[b]) \subseteq Notes
          /\ issued \subseteq Range(lot[b])
          /\ \A n \in Range(lot[b]) : note[n].status = "QUEUED"
          /\ batch' = [batch EXCEPT ![b] = IF issued = Range(lot[b])
                                           THEN "COMPLETED" ELSE "FAILED"]
          /\ lot' = lot
          /\ \A n \in Notes :
               /\ n \in issued => note'[n].status = "ISSUED"
               /\ n \in Range(lot[b]) \ issued => note'[n].status = "FAILED"
               /\ n \notin Range(lot[b]) => note'[n] = note[n]
      BY <2>1, <2>4, <3>1, <3>2, BatchOutcome
    <3>4. members[b] = Range(lot[b]) /\ members' = members
      BY <3>3
    <3>5. \A n \in members[b] : status[n] = "QUEUED"
      BY <3>3
    <3>6. status' = [n \in Notes |-> IF n \in issued THEN "ISSUED"
                                     ELSE IF n \in members[b] THEN "FAILED" ELSE status[n]]
      <4>1. ASSUME NEW n \in Notes
            PROVE  note'[n].status = IF n \in issued THEN "ISSUED"
                                     ELSE IF n \in Range(lot[b]) THEN "FAILED" ELSE note[n].status
        BY <3>3
      <4>2. QED
        BY <3>4, <4>1
    <3>7. Contract!Finalize(b, issued)
      BY <3>3, <3>4, <3>5, <3>6 DEF Contract!Finalize
    <3>8. QED
      BY <3>3, <3>4, <3>7 DEF Contract!Next
  <2>5. QED
    BY <1>2, <2>2, <2>3, <2>4, TablesMoveAtCommit
<1>3. SInv /\ [Next]_vars => [Contract!Next]_(Contract!contract)
  BY <1>2
<1>4. QED
  BY <1>1, <1>3, SerialInvariantHolds, PTL DEF Spec, ImplementsContract, Contract!Spec

=============================================================================
