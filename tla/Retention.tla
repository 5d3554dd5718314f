------------------------------ MODULE Retention ------------------------------
(***************************************************************************)
(* Retention of stored fiscal documents: the archives of one company age   *)
(* from ACTIVE to COLD to DELETED in cycles.  The scheduler runs a cycle   *)
(* again and again and keeps a retention_jobs row for it; administrators   *)
(* run cycles through the API at any time.                                 *)
(*                                                                         *)
(* A cycle is one transaction (READ COMMITTED, no SELECT locks): it reads  *)
(* the archives to delete, updates them one by one, then reads those to    *)
(* make COLD and updates them.  Time is counted in days of a small          *)
(* calendar: years of a few days, one of which only leap years have.       *)
(***************************************************************************)
EXTENDS Integers, FiniteSets, Sequences, Functions

CONSTANTS
  Archives,      \* storage_archives rows of one company
  Scheduler,     \* the recurrent cycle of the scheduler process
  Manual,        \* calls of the API
  ColdAfter,     \* policy.cold_after_years
  DeleteAfter,   \* policy.delete_after_years
  YearLength,    \* bound: days of a year, dated from 0
  LeapDay,       \* the 29 February among them
  LeapYears,     \* the years that have it
  MaxOpen,       \* bound: cycles open at the same time
  MaxTime,       \* bound: last value of the clock
  MaxFailures    \* bound: cycles that end in an exception

ASSUME RetentionAssumption ==
  /\ IsFiniteSet(Archives)
  /\ Scheduler \notin Manual
  /\ ColdAfter \in Nat \ {0}
  /\ DeleteAfter \in Nat /\ DeleteAfter > ColdAfter
  /\ YearLength \in Nat \ {0}
  /\ LeapDay \in 1..(YearLength - 1)
  /\ MaxOpen \in Nat \ {0}
  /\ MaxTime \in Nat
  /\ MaxFailures \in Nat

Cycles == {Scheduler} \cup Manual
Roles == {"OWNER", "ADMIN", "OPERATOR", "VIEWER", "NOT_A_MEMBER"}
COMPANY_ADMIN_ROLES == {"OWNER", "ADMIN"}
ArchiveStatuses == {"NONE", "ACTIVE", "COLD", "DELETED"}
JobStatuses == {"NONE", "RUNNING", "COMPLETED"}

\* <<archive, previous status, new status>>: an update and the audit entry of it.
Entry == Archives \X {"ACTIVE", "COLD"} \X {"COLD", "DELETED"}

\* The result sets have no ORDER BY: any order of a set.
Orders(S) == {s \in [1..Cardinality(S) -> S] : IsInjective(s)}

VARIABLES
  clock,
  status,    \* of each archive, committed
  until,     \* retention_until of each archive
  audit,     \* entries of audit_logs, committed
  job,       \* status of the latest retention_jobs row
  pc,        \* where each cycle stands
  now,       \* the time a cycle took when it began
  todo,      \* entries a cycle has still to write
  staged,    \* entries a cycle has written and not committed
  failures   \* cycles that ended in an exception

rows == <<status, until, audit, job>>
vars == <<clock, status, until, audit, job, pc, now, todo, staged, failures>>

Init ==
  /\ clock = 0
  /\ status = [a \in Archives |-> "NONE"]
  /\ until = [a \in Archives |-> 0]
  /\ audit = {}
  /\ job = "NONE"
  /\ pc = [c \in Cycles |-> "idle"]
  /\ now = [c \in Cycles |-> 0]
  /\ todo = [c \in Cycles |-> <<>>]
  /\ staged = [c \in Cycles |-> {}]
  /\ failures = 0

-----------------------------------------------------------------------------
(* The calendar *)

IsDate(day) == day % YearLength = LeapDay => day \div YearLength \in LeapYears

\* Mutated: 29 February moves to 1 March.
add_years_forward(day, years) ==
  LET same == day + years * YearLength
  IN IF IsDate(same) THEN same ELSE same + 1

\* 29 February moves to the 28th, forwards and backwards alike.
add_years(day, years) ==
  LET same == day + years * YearLength
  IN IF IsDate(same) THEN same ELSE same - 1

\* delete_retention_cutoff of a cycle that began on a day.
Cutoff(day) == add_years(day, -(DeleteAfter - ColdAfter))

-----------------------------------------------------------------------------
(* The world around: time, and the documents the emission stores *)

Tick ==
  /\ clock < MaxTime
  /\ clock' = IF IsDate(clock + 1) THEN clock + 1 ELSE clock + 2
  /\ UNCHANGED <<rows, pc, now, todo, staged, failures>>

\* store_document: retention_until lies cold_after_years after the issue.
StoreArchive(a) ==
  /\ status[a] = "NONE"
  /\ status' = [status EXCEPT ![a] = "ACTIVE"]
  /\ until' = [until EXCEPT ![a] = add_years(clock, ColdAfter)]
  /\ UNCHANGED <<clock, audit, job, pc, now, todo, staged, failures>>

-----------------------------------------------------------------------------
(* The beginning and the end of a cycle *)

Open == {c \in Cycles : pc[c] \notin {"idle", "done"}}
MayOpen(c) == pc[c] = "idle" /\ Cardinality(Open) < MaxOpen

Begin(c) ==
  /\ pc' = [pc EXCEPT ![c] = "opened"]
  /\ now' = [now EXCEPT ![c] = clock]

\* max_instances=1 and sequential runs: one scheduled cycle at a time, run after run.
Close(c) ==
  /\ pc' = [pc EXCEPT ![c] = IF c = Scheduler THEN "idle" ELSE "done"]
  /\ now' = [now EXCEPT ![c] = 0]
  /\ todo' = [todo EXCEPT ![c] = <<>>]
  /\ staged' = [staged EXCEPT ![c] = {}]

\* The job row is created RUNNING and committed before the cycle looks at an archive.
StartScheduled ==
  /\ MayOpen(Scheduler)
  /\ Begin(Scheduler)
  /\ job' = "RUNNING"
  /\ UNCHANGED <<clock, status, until, audit, todo, staged, failures>>

StartManual(m) ==
  /\ MayOpen(m)
  /\ \E role \in Roles : role \in COMPANY_ADMIN_ROLES
  /\ Begin(m)
  /\ UNCHANGED <<clock, rows, todo, staged, failures>>

\* 403 or 404.
RefuseManual(m) ==
  /\ MayOpen(m)
  /\ \E role \in Roles : role \notin COMPANY_ADMIN_ROLES
  /\ Close(m)
  /\ UNCHANGED <<clock, rows, failures>>

-----------------------------------------------------------------------------
(* apply_company_retention *)

Written(c, a) == \E e \in staged[c] : e[1] = a

\* Mutated: the cutoff of COLD also serves for DELETED.
DoomedEarly(c) ==
  {<<a, status[a], "DELETED">> : a \in {x \in Archives :
     status[x] \in {"ACTIVE", "COLD"} /\ until[x] <= now[c]}}

\* Mutated: an archive in COLD is not looked at again.
DoomedActive(c) ==
  {<<a, status[a], "DELETED">> : a \in {x \in Archives :
     status[x] = "ACTIVE" /\ until[x] <= Cutoff(now[c])}}

\* Mutated: the cutoff itself is excluded.
DoomedStrictly(c) ==
  {<<a, status[a], "DELETED">> : a \in {x \in Archives :
     status[x] \in {"ACTIVE", "COLD"} /\ until[x] < Cutoff(now[c])}}

Doomed(c) ==
  {<<a, status[a], "DELETED">> : a \in {x \in Archives :
     status[x] \in {"ACTIVE", "COLD"} /\ until[x] <= Cutoff(now[c])}}

\* The autoflush makes the cycle's own deletions visible to this SELECT.
Expired(c) ==
  {<<a, "ACTIVE", "COLD">> : a \in {x \in Archives :
     status[x] = "ACTIVE" /\ until[x] <= now[c] /\ ~Written(c, x)}}

SelectForDeletion(c) ==
  /\ pc[c] = "opened"
  /\ \E list \in Orders(Doomed(c)) : todo' = [todo EXCEPT ![c] = list]
  /\ pc' = [pc EXCEPT ![c] = "deleting"]
  /\ UNCHANGED <<clock, rows, now, staged, failures>>

SelectForCold(c) ==
  /\ pc[c] = "deleting"
  /\ todo[c] = <<>>
  /\ \E list \in Orders(Expired(c)) : todo' = [todo EXCEPT ![c] = list]
  /\ pc' = [pc EXCEPT ![c] = "cooling"]
  /\ UNCHANGED <<clock, rows, now, staged, failures>>

\* Mutated: previous_status is taken for granted.
StageAsActive(c, e) == staged' = [staged EXCEPT ![c] = @ \cup {<<e[1], "ACTIVE", e[3]>>}]

Stage(c, e) == staged' = [staged EXCEPT ![c] = @ \cup {e}]

\* The UPDATE of the next archive, flushed with its audit entry: it waits for the cycle that
\* holds the row and then overwrites whatever that one committed.
WriteNext(c) ==
  /\ pc[c] \in {"deleting", "cooling"}
  /\ todo[c] # <<>>
  /\ \A k \in Cycles \ {c} : ~Written(k, Head(todo[c])[1])
  /\ Stage(c, Head(todo[c]))
  /\ todo' = [todo EXCEPT ![c] = Tail(@)]
  /\ UNCHANGED <<clock, rows, pc, now, failures>>

\* Mutated: the job takes the status an emission job would.
JobSuccess(c) == IF c = Scheduler THEN "SUCCESS" ELSE job

JobCompleted(c) == IF c = Scheduler THEN "COMPLETED" ELSE job

\* Mutated: only deletions are audited.
AuditedDeletions(c) == {e \in staged[c] : e[3] = "DELETED"}

Audited(c) == staged[c]

CommitCycle(c) ==
  /\ pc[c] = "cooling"
  /\ todo[c] = <<>>
  /\ status' = [a \in Archives |->
       IF Written(c, a) THEN (CHOOSE e \in staged[c] : e[1] = a)[3] ELSE status[a]]
  /\ audit' = audit \cup Audited(c)
  /\ job' = JobCompleted(c)
  /\ Close(c)
  /\ UNCHANGED <<clock, until, failures>>

-----------------------------------------------------------------------------
(* Failures *)

\* An exception from a statement.  The rollback expires the job object, so that the error path
\* of the scheduler fails in turn when it reads job.id and mark_failed is never reached;
\* run_retention_cycle swallows that error.  A process that dies leaves the same rows.
Rollback(c) ==
  /\ c \in Open
  /\ Close(c)
  /\ UNCHANGED <<clock, rows>>

FailCycle(c) ==
  /\ failures < MaxFailures
  /\ failures' = failures + 1
  /\ Rollback(c)

Waits(c, k) ==
  /\ k # c
  /\ todo[c] # <<>>
  /\ Written(k, Head(todo[c])[1])

Deadlocked(c) ==
  \E ring \in SUBSET Open :
    /\ c \in ring
    /\ \A u \in ring : (\E v \in ring : Waits(u, v)) /\ (\E v \in ring : Waits(v, u))

\* The deadlock detector of PostgreSQL rolls back one of the cycles.
AbortDeadlocked(c) == Deadlocked(c) /\ Rollback(c) /\ UNCHANGED failures

-----------------------------------------------------------------------------
Continue(c) == SelectForDeletion(c) \/ SelectForCold(c) \/ WriteNext(c) \/ CommitCycle(c)

Next ==
  \/ Tick
  \/ \E a \in Archives : StoreArchive(a)
  \/ StartScheduled
  \/ \E m \in Manual : StartManual(m) \/ RefuseManual(m)
  \/ \E c \in Cycles : Continue(c) \/ FailCycle(c) \/ AbortDeadlocked(c)

Spec == Init /\ [][Next]_vars

\* The scheduler fires every few minutes for ever; a cycle that is open goes on, and one that
\* waits for a row is granted it in its turn, so that its step cannot be enabled again and
\* again and never taken.  Time, storing and the API calls are driven by nobody.
FairSpec ==
  /\ Spec
  /\ WF_vars(StartScheduled)
  /\ \A c \in Cycles : SF_vars(Continue(c) \/ AbortDeadlocked(c))

-----------------------------------------------------------------------------
(* Properties *)

\* Rows and sessions hold values of their kind; a commit leaves no status the code does not
\* write, and the job of a scheduled cycle is RUNNING while the cycle is open.
TypeOK ==
  /\ clock \in Nat
  /\ status \in [Archives -> ArchiveStatuses]
  /\ until \in [Archives -> Nat]
  /\ audit \subseteq Entry
  /\ job \in JobStatuses
  /\ pc \in [Cycles -> {"idle", "opened", "deleting", "cooling", "done"}]
  /\ now \in [Cycles -> Nat]
  /\ todo \in [Cycles -> Seq(Entry)]
  /\ staged \in [Cycles -> SUBSET Entry]
  /\ failures \in Nat

\* However cycles overlap and however old the time of a cycle is, no archive is made COLD
\* before its retention_until nor DELETED before the years of the policy have passed after it:
\* the cutoff, counted back from today, is never ahead of the years counted forward.
NeverEarly ==
  \A a \in Archives :
    /\ status[a] \in {"COLD", "DELETED"} => until[a] <= clock
    /\ status[a] = "DELETED" => add_years(until[a], DeleteAfter - ColdAfter) <= clock

\* An archive is where an audit entry says a cycle put it; one without entries has not moved.
TransitionsAudited ==
  \A a \in Archives :
    IF status[a] \in {"COLD", "DELETED"}
    THEN \E e \in audit : e[1] = a /\ e[3] = status[a]
    ELSE \A e \in audit : e[1] # a

\* An archive whose time has come is DELETED in the end and for good, though a late cycle may
\* have overwritten DELETED with COLD in between.
ExpiredAreDeleted ==
  \A a \in Archives :
    (status[a] # "NONE" /\ until[a] <= Cutoff(clock))
      ~> [](status[a] = "DELETED")

\* While cycles do not overlap: the audit entries of an archive are its history, each
\* transition once and from the status the archive really had.
AuditTellsHistory ==
  \A a \in Archives :
    LET moves == {<<e[2], e[3]>> : e \in {x \in audit : x[1] = a}}
    IN CASE status[a] = "COLD" -> moves = {<<"ACTIVE", "COLD">>}
         [] status[a] = "DELETED" ->
              moves \in {{<<"ACTIVE", "DELETED">>},
                         {<<"ACTIVE", "COLD">>, <<"COLD", "DELETED">>}}
         [] OTHER -> moves = {}

\* Between two cycles of the scheduler the retention_jobs row of the last one tells its
\* outcome.
OutcomeIsRecorded == pc[Scheduler] = "idle" => job # "RUNNING"

\* While cycles do not overlap, a cycle applies the policy at one instant.
EndOfRetention(day) == add_years(day, ColdAfter)
Contract == INSTANCE RetentionContract WITH End <- EndOfRetention, Past <- Cutoff
ImplementsContract == Contract!Spec

=============================================================================
