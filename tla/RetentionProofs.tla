--------------------------- MODULE RetentionProofs ---------------------------
(***************************************************************************)
(* Proofs about Retention, for any archives, calls, policy and bounds.     *)
(***************************************************************************)
EXTENDS Retention, Waiting, FiniteSetTheorems, SequenceTheorems, TLAPS

USE RetentionAssumption DEF Cycles

Years == DeleteAfter - ColdAfter

\* What an entry of a cycle presumes: the archive exists and its time had come when the
\* cycle took the time.
Due(e, instant) ==
  /\ status[e[1]] # "NONE"
  /\ e[3] = "COLD" => until[e[1]] <= instant
  /\ e[3] = "DELETED" => add_years(until[e[1]], Years) <= instant

\* The same after a step.
DueNext(e, instant) ==
  /\ status'[e[1]] # "NONE"
  /\ e[3] = "COLD" => until'[e[1]] <= instant
  /\ e[3] = "DELETED" => add_years(until'[e[1]], Years) <= instant

\* A cycle took its time from the clock, and every entry it has planned or written was due then.
PlansInv ==
  \A c \in Cycles :
    /\ now[c] <= clock
    /\ pc[c] \in {"idle", "opened", "done"} => todo[c] = <<>> /\ staged[c] = {}
    /\ \A i \in DOMAIN todo[c] : Due(todo[c][i], now[c])
    /\ \A e \in staged[c] : Due(e, now[c])

IInv == TypeOK /\ PlansInv /\ NeverEarly

-----------------------------------------------------------------------------
(* The calendar *)

\* A shift by years lands on the same day of the year, or on the one before.
LEMMA AddYears ==
  ASSUME NEW day \in Int, NEW years \in Int
  PROVE  /\ add_years(day, years) \in Int
         /\ add_years(day, years) <= day + years * YearLength
         /\ day + years * YearLength - 1 <= add_years(day, years)
<1> DEFINE same == day + years * YearLength
<1>1. same \in Int
  OBVIOUS
<1>2. add_years(day, years) \in {same, same - 1}
  BY DEF add_years
<1> HIDE DEF same
<1>3. /\ add_years(day, years) \in Int
      /\ add_years(day, years) <= same
      /\ same - 1 <= add_years(day, years)
  BY <1>1, <1>2
<1>4. QED
  BY <1>3 DEF same

\* A shift forwards by at least a year is a day of the calendar, and never an earlier one.
LEMMA AddYearsForward ==
  ASSUME NEW day \in Nat, NEW years \in Nat \ {0}
  PROVE  add_years(day, years) \in Nat /\ day <= add_years(day, years)
<1> DEFINE span == years * YearLength
<1>1. span \in Nat /\ span >= 1
  OBVIOUS
<1>2. add_years(day, years) \in Int /\ day + span - 1 <= add_years(day, years)
  BY AddYears
<1> HIDE DEF span
<1>3. QED
  BY <1>1, <1>2

\* For every calendar and every policy: what lies at or before the cutoff of add_years backwards
\* has had its years counted forwards, whichever of the two ends falls on 29 February.
THEOREM CutoffIsNeverAhead ==
  ASSUME NEW end \in Int, NEW day \in Int, end <= Cutoff(day)
  PROVE  add_years(end, DeleteAfter - ColdAfter) <= day
<1> DEFINE years == DeleteAfter - ColdAfter
           span == years * YearLength
<1>0. years \in Int /\ -years \in Int
  OBVIOUS
<1>1. span \in Int /\ (-years) * YearLength = -span
  <2> HIDE DEF years
  <2>1. QED
    BY <1>0
<1>2. /\ add_years(day, -years) \in Int
      /\ add_years(day, -years) <= day + (-years) * YearLength
  <2> HIDE DEF years
  <2>1. QED
    BY <1>0, AddYears
<1>3. /\ add_years(end, years) \in Int
      /\ add_years(end, years) <= end + span
  <2> HIDE DEF years
  <2>1. QED
    BY <1>0, AddYears
<1>4. end <= add_years(day, -years)
  BY DEF Cutoff
<1>5. add_years(end, years) <= day
  <2> HIDE DEF span, years
  <2>1. QED
    BY <1>1, <1>2, <1>3, <1>4
<1>6. QED
  BY <1>5

-----------------------------------------------------------------------------
(* Facts about entries and the orders of a set of them *)

\* A set of entries with one entry for an archive is finite: an order of it is a sequence.
LEMMA OrderIsSequence ==
  ASSUME NEW S \in SUBSET Entry, \A d, e \in S : d[1] = e[1] => d = e,
         NEW s \in Orders(S)
  PROVE  s \in Seq(Entry) /\ \A i \in DOMAIN s : s[i] \in S
<1> DEFINE first == [e \in S |-> e[1]]
<1>1. first \in Injection(S, Archives)
  BY DEF Injection, IsInjective, Entry
<1>2. IsFiniteSet(S)
  BY <1>1, FS_Injection
<1>3. Cardinality(S) \in Nat
  BY <1>2, FS_CardinalityType
<1>4. s \in [1..Cardinality(S) -> S]
  BY DEF Orders
<1>5. QED
  BY <1>3, <1>4

\* The archives to delete and those to make COLD are such sets, and all are due.
LEMMA SelectionsAreDue ==
  ASSUME TypeOK, NEW c \in Cycles
  PROVE  \A S \in {Doomed(c), Expired(c)} :
           /\ S \in SUBSET Entry
           /\ \A d, e \in S : d[1] = e[1] => d = e
           /\ \A e \in S : Due(e, now[c])
<1>0. /\ now[c] \in Nat
      /\ \A a \in Archives : until[a] \in Nat
  BY DEF TypeOK
<1>1. /\ Doomed(c) \in SUBSET Entry
      /\ \A d, e \in Doomed(c) : d[1] = e[1] => d = e
  BY DEF Doomed, Entry
<1>2. /\ Expired(c) \in SUBSET Entry
      /\ \A d, e \in Expired(c) : d[1] = e[1] => d = e
  BY DEF Expired, Entry
<1>3. \A e \in Doomed(c) : Due(e, now[c])
  <2>1. \A a \in Archives : until[a] <= Cutoff(now[c]) => add_years(until[a], Years) <= now[c]
    BY <1>0, CutoffIsNeverAhead DEF Years
  <2>2. QED
    BY <1>0, <2>1 DEF Doomed, Due
<1>4. \A e \in Expired(c) : Due(e, now[c])
  BY <1>0 DEF Expired, Due
<1>5. QED
  BY <1>1, <1>2, <1>3, <1>4

\* What a cycle commits for an archive is an entry it has written.
LEMMA CommittedEntry ==
  ASSUME TypeOK, NEW c \in Cycles, CommitCycle(c), NEW a \in Archives
  PROVE  \/ status'[a] = status[a] /\ ~Written(c, a)
         \/ \E e \in staged[c] : e \in Entry /\ e[1] = a /\ status'[a] = e[3]
<1>1. staged[c] \in SUBSET Entry
  BY DEF TypeOK
<1>2. CASE ~Written(c, a)
  BY <1>2 DEF CommitCycle
<1>3. CASE Written(c, a)
  <2> DEFINE e == CHOOSE x \in staged[c] : x[1] = a
  <2>1. e \in staged[c] /\ e[1] = a
    BY <1>3 DEF Written
  <2>2. status'[a] = e[3]
    BY <1>3 DEF CommitCycle
  <2>3. QED
    BY <1>1, <2>1, <2>2
<1>4. QED
  BY <1>2, <1>3

-----------------------------------------------------------------------------
(* Type correctness *)

\* The end of a cycle leaves the sessions well typed.
LEMMA CloseTyped ==
  ASSUME TypeOK, NEW c \in Cycles, Close(c)
  PROVE  /\ pc' \in [Cycles -> {"idle", "opened", "deleting", "cooling", "done"}]
         /\ now' \in [Cycles -> Nat]
         /\ todo' \in [Cycles -> Seq(Entry)]
         /\ staged' \in [Cycles -> SUBSET Entry]
BY EmptySeq DEF Close, TypeOK

\* Every step leaves rows and sessions well typed.
LEMMA StepTypeOK ==
  ASSUME TypeOK, [Next]_vars
  PROVE  TypeOK'
<1>1. CASE Tick
  BY <1>1 DEF Tick, rows, TypeOK
<1>2. ASSUME NEW a \in Archives, StoreArchive(a)
      PROVE  TypeOK'
  <2>1. add_years(clock, ColdAfter) \in Nat
    BY AddYearsForward DEF TypeOK
  <2>2. QED
    BY <1>2, <2>1 DEF StoreArchive, TypeOK, ArchiveStatuses
<1>3. CASE StartScheduled
  BY <1>3 DEF StartScheduled, Begin, TypeOK, JobStatuses
<1>4. ASSUME NEW m \in Manual, StartManual(m)
      PROVE  TypeOK'
  BY <1>4 DEF StartManual, Begin, rows, TypeOK
<1>5. ASSUME NEW m \in Manual, RefuseManual(m)
      PROVE  TypeOK'
  BY <1>5, CloseTyped DEF RefuseManual, rows, TypeOK
<1>6. ASSUME NEW c \in Cycles, SelectForDeletion(c) \/ SelectForCold(c)
      PROVE  TypeOK'
  <2>1. PICK S \in {Doomed(c), Expired(c)} :
          \E list \in Orders(S) : todo' = [todo EXCEPT ![c] = list]
    BY <1>6 DEF SelectForDeletion, SelectForCold
  <2>2. PICK list \in Orders(S) : todo' = [todo EXCEPT ![c] = list]
    BY <2>1
  <2>3. list \in Seq(Entry)
    BY SelectionsAreDue, OrderIsSequence
  <2>4. QED
    <3>1. pc' \in [Cycles -> {"idle", "opened", "deleting", "cooling", "done"}]
      BY <1>6 DEF SelectForDeletion, SelectForCold, TypeOK
    <3>2. UNCHANGED <<clock, rows, now, staged, failures>>
      BY <1>6 DEF SelectForDeletion, SelectForCold
    <3>3. QED
      BY <2>2, <2>3, <3>1, <3>2 DEF rows, TypeOK
<1>7. ASSUME NEW c \in Cycles, WriteNext(c)
      PROVE  TypeOK'
  <2>1. todo[c] \in Seq(Entry) /\ todo[c] # <<>>
    BY <1>7 DEF WriteNext, TypeOK
  <2>2. Head(todo[c]) \in Entry /\ Tail(todo[c]) \in Seq(Entry)
    BY <2>1, HeadTailProperties
  <2>3. QED
    BY <1>7, <2>2 DEF WriteNext, Stage, rows, TypeOK
<1>8. ASSUME NEW c \in Cycles, CommitCycle(c)
      PROVE  TypeOK'
  <2>1. status' \in [Archives -> ArchiveStatuses]
    <3>1. \A a \in Archives : status'[a] \in ArchiveStatuses
      BY <1>8, CommittedEntry DEF TypeOK, Entry, ArchiveStatuses
    <3>2. QED
      BY <1>8, <3>1 DEF CommitCycle
  <2>2. audit' \subseteq Entry
    BY <1>8 DEF CommitCycle, Audited, TypeOK
  <2>3. job' \in JobStatuses
    BY <1>8 DEF CommitCycle, JobCompleted, TypeOK, JobStatuses
  <2>4. QED
    BY <1>8, <2>1, <2>2, <2>3, CloseTyped DEF CommitCycle, TypeOK
<1>9. ASSUME NEW c \in Cycles, FailCycle(c) \/ AbortDeadlocked(c)
      PROVE  TypeOK'
  <2>1. Close(c) /\ UNCHANGED <<clock, rows>>
    BY <1>9 DEF FailCycle, AbortDeadlocked, Rollback
  <2>2. failures' \in Nat
    BY <1>9 DEF FailCycle, AbortDeadlocked, TypeOK
  <2>3. QED
    BY <2>1, <2>2, CloseTyped DEF rows, TypeOK
<1>10. CASE UNCHANGED vars
  BY <1>10 DEF vars, TypeOK
<1>11. QED
  BY <1>1, <1>2, <1>3, <1>4, <1>5, <1>6, <1>7, <1>8, <1>9, <1>10 DEF Next, Continue

-----------------------------------------------------------------------------
(* The plans of the cycles *)

\* An entry that is due stays so: archives neither vanish nor get another date.
LEMMA DueStays ==
  ASSUME TypeOK, [Next]_vars, NEW e \in Entry, NEW instant, Due(e, instant)
  PROVE  DueNext(e, instant)
<1>1. e[1] \in Archives
  BY DEF Entry
<1>2. ASSUME NEW a \in Archives, StoreArchive(a)
      PROVE  status'[e[1]] = status[e[1]] /\ until'[e[1]] = until[e[1]]
  BY <1>1, <1>2 DEF StoreArchive, Due, TypeOK
<1>3. ASSUME NEW c \in Cycles, CommitCycle(c)
      PROVE  status'[e[1]] # "NONE" /\ until' = until
  BY <1>1, <1>3, CommittedEntry DEF CommitCycle, Due, Entry
<1>4. ASSUME UNCHANGED <<status, until>>
      PROVE  DueNext(e, instant)
  BY <1>4 DEF Due, DueNext
<1>5. \/ UNCHANGED <<status, until>>
      \/ \E a \in Archives : StoreArchive(a)
      \/ \E c \in Cycles : CommitCycle(c)
  BY DEF Next, vars, rows, Tick, StartScheduled, StartManual, RefuseManual, Continue,
         SelectForDeletion, SelectForCold, WriteNext, FailCycle, AbortDeadlocked, Rollback
<1>6. QED
  BY <1>2, <1>3, <1>4, <1>5 DEF Due, DueNext

\* Every step keeps the plans of the cycles.
LEMMA StepPlansInv ==
  ASSUME TypeOK, PlansInv, [Next]_vars
  PROVE  PlansInv'
<1> SUFFICES ASSUME NEW k \in Cycles
             PROVE  /\ now'[k] <= clock'
                    /\ pc'[k] \in {"idle", "opened", "done"} => todo'[k] = <<>> /\ staged'[k] = {}
                    /\ \A i \in DOMAIN todo'[k] : DueNext(todo'[k][i], now'[k])
                    /\ \A e \in staged'[k] : DueNext(e, now'[k])
  BY DEF PlansInv, Due, DueNext
<1> DEFINE Goal == /\ now'[k] <= clock'
                   /\ pc'[k] \in {"idle", "opened", "done"} => todo'[k] = <<>> /\ staged'[k] = {}
                   /\ \A i \in DOMAIN todo'[k] : DueNext(todo'[k][i], now'[k])
                   /\ \A e \in staged'[k] : DueNext(e, now'[k])
<1>0. /\ todo[k] \in Seq(Entry) /\ staged[k] \in SUBSET Entry
      /\ now[k] \in Nat /\ clock \in Nat
      /\ \A i \in DOMAIN todo[k] : todo[k][i] \in Entry
  BY DEF TypeOK
<1>1. ASSUME now'[k] = now[k], pc'[k] = pc[k], todo'[k] = todo[k], staged'[k] = staged[k]
      PROVE  Goal
  <2>1. clock <= clock'
    BY <1>0 DEF Next, vars, Tick, StoreArchive, StartScheduled, StartManual, RefuseManual, Continue,
           SelectForDeletion, SelectForCold, WriteNext, CommitCycle, FailCycle, AbortDeadlocked,
           Rollback
  <2>2. clock' \in Nat
    BY StepTypeOK DEF TypeOK
  <2>3. \A e \in Entry : Due(e, now[k]) => DueNext(e, now'[k])
    BY <1>1, DueStays
  <2>4. QED
    BY <1>0, <1>1, <2>1, <2>2, <2>3 DEF PlansInv
<1>2. ASSUME now'[k] = 0, todo'[k] = <<>>, staged'[k] = {}
      PROVE  Goal
  <2>1. clock' \in Nat
    BY StepTypeOK DEF TypeOK
  <2>2. DOMAIN todo'[k] = {}
    BY <1>2
  <2>3. QED
    BY <1>2, <2>1, <2>2
<1>3. ASSUME NEW c \in Cycles, Close(c)
      PROVE  Goal
  <2>1. CASE c = k
    BY <1>2, <1>3, <2>1 DEF Close, TypeOK
  <2>2. CASE c # k
    BY <1>1, <1>3, <2>2 DEF Close, TypeOK
  <2>3. QED
    BY <2>1, <2>2
<1>4. ASSUME NEW c \in Cycles, Begin(c), pc[c] = "idle", UNCHANGED <<clock, todo, staged>>
      PROVE  Goal
  <2>1. CASE c = k
    <3>1. todo'[k] = <<>> /\ staged'[k] = {} /\ now'[k] = clock'
      BY <1>4, <2>1 DEF Begin, PlansInv, TypeOK
    <3>2. DOMAIN todo'[k] = {}
      BY <3>1
    <3>3. QED
      BY <1>0, <1>4, <3>1, <3>2
  <2>2. CASE c # k
    BY <1>1, <1>4, <2>2 DEF Begin, TypeOK
  <2>3. QED
    BY <2>1, <2>2
<1>5. ASSUME NEW c \in Cycles, SelectForDeletion(c) \/ SelectForCold(c)
      PROVE  Goal
  <2>1. CASE c = k
    <3>0. PICK S \in {Doomed(k), Expired(k)} :
            \E list \in Orders(S) : todo' = [todo EXCEPT ![k] = list]
      BY <1>5, <2>1 DEF SelectForDeletion, SelectForCold
    <3>1. PICK list \in Orders(S) : todo' = [todo EXCEPT ![k] = list]
      BY <3>0
    <3>2. /\ UNCHANGED <<clock, now, staged>>
          /\ pc'[k] \in {"deleting", "cooling"}
          /\ todo'[k] = list
      BY <1>5, <2>1, <3>1 DEF SelectForDeletion, SelectForCold, TypeOK
    <3>3. \A i \in DOMAIN list : list[i] \in Entry /\ Due(list[i], now[k])
      BY SelectionsAreDue, OrderIsSequence
    <3>4. \A e \in Entry : Due(e, now[k]) => DueNext(e, now'[k])
      BY <3>2, DueStays
    <3>5. QED
      BY <1>0, <3>2, <3>3, <3>4 DEF PlansInv
  <2>2. CASE c # k
    BY <1>1, <1>5, <2>2 DEF SelectForDeletion, SelectForCold, TypeOK
  <2>3. QED
    BY <2>1, <2>2
<1>6. ASSUME NEW c \in Cycles, WriteNext(c)
      PROVE  Goal
  <2>1. CASE c = k
    <3>1. /\ UNCHANGED <<clock, now, pc>>
          /\ pc[k] \in {"deleting", "cooling"}
          /\ todo[k] # <<>>
          /\ todo'[k] = Tail(todo[k])
          /\ staged'[k] = staged[k] \cup {Head(todo[k])}
      BY <1>6, <2>1 DEF WriteNext, Stage, TypeOK
    <3>2. /\ Head(todo[k]) \in Entry /\ Head(todo[k]) = todo[k][1]
          /\ 1 \in DOMAIN todo[k]
      BY <1>0, <3>1
    <3>3. \A i \in DOMAIN Tail(todo[k]) :
            i + 1 \in DOMAIN todo[k] /\ Tail(todo[k])[i] = todo[k][i + 1]
      BY <1>0, <3>1
    <3>4. \A e \in Entry : Due(e, now[k]) => DueNext(e, now'[k])
      BY <3>1, DueStays
    <3>5. \A i \in DOMAIN todo'[k] : DueNext(todo'[k][i], now'[k])
      BY <1>0, <3>1, <3>3, <3>4 DEF PlansInv
    <3>6. \A e \in staged'[k] : DueNext(e, now'[k])
      BY <1>0, <3>1, <3>2, <3>4 DEF PlansInv
    <3>7. QED
      BY <3>1, <3>5, <3>6 DEF PlansInv
  <2>2. CASE c # k
    BY <1>1, <1>6, <2>2 DEF WriteNext, Stage, TypeOK
  <2>3. QED
    BY <2>1, <2>2
<1>7. CASE UNCHANGED <<now, pc, todo, staged>>
  BY <1>1, <1>7
<1>8. QED
  BY <1>3, <1>4, <1>5, <1>6, <1>7
  DEF Next, vars, rows, Tick, StoreArchive, StartScheduled, StartManual, RefuseManual, MayOpen,
      Continue, CommitCycle, FailCycle, AbortDeadlocked, Rollback

-----------------------------------------------------------------------------
(* Theorems *)

\* No step makes an archive COLD or DELETED before its time.
LEMMA StepNeverEarly ==
  ASSUME IInv, [Next]_vars
  PROVE  NeverEarly'
<1> USE DEF IInv
<1> SUFFICES ASSUME NEW a \in Archives
             PROVE  /\ status'[a] \in {"COLD", "DELETED"} => until'[a] <= clock'
                    /\ status'[a] = "DELETED" => add_years(until'[a], Years) <= clock'
  BY DEF NeverEarly, Years
<1>0. until[a] \in Nat /\ clock \in Nat /\ add_years(until[a], Years) \in Int
  BY AddYears DEF TypeOK, Years
<1>1. /\ status[a] \in {"COLD", "DELETED"} => until[a] <= clock
      /\ status[a] = "DELETED" => add_years(until[a], Years) <= clock
  BY DEF NeverEarly, Years
<1>2. CASE Tick
  BY <1>0, <1>1, <1>2 DEF Tick, rows
<1>3. ASSUME NEW b \in Archives, StoreArchive(b)
      PROVE  /\ status'[a] \in {"COLD", "DELETED"} => until'[a] <= clock'
             /\ status'[a] = "DELETED" => add_years(until'[a], Years) <= clock'
  <2>1. CASE a = b
    BY <1>3, <2>1 DEF StoreArchive, TypeOK
  <2>2. CASE a # b
    <3>1. status'[a] = status[a] /\ until'[a] = until[a] /\ clock' = clock
      BY <1>3, <2>2 DEF StoreArchive, TypeOK
    <3>2. QED
      BY <1>1, <3>1
  <2>3. QED
    BY <2>1, <2>2
<1>4. ASSUME NEW c \in Cycles, CommitCycle(c)
      PROVE  /\ status'[a] \in {"COLD", "DELETED"} => until'[a] <= clock'
             /\ status'[a] = "DELETED" => add_years(until'[a], Years) <= clock'
  <2>1. UNCHANGED <<until, clock>>
    BY <1>4 DEF CommitCycle
  <2>2. CASE status'[a] = status[a]
    BY <1>1, <2>1, <2>2
  <2>3. ASSUME NEW e \in staged[c], e \in Entry, e[1] = a, status'[a] = e[3]
        PROVE  /\ status'[a] \in {"COLD", "DELETED"} => until'[a] <= clock'
               /\ status'[a] = "DELETED" => add_years(until'[a], Years) <= clock'
    <3>1. Due(e, now[c]) /\ now[c] <= clock /\ now[c] \in Nat
      BY DEF PlansInv, TypeOK
    <3>2. until[a] <= add_years(until[a], Years)
      BY <1>0, AddYearsForward DEF Years
    <3>3. status'[a] = "COLD" => until[a] <= now[c]
      BY <2>3, <3>1 DEF Due
    <3>4. status'[a] = "DELETED" => add_years(until[a], Years) <= now[c]
      BY <2>3, <3>1 DEF Due
    <3>5. QED
      BY <1>0, <2>1, <3>1, <3>2, <3>3, <3>4
  <2>4. \/ status'[a] = status[a]
        \/ \E e \in staged[c] : e \in Entry /\ e[1] = a /\ status'[a] = e[3]
    BY <1>4, CommittedEntry
  <2>5. QED
    BY <2>2, <2>3, <2>4
<1>5. CASE UNCHANGED <<status, until, clock>>
  BY <1>1, <1>5
<1>6. QED
  BY <1>2, <1>3, <1>4, <1>5
  DEF Next, vars, rows, StartScheduled, StartManual, RefuseManual, Continue, SelectForDeletion,
      SelectForCold, WriteNext, FailCycle, AbortDeadlocked, Rollback

\* The invariant of the cycles holds in every reachable state.
LEMMA InvariantHolds == Spec => []IInv
<1>1. Init => IInv
  <2> SUFFICES ASSUME Init PROVE IInv
    OBVIOUS
  <2>1. TypeOK
    BY EmptySeq DEF Init, TypeOK, ArchiveStatuses, JobStatuses
  <2>2. PlansInv
    BY DEF Init, PlansInv
  <2>3. NeverEarly
    BY DEF Init, NeverEarly
  <2>4. QED
    BY <2>1, <2>2, <2>3 DEF IInv
<1>2. IInv /\ [Next]_vars => IInv'
  BY StepTypeOK, StepPlansInv, StepNeverEarly DEF IInv
<1>3. QED
  BY <1>1, <1>2, PTL DEF Spec

\* Rows and sessions are well typed, whatever cycles, failures and deadlocks overlap.
THEOREM RetentionTypeCorrect == Spec => []TypeOK
<1>1. IInv => TypeOK
  BY DEF IInv
<1>2. QED
  BY <1>1, InvariantHolds, PTL

\* No archive ages before its time: a cycle that took its time long ago, or that overwrites what
\* another one committed meanwhile, still only writes what was due at its own time.
THEOREM NothingAgesEarly == Spec => []NeverEarly
<1>1. IInv => NeverEarly
  BY DEF IInv
<1>2. QED
  BY <1>1, InvariantHolds, PTL

\* Every COLD or DELETED status has the audit entry of a cycle that wrote it, and an archive
\* without entries has never moved: apply_company_retention commits both together.
THEOREM EveryTransitionAudited == Spec => []TransitionsAudited
<1>1. Init => TransitionsAudited
  BY DEF Init, TransitionsAudited
<1>2. ASSUME TypeOK, TransitionsAudited, [Next]_vars
      PROVE  TransitionsAudited'
  <2>1. ASSUME NEW b \in Archives, StoreArchive(b)
        PROVE  TransitionsAudited'
    BY <1>2, <2>1 DEF StoreArchive, TransitionsAudited, TypeOK
  <2>2. ASSUME NEW c \in Cycles, CommitCycle(c)
        PROVE  TransitionsAudited'
    <3> SUFFICES ASSUME NEW a \in Archives
                 PROVE  IF status'[a] \in {"COLD", "DELETED"}
                        THEN \E e \in audit' : e[1] = a /\ e[3] = status'[a]
                        ELSE \A e \in audit' : e[1] # a
      BY DEF TransitionsAudited
    <3>1. audit' = audit \cup staged[c]
      BY <2>2 DEF CommitCycle, Audited
    <3>2. CASE status'[a] = status[a] /\ ~Written(c, a)
      BY <1>2, <3>1, <3>2 DEF TransitionsAudited, Written
    <3>3. CASE \E e \in staged[c] : e \in Entry /\ e[1] = a /\ status'[a] = e[3]
      <4>1. PICK e \in staged[c] : e \in Entry /\ e[1] = a /\ status'[a] = e[3]
        BY <3>3
      <4>2. e[3] \in {"COLD", "DELETED"}
        BY <4>1 DEF Entry
      <4>3. QED
        BY <3>1, <4>1, <4>2
    <3>4. QED
      BY <1>2, <2>2, <3>2, <3>3, CommittedEntry
  <2>3. CASE UNCHANGED <<status, audit>>
    BY <1>2, <2>3 DEF TransitionsAudited
  <2>4. QED
    BY <1>2, <2>1, <2>2, <2>3
    DEF Next, vars, rows, Tick, StartScheduled, StartManual, RefuseManual, Continue,
        SelectForDeletion, SelectForCold, WriteNext, FailCycle, AbortDeadlocked, Rollback
<1>3. IInv => TypeOK
  BY DEF IInv
<1>4. QED
  BY <1>1, <1>2, <1>3, InvariantHolds, PTL DEF Spec

-----------------------------------------------------------------------------
(* Waiting for rows *)

\* A step opens one cycle when there may be one more, or none.
LEMMA OpenMoves ==
  ASSUME TypeOK, [Next]_vars
  PROVE  \/ Open' \in SUBSET Open
         \/ \E c \in Cycles : MayOpen(c) /\ Open' \in SUBSET (Open \cup {c})
<1> DEFINE Moves == \/ Open' \in SUBSET Open
                    \/ \E c \in Cycles : MayOpen(c) /\ Open' \in SUBSET (Open \cup {c})
<1> USE DEF TypeOK
<1>1. ASSUME NEW c \in Cycles, Close(c)
      PROVE  Moves
  BY <1>1 DEF Close, Open
<1>2. ASSUME NEW c \in Cycles, MayOpen(c), Begin(c)
      PROVE  Moves
  <2>1. Open' \in SUBSET (Open \cup {c})
    BY <1>2 DEF Begin, Open
  <2>2. QED
    BY <1>2, <2>1
<1>3. ASSUME NEW c \in Cycles, SelectForDeletion(c) \/ SelectForCold(c)
      PROVE  Moves
  BY <1>3 DEF SelectForDeletion, SelectForCold, Open
<1>4. CASE UNCHANGED pc
  BY <1>4 DEF Open
<1>5. QED
  BY <1>1, <1>2, <1>3, <1>4
  DEF Next, vars, Tick, StoreArchive, StartScheduled, StartManual, RefuseManual, Continue,
      WriteNext, CommitCycle, FailCycle, AbortDeadlocked, Rollback

\* The open cycles can be counted.
LEMMA OpenIsFinite == Spec => [](IInv /\ IsFiniteSet(Open))
<1>1. Init => IsFiniteSet(Open)
  <2> SUFFICES ASSUME Init PROVE IsFiniteSet(Open)
    OBVIOUS
  <2>1. Open = {}
    BY DEF Init, Open
  <2>2. QED
    BY <2>1, FS_EmptySet
<1>2. ASSUME IInv, IsFiniteSet(Open), [Next]_vars PROVE IsFiniteSet(Open)'
  <2>1. ASSUME NEW S, Open' \in SUBSET S, IsFiniteSet(S) PROVE IsFiniteSet(Open')
    BY <2>1, FS_Subset
  <2>2. \A c \in Cycles : IsFiniteSet(Open \cup {c})
    BY <1>2, FS_Singleton, FS_Union
  <2>3. QED
    BY <1>2, <2>1, <2>2, OpenMoves DEF IInv
<1>3. QED
  BY <1>1, <1>2, InvariantHolds, PTL DEF Spec

\* Among open cycles that wait for no other open one, one waits for no cycle at all or is on a
\* ring that the detector breaks.
EveryWaitCanEnd ==
  \A group \in (SUBSET Open) \ {{}} :
    (\A c \in group, k \in Open : Waits(c, k) => k \in group) =>
      \E c \in group : Deadlocked(c) \/ \A k \in Cycles : ~Waits(c, k)

\* Every wait for an archive row can end: rows are held by open cycles only, since a cycle that
\* ends in whatever way leaves nothing staged, and cycles that all wait for one another hold a ring.
THEOREM NoWaitForever == Spec => []EveryWaitCanEnd
<1>1. ASSUME IInv, IsFiniteSet(Open) PROVE EveryWaitCanEnd
  <2> DEFINE Free(c) == \A k \in Cycles : ~Waits(c, k)
             Wait == {w \in Open \X Open : Waits(w[1], w[2])}
  <2>1. ASSUME NEW c \in Cycles, ~Free(c) PROVE \E k \in Open : Waits(c, k)
    BY <1>1, <2>1 DEF Waits, Written, IInv, PlansInv, Open
  <2> HIDE DEF Free
  <2> SUFFICES ASSUME NEW group \in SUBSET Open, group # {},
                      \A c \in group, k \in Open : Waits(c, k) => k \in group,
                      \A c \in group : ~Free(c)
               PROVE  \E c \in group : Deadlocked(c)
    BY DEF EveryWaitCanEnd, Free
  <2>2. IsFiniteSet(group)
    BY <1>1, FS_Subset
  <2>3. Blocked(group, Wait)
    BY <2>1 DEF Blocked, Open
  <2>4. PICK ring \in SUBSET group : ring # {} /\ Ring(ring, Wait)
    BY <2>2, <2>3, BlockedHasRing
  <2>5. ring \in SUBSET Open
           /\ \A u \in ring : (\E v \in ring : Waits(u, v)) /\ (\E v \in ring : Waits(v, u))
    BY <2>4 DEF Ring
  <2>6. \A c \in ring : Deadlocked(c)
    BY <2>5 DEF Deadlocked
  <2>7. QED
    BY <2>4, <2>6
<1>2. QED
  BY <1>1, OpenIsFinite, PTL

-----------------------------------------------------------------------------
(* Cycles are finite *)

\* The parts a cycle has still before it.
PartsLeft(c) ==
  CASE pc[c] = "opened" -> 3
    [] pc[c] = "deleting" -> 2
    [] pc[c] = "cooling" -> 1
    [] OTHER -> 0

\* A cycle nears its end: it has a part less, or an entry less of the part it is in.
Nears(c) ==
  \/ PartsLeft(c)' < PartsLeft(c)
  \/ PartsLeft(c)' = PartsLeft(c) /\ Len(todo'[c]) < Len(todo[c])

\* Every step of an open cycle brings it nearer to its end, and no step of another one, no
\* document stored and no passing of time takes it further away.
EveryStepCounts ==
  [][ \A c \in Open :
        /\ Continue(c) => Nears(c)
        /\ Nears(c) \/ UNCHANGED <<pc[c], todo[c]>> ]_vars

\* A cycle takes finitely many steps: what apply_company_retention has selected it does not
\* select again.  With NoWaitForever it is why an open cycle ends under fair scheduling.
THEOREM CyclesAreFinite == Spec => EveryStepCounts
<1>1. ASSUME TypeOK, NEW c \in Open, Close(c) PROVE Nears(c)
  <2>1. pc'[c] \in {"idle", "done"} /\ pc[c] \in {"opened", "deleting", "cooling"}
    BY <1>1 DEF Close, Open, TypeOK
  <2>2. PartsLeft(c)' = 0 /\ PartsLeft(c) \in {1, 2, 3}
    BY <2>1 DEF PartsLeft
  <2>3. QED
    BY <2>2 DEF Nears
<1>2. ASSUME TypeOK, NEW c \in Open, Continue(c) PROVE Nears(c)
  <2>1. CASE SelectForDeletion(c) \/ SelectForCold(c)
    <3>1. \/ pc[c] = "opened" /\ pc'[c] = "deleting"
          \/ pc[c] = "deleting" /\ pc'[c] = "cooling"
      BY <1>2, <2>1 DEF SelectForDeletion, SelectForCold, Open, TypeOK
    <3>2. QED
      BY <3>1 DEF Nears, PartsLeft
  <2>2. CASE WriteNext(c)
    <3>1. /\ pc'[c] = pc[c] /\ todo'[c] = Tail(todo[c])
          /\ todo[c] \in Seq(Entry) /\ todo[c] # <<>>
      BY <1>2, <2>2 DEF WriteNext, Open, TypeOK
    <3>2. PartsLeft(c)' = PartsLeft(c)
      BY <3>1 DEF PartsLeft
    <3>3. Len(todo'[c]) < Len(todo[c])
      BY <3>1
    <3>4. QED
      BY <3>2, <3>3 DEF Nears
  <2>3. CASE CommitCycle(c)
    BY <1>1, <1>2, <2>3 DEF CommitCycle
  <2>4. QED
    BY <1>2, <2>1, <2>2, <2>3 DEF Continue
<1>3. ASSUME TypeOK, [Next]_vars, NEW c \in Open
      PROVE  Nears(c) \/ UNCHANGED <<pc[c], todo[c]>>
  <2> DEFINE Stays == UNCHANGED <<pc[c], todo[c]>>
  <2>1. ASSUME NEW k \in Cycles, Close(k) PROVE Nears(c) \/ Stays
    <3>1. CASE k = c
      BY <1>1, <1>3, <2>1, <3>1
    <3>2. CASE k # c
      BY <1>3, <2>1, <3>2 DEF Close, Open, TypeOK
    <3>3. QED
      BY <3>1, <3>2
  <2>2. ASSUME NEW k \in Cycles, MayOpen(k), Begin(k), UNCHANGED todo PROVE Stays
    BY <1>3, <2>2 DEF MayOpen, Begin, Open, TypeOK
  <2>3. ASSUME NEW k \in Cycles, k # c, SelectForDeletion(k) \/ SelectForCold(k) \/ WriteNext(k)
        PROVE  Stays
    BY <1>3, <2>3 DEF SelectForDeletion, SelectForCold, WriteNext, Open, TypeOK
  <2>4. CASE UNCHANGED <<pc, todo>>
    BY <2>4
  <2>5. QED
    BY <1>2, <1>3, <2>1, <2>2, <2>3, <2>4
    DEF Next, vars, Tick, StoreArchive, StartScheduled, StartManual, RefuseManual, Continue,
        CommitCycle, FailCycle, AbortDeadlocked, Rollback
<1>4. ASSUME TypeOK, [Next]_vars
      PROVE  \A c \in Open :
               /\ Continue(c) => Nears(c)
               /\ Nears(c) \/ UNCHANGED <<pc[c], todo[c]>>
  BY <1>2, <1>3, <1>4
<1>5. QED
  BY <1>4, RetentionTypeCorrect, PTL DEF Spec, EveryStepCounts

=============================================================================
