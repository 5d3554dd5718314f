------------------------- MODULE RetentionSerialProofs -------------------------
(***************************************************************************)
(* Proofs about Retention while cycles do not overlap (MaxOpen = 1), for   *)
(* any archives, policy and calendar.  Documents may still be stored and   *)
(* time may pass between two statements of a cycle.                        *)
(***************************************************************************)
EXTENDS RetentionProofs

USE RetentionAssumption DEF Cycles

\* The archives a cycle makes COLD: those it looks at first and leaves.
Cooled(c) ==
  {<<a, "ACTIVE", "COLD">> : a \in {x \in Archives :
     status[x] = "ACTIVE" /\ until[x] <= now[c] /\ Cutoff(now[c]) < until[x]}}

\* At most one cycle is open, and what it has written and has still to write is what the policy
\* asks for at its time, of the archives as the tables hold them.
AloneInv ==
  /\ IsFiniteSet(Open) /\ \A c, k \in Open : c = k
  /\ \A c \in Cycles :
       /\ pc[c] = "deleting" => Range(todo[c]) \cup staged[c] = Doomed(c)
       /\ pc[c] = "cooling" => Range(todo[c]) \cup staged[c] = Doomed(c) \cup Cooled(c)

SInv == IInv /\ AloneInv

-----------------------------------------------------------------------------
(* One cycle at a time *)

\* With one slot, no cycle opens beside another.
LEMMA StepOpen ==
  ASSUME MaxOpen = 1, TypeOK, AloneInv, [Next]_vars
  PROVE  IsFiniteSet(Open') /\ \A c, k \in Open' : c = k
<1>1. IsFiniteSet(Open) /\ \A c, k \in Open : c = k
  BY DEF AloneInv
<1>2. CASE Open' \in SUBSET Open
  BY <1>1, <1>2, FS_Subset
<1>3. ASSUME NEW m \in Cycles, MayOpen(m), Open' \in SUBSET (Open \cup {m})
      PROVE  IsFiniteSet(Open') /\ \A c, k \in Open' : c = k
  <2>1. Cardinality(Open) = 0
    BY <1>1, <1>3, FS_CardinalityType DEF MayOpen
  <2>2. Open = {}
    BY <1>1, <2>1, FS_EmptySet
  <2>3. IsFiniteSet({m})
    BY FS_Singleton
  <2>4. QED
    BY <1>3, <2>2, <2>3, FS_Subset
<1>4. QED
  BY <1>2, <1>3, OpenMoves

\* So no other cycle commits while one stays open.
LEMMA OpenSeesNoCommit ==
  ASSUME TypeOK, AloneInv, NEW c \in Cycles, c \in Open, c \in Open',
         NEW k \in Cycles
  PROVE  ~CommitCycle(k)
<1> SUFFICES ASSUME CommitCycle(k) PROVE FALSE
  OBVIOUS
<1>1. k \in Open /\ k \notin Open'
  BY DEF CommitCycle, Close, Open, TypeOK
<1>2. QED
  BY <1>1 DEF AloneInv

-----------------------------------------------------------------------------
(* What the policy asks for *)

\* An order of the archives to update lists all of them.
LEMMA OrderIsComplete ==
  ASSUME NEW S \in SUBSET Entry, \A d, e \in S : d[1] = e[1] => d = e,
         NEW s \in Orders(S)
  PROVE  Range(s) = S
<1> DEFINE first == [e \in S |-> e[1]]
           n == Cardinality(S)
<1>1. first \in Injection(S, Archives)
  BY DEF Injection, IsInjective, Entry
<1>2. IsFiniteSet(S)
  BY <1>1, FS_Injection
<1>3. n \in Nat
  BY <1>2, FS_CardinalityType
<1>4. s \in Injection(1..n, S)
  BY DEF Orders, Injection
<1>5. Cardinality(1..n) = n
  BY <1>3, FS_Interval
<1>6. s \in Surjection(1..n, S)
  BY <1>2, <1>4, <1>5, FS_Injection
<1>7. QED
  BY <1>6 DEF Surjection, Range

\* The cutoff lies in the past.
LEMMA CutoffIsDay ==
  ASSUME NEW instant \in Nat
  PROVE  Cutoff(instant) \in Int /\ Cutoff(instant) < instant
<1> DEFINE ago == -(DeleteAfter - ColdAfter)
           back == ago * YearLength
<1>1. back \in Int /\ back < 0
  OBVIOUS
<1>2. Cutoff(instant) \in Int /\ Cutoff(instant) <= instant + back
  <2>1. ago \in Int /\ Cutoff(instant) = add_years(instant, ago)
    BY DEF Cutoff
  <2> HIDE DEF ago
  <2>2. QED
    BY <2>1, AddYears
<1> HIDE DEF back
<1>3. QED
  BY <1>1, <1>2

\* What is stored during a cycle is none of its business: its retention ends in the future.
LEMMA NewIsNotDue ==
  ASSUME TypeOK, NEW instant \in Nat, instant <= clock
  PROVE  /\ instant < add_years(clock, ColdAfter)
         /\ Cutoff(instant) < add_years(clock, ColdAfter)
<1> DEFINE span == ColdAfter * YearLength
<1>1. span \in Nat /\ span >= 2
  OBVIOUS
<1>2. clock \in Nat
  BY DEF TypeOK
<1>3. add_years(clock, ColdAfter) \in Int /\ clock + span - 1 <= add_years(clock, ColdAfter)
  BY <1>2, AddYears
<1>4. Cutoff(instant) \in Int /\ Cutoff(instant) < instant
  BY CutoffIsDay
<1> HIDE DEF span
<1>5. QED
  BY <1>1, <1>2, <1>3, <1>4

\* As long as a cycle stays open, what the policy asks for at its time stays the same.
LEMMA PlanStays ==
  ASSUME IInv, AloneInv, [Next]_vars, NEW c \in Cycles, c \in Open, c \in Open'
  PROVE  now'[c] = now[c] /\ Doomed(c)' = Doomed(c) /\ Cooled(c)' = Cooled(c)
<1> USE DEF IInv
<1>1. now'[c] = now[c]
  <2>1. ASSUME NEW k \in Cycles, Close(k)
        PROVE  now'[c] = now[c]
    BY <2>1 DEF Close, Open, TypeOK
  <2>2. ASSUME NEW k \in Cycles, MayOpen(k), Begin(k)
        PROVE  now'[c] = now[c]
    BY <2>2 DEF Begin, MayOpen, Open, TypeOK
  <2>3. CASE UNCHANGED now
    BY <2>3
  <2>4. QED
    BY <2>1, <2>2, <2>3
    DEF Next, vars, Tick, StoreArchive, StartScheduled, StartManual, RefuseManual, Continue,
        SelectForDeletion, SelectForCold, WriteNext, CommitCycle, FailCycle, AbortDeadlocked,
        Rollback
<1>2. ASSUME NEW a \in Archives, StoreArchive(a)
      PROVE  Doomed(c)' = Doomed(c) /\ Cooled(c)' = Cooled(c)
  <2>1. now[c] \in Nat /\ now[c] <= clock
    BY DEF TypeOK, PlansInv
  <2>2. /\ status'[a] = "ACTIVE" /\ until'[a] = add_years(clock, ColdAfter)
        /\ status[a] = "NONE"
        /\ \A b \in Archives \ {a} : status'[b] = status[b] /\ until'[b] = until[b]
    BY <1>2 DEF StoreArchive, TypeOK
  <2>3. add_years(clock, ColdAfter) \in Int
    BY AddYears DEF TypeOK
  <2>4. ~(until'[a] <= now[c]) /\ ~(until'[a] <= Cutoff(now[c]))
    BY <2>1, <2>2, <2>3, NewIsNotDue, CutoffIsDay
  <2>5. Doomed(c)' = Doomed(c)
    BY <1>1, <2>2, <2>4 DEF Doomed
  <2>6. Cooled(c)' = Cooled(c)
    BY <1>1, <2>2, <2>4 DEF Cooled
  <2>7. QED
    BY <2>5, <2>6
<1>3. CASE UNCHANGED <<status, until>>
  BY <1>1, <1>3 DEF Doomed, Cooled
<1>4. \A k \in Cycles : ~CommitCycle(k)
  BY OpenSeesNoCommit
<1>5. \/ UNCHANGED <<status, until>>
      \/ \E a \in Archives : StoreArchive(a)
  BY <1>4
  DEF Next, vars, rows, Tick, StartScheduled, StartManual, RefuseManual, Continue,
      SelectForDeletion, SelectForCold, WriteNext, FailCycle, AbortDeadlocked, Rollback
<1>6. QED
  BY <1>1, <1>2, <1>3, <1>5

\* Once the deletions are written, the second selection finds the archives to make COLD.
LEMMA ExpiredAreTheRest ==
  ASSUME TypeOK, NEW c \in Cycles, staged[c] = Doomed(c)
  PROVE  Expired(c) = Cooled(c)
<1>1. /\ now[c] \in Nat /\ Cutoff(now[c]) \in Int
      /\ \A a \in Archives : until[a] \in Nat
  <2>1. now[c] \in Nat /\ \A a \in Archives : until[a] \in Nat
    BY DEF TypeOK
  <2>2. Cutoff(now[c]) \in Int
    BY <2>1, CutoffIsDay
  <2>3. QED
    BY <2>1, <2>2
<1>2. ASSUME NEW a \in Archives, status[a] = "ACTIVE"
      PROVE  ~Written(c, a) <=> Cutoff(now[c]) < until[a]
  <2>1. Written(c, a) <=> <<a, status[a], "DELETED">> \in Doomed(c)
    <3>1. \A e \in Doomed(c) : e[1] = a => e = <<a, status[a], "DELETED">>
      BY DEF Doomed
    <3>2. <<a, status[a], "DELETED">>[1] = a
      OBVIOUS
    <3>3. QED
      BY <3>1, <3>2 DEF Written
  <2>2. <<a, status[a], "DELETED">> \in Doomed(c) <=> until[a] <= Cutoff(now[c])
    BY <1>2 DEF Doomed
  <2>3. QED
    BY <1>1, <2>1, <2>2
<1>3. QED
  BY <1>2 DEF Expired, Cooled

\* A write takes an entry from what is left to what is written.
LEMMA WriteMovesEntry ==
  ASSUME TypeOK, NEW c \in Cycles, WriteNext(c)
  PROVE  Range(todo'[c]) \cup staged'[c] = Range(todo[c]) \cup staged[c]
<1>1. /\ todo[c] \in Seq(Entry) /\ todo[c] # <<>>
      /\ todo'[c] = Tail(todo[c])
      /\ staged'[c] = staged[c] \cup {Head(todo[c])}
  BY DEF WriteNext, Stage, TypeOK
<1>2. Range(todo[c]) = {Head(todo[c])} \cup Range(Tail(todo[c]))
  <2>1. Head(todo[c]) = todo[c][1] /\ 1 \in DOMAIN todo[c]
    BY <1>1
  <2>2. \A i \in DOMAIN Tail(todo[c]) :
          i + 1 \in DOMAIN todo[c] /\ Tail(todo[c])[i] = todo[c][i + 1]
    BY <1>1
  <2>3. \A i \in DOMAIN todo[c] :
          i = 1 \/ (i - 1 \in DOMAIN Tail(todo[c]) /\ Tail(todo[c])[i - 1] = todo[c][i])
    BY <1>1
  <2>4. Range(Tail(todo[c])) \subseteq Range(todo[c]) /\ Head(todo[c]) \in Range(todo[c])
    BY <2>1, <2>2 DEF Range
  <2>5. Range(todo[c]) \subseteq {Head(todo[c])} \cup Range(Tail(todo[c]))
    <3> SUFFICES ASSUME NEW i \in DOMAIN todo[c]
                 PROVE  todo[c][i] \in {Head(todo[c])} \cup Range(Tail(todo[c]))
      BY DEF Range
    <3>1. CASE i = 1
      BY <2>1, <3>1
    <3>2. CASE i - 1 \in DOMAIN Tail(todo[c]) /\ Tail(todo[c])[i - 1] = todo[c][i]
      BY <3>2 DEF Range
    <3>3. QED
      BY <2>3, <3>1, <3>2
  <2>6. QED
    BY <2>4, <2>5
<1>3. QED
  BY <1>1, <1>2

\* The session of a cycle that goes on.
LEMMA CycleGoesOn ==
  ASSUME TypeOK, [Next]_vars, NEW c \in Cycles, pc'[c] \in {"deleting", "cooling"}
  PROVE  \/ SelectForDeletion(c) \/ SelectForCold(c) \/ WriteNext(c)
         \/ pc'[c] = pc[c] /\ todo'[c] = todo[c] /\ staged'[c] = staged[c]
<1> DEFINE Same == pc'[c] = pc[c] /\ todo'[c] = todo[c] /\ staged'[c] = staged[c]
<1> USE DEF TypeOK
<1>1. ASSUME NEW k \in Cycles, Close(k)
      PROVE  Same
  BY <1>1 DEF Close
<1>2. ASSUME NEW k \in Cycles, Begin(k), UNCHANGED <<todo, staged>>
      PROVE  Same
  BY <1>2 DEF Begin
<1>3. ASSUME NEW k \in Cycles, SelectForDeletion(k) \/ SelectForCold(k) \/ WriteNext(k)
      PROVE  k = c \/ Same
  BY <1>3 DEF SelectForDeletion, SelectForCold, WriteNext, Stage
<1>4. CASE UNCHANGED <<pc, todo, staged>>
  BY <1>4
<1>5. QED
  BY <1>1, <1>2, <1>3, <1>4
  DEF Next, vars, Tick, StoreArchive, StartScheduled, StartManual, RefuseManual, Continue,
      CommitCycle, FailCycle, AbortDeadlocked, Rollback

\* Every step keeps a cycle to what the policy asks for.
LEMMA StepAloneInv ==
  ASSUME MaxOpen = 1, IInv, AloneInv, [Next]_vars
  PROVE  AloneInv'
<1> USE DEF IInv
<1>1. IsFiniteSet(Open') /\ \A c, k \in Open' : c = k
  BY StepOpen
<1>2. ASSUME NEW c \in Cycles, pc'[c] \in {"deleting", "cooling"}
      PROVE  Range(todo'[c]) \cup staged'[c]
               = IF pc'[c] = "deleting" THEN Doomed(c)' ELSE Doomed(c)' \cup Cooled(c)'
  <2>1. c \in Open /\ c \in Open'
    <3>1. pc[c] \in {"opened", "deleting", "cooling"}
      BY <1>2, CycleGoesOn DEF SelectForDeletion, SelectForCold, WriteNext
    <3>2. QED
      BY <1>2, <3>1 DEF Open
  <2>2. Doomed(c)' = Doomed(c) /\ Cooled(c)' = Cooled(c)
    BY <2>1, PlanStays
  <2>3. CASE SelectForDeletion(c)
    <3>1. PICK list \in Orders(Doomed(c)) : todo' = [todo EXCEPT ![c] = list]
      BY <2>3 DEF SelectForDeletion
    <3>2. Range(list) = Doomed(c)
      BY SelectionsAreDue, OrderIsComplete
    <3>3. staged'[c] = {} /\ todo'[c] = list /\ pc'[c] = "deleting"
      BY <2>3, <3>1 DEF SelectForDeletion, PlansInv, TypeOK
    <3>4. QED
      BY <2>2, <3>2, <3>3
  <2>4. CASE SelectForCold(c)
    <3>1. PICK list \in Orders(Expired(c)) : todo' = [todo EXCEPT ![c] = list]
      BY <2>4 DEF SelectForCold
    <3>2. Range(list) = Expired(c)
      BY SelectionsAreDue, OrderIsComplete
    <3>3. staged'[c] = staged[c] /\ todo'[c] = list /\ pc'[c] = "cooling"
      BY <2>4, <3>1 DEF SelectForCold, TypeOK
    <3>4. staged[c] = Doomed(c)
      <4>1. todo[c] = <<>> /\ Range(todo[c]) \cup staged[c] = Doomed(c)
        BY <2>4 DEF SelectForCold, AloneInv
      <4>2. Range(<<>>) = {}
        BY DEF Range
      <4>3. QED
        BY <4>1, <4>2
    <3>5. QED
      BY <2>2, <3>2, <3>3, <3>4, ExpiredAreTheRest
  <2>5. CASE WriteNext(c)
    <3>1. pc'[c] = pc[c]
      BY <2>5 DEF WriteNext
    <3>2. QED
      BY <1>2, <2>2, <2>5, <3>1, WriteMovesEntry DEF AloneInv
  <2>6. CASE pc'[c] = pc[c] /\ todo'[c] = todo[c] /\ staged'[c] = staged[c]
    BY <1>2, <2>2, <2>6 DEF AloneInv
  <2>7. QED
    BY <1>2, <2>3, <2>4, <2>5, <2>6, CycleGoesOn
<1>3. QED
  BY <1>1, <1>2 DEF AloneInv

\* While cycles do not overlap, the strengthened invariant holds in every reachable state.
LEMMA SerialInvariant ==
  ASSUME MaxOpen = 1
  PROVE  Spec => []SInv
<1>1. Init => AloneInv
  <2> SUFFICES ASSUME Init PROVE AloneInv
    OBVIOUS
  <2>1. Open = {}
    BY DEF Init, Open
  <2>2. QED
    BY <2>1, FS_EmptySet DEF Init, AloneInv
<1>2. IInv /\ AloneInv /\ [Next]_vars => AloneInv'
  BY StepAloneInv
<1>3. QED
  BY <1>1, <1>2, InvariantHolds, PTL DEF Spec, SInv

-----------------------------------------------------------------------------
(* What a commit does *)

\* A commit gives every archive the status the policy asks for at the time of the cycle, and
\* has an audit entry for each archive it moves and for no other.
LEMMA CommitAppliesPolicy ==
  ASSUME IInv, AloneInv, NEW c \in Cycles, CommitCycle(c), NEW a \in Archives
  PROVE  /\ status'[a] = Contract!Aged(a, now[c])
         /\ \A e \in staged[c] : e[1] = a => e[2] = status[a] /\ e[3] = status'[a]
         /\ (\E e \in staged[c] : e[1] = a) <=> status'[a] # status[a]
<1> USE DEF IInv
<1>1. staged[c] = Doomed(c) \cup Cooled(c)
  <2>1. todo[c] = <<>> /\ Range(todo[c]) \cup staged[c] = Doomed(c) \cup Cooled(c)
    BY DEF CommitCycle, AloneInv
  <2>2. Range(<<>>) = {}
    BY DEF Range
  <2>3. QED
    BY <2>1, <2>2
<1>2. /\ now[c] \in Nat /\ now[c] <= clock /\ until[a] \in Nat
      /\ status[a] \in ArchiveStatuses
  BY DEF TypeOK, PlansInv
<1>3. Cutoff(now[c]) \in Int /\ Cutoff(now[c]) < now[c]
  BY <1>2, CutoffIsDay
<1>4. \/ status'[a] = status[a] /\ ~Written(c, a)
      \/ \E e \in staged[c] : e \in Entry /\ e[1] = a /\ status'[a] = e[3]
  BY CommittedEntry
<1> DEFINE Doom == status[a] \in {"ACTIVE", "COLD"} /\ until[a] <= Cutoff(now[c])
           Cool == status[a] = "ACTIVE" /\ until[a] <= now[c] /\ Cutoff(now[c]) < until[a]
<1>5. \A e \in staged[c] : e[1] = a =>
        \/ Doom /\ e = <<a, status[a], "DELETED">>
        \/ Cool /\ e = <<a, "ACTIVE", "COLD">>
  BY <1>1 DEF Doomed, Cooled
<1>6. Written(c, a) <=> Doom \/ Cool
  <2>1. Doom <=> <<a, status[a], "DELETED">> \in Doomed(c)
    BY DEF Doomed
  <2>2. Cool <=> <<a, "ACTIVE", "COLD">> \in Cooled(c)
    BY DEF Cooled
  <2>3. QED
    BY <1>1, <1>5, <2>1, <2>2 DEF Written
<1>7. ~(Doom /\ Cool)
  BY <1>2, <1>3
<1>8. CASE Doom
  <2>1. status'[a] = "DELETED" /\ Written(c, a)
    BY <1>4, <1>5, <1>6, <1>7, <1>8
  <2>2. Contract!Aged(a, now[c]) = "DELETED"
    BY <1>2, <1>3, <1>8 DEF Contract!Aged
  <2>3. QED
    BY <1>5, <1>7, <1>8, <2>1, <2>2 DEF Written
<1>9. CASE Cool
  <2>1. status'[a] = "COLD" /\ Written(c, a)
    BY <1>4, <1>5, <1>6, <1>7, <1>9
  <2>2. Contract!Aged(a, now[c]) = "COLD"
    BY <1>2, <1>3, <1>9 DEF Contract!Aged
  <2>3. QED
    BY <1>5, <1>7, <1>9, <2>1, <2>2 DEF Written
<1>10. CASE ~Doom /\ ~Cool
  <2>1. status'[a] = status[a] /\ ~Written(c, a)
    BY <1>4, <1>6, <1>10 DEF Written
  <2>2. Contract!Aged(a, now[c]) = status[a]
    BY <1>10 DEF Contract!Aged
  <2>3. QED
    BY <2>1, <2>2 DEF Written
<1>11. QED
  BY <1>8, <1>9, <1>10

-----------------------------------------------------------------------------
(* Theorems *)

\* While cycles do not overlap, the audit entries of an archive are its history: each cycle
\* records the transition it made, from the status the archive had, and no transition twice.
THEOREM SerialAuditTellsHistory ==
  ASSUME MaxOpen = 1
  PROVE  Spec => []AuditTellsHistory
<1> DEFINE Moves(a) == {<<e[2], e[3]>> : e \in {x \in audit : x[1] = a}}
<1>1. Init => AuditTellsHistory
  BY DEF Init, AuditTellsHistory
<1>2. ASSUME SInv, AuditTellsHistory, [Next]_vars
      PROVE  AuditTellsHistory'
  <2> USE DEF SInv, IInv
  <2>1. ASSUME NEW b \in Archives, StoreArchive(b)
        PROVE  AuditTellsHistory'
    <3>1. audit' = audit /\ status[b] = "NONE" /\ status'[b] = "ACTIVE"
          /\ \A a \in Archives \ {b} : status'[a] = status[a]
      BY <1>2, <2>1 DEF StoreArchive, TypeOK
    <3>2. QED
      BY <1>2, <3>1 DEF AuditTellsHistory
  <2>2. ASSUME NEW c \in Cycles, CommitCycle(c)
        PROVE  AuditTellsHistory'
    <3> SUFFICES ASSUME NEW a \in Archives
                 PROVE  CASE status'[a] = "COLD" -> Moves(a)' = {<<"ACTIVE", "COLD">>}
                          [] status'[a] = "DELETED" ->
                               Moves(a)' \in {{<<"ACTIVE", "DELETED">>},
                                              {<<"ACTIVE", "COLD">>, <<"COLD", "DELETED">>}}
                          [] OTHER -> Moves(a)' = {}
      BY DEF AuditTellsHistory
    <3>1. audit' = audit \cup staged[c]
      BY <2>2 DEF CommitCycle, Audited
    <3>2. /\ status'[a] = Contract!Aged(a, now[c])
          /\ \A e \in staged[c] : e[1] = a => e[2] = status[a] /\ e[3] = status'[a]
          /\ (\E e \in staged[c] : e[1] = a) <=> status'[a] # status[a]
      BY <1>2, <2>2, CommitAppliesPolicy
    <3>3. CASE status'[a] = status[a]
      <4>1. Moves(a)' = Moves(a)
        BY <3>1, <3>2, <3>3
      <4>2. QED
        BY <1>2, <3>3, <4>1 DEF AuditTellsHistory
    <3>4. CASE status'[a] # status[a]
      <4>1. Moves(a)' = Moves(a) \cup {<<status[a], status'[a]>>}
        BY <3>1, <3>2, <3>4
      <4>2. \/ status[a] = "ACTIVE" /\ status'[a] = "COLD"
            \/ status[a] \in {"ACTIVE", "COLD"} /\ status'[a] = "DELETED"
        BY <3>2, <3>4 DEF Contract!Aged
      <4>3. /\ status[a] = "ACTIVE" => Moves(a) = {}
            /\ status[a] = "COLD" => Moves(a) = {<<"ACTIVE", "COLD">>}
        BY <1>2 DEF AuditTellsHistory
      <4> HIDE DEF Moves
      <4>4. QED
        BY <4>1, <4>2, <4>3
    <3>5. QED
      BY <3>3, <3>4
  <2>3. CASE UNCHANGED <<status, audit>>
    BY <1>2, <2>3 DEF AuditTellsHistory
  <2>4. QED
    BY <1>2, <2>1, <2>2, <2>3
    DEF Next, vars, rows, Tick, StartScheduled, StartManual, RefuseManual, Continue,
        SelectForDeletion, SelectForCold, WriteNext, FailCycle, AbortDeadlocked, Rollback
<1>3. QED
  BY <1>1, <1>2, SerialInvariant, PTL DEF Spec

\* While cycles do not overlap, a cycle of statements applies the policy at one instant: the
\* commit is the contract's Apply at the time the cycle took, and its other steps stutter.
THEOREM SerialRetentionImplementsContract ==
  ASSUME MaxOpen = 1
  PROVE  Spec => ImplementsContract
<1>1. Init => Contract!Init
  BY DEF Init, Contract!Init
<1>2. ASSUME SInv, [Next]_vars
      PROVE  [Contract!Next]_(Contract!retention)
  <2> USE DEF SInv, IInv
  <2>1. CASE Tick
    <3>1. clock' > clock /\ UNCHANGED <<status, until>>
      BY <1>2, <2>1 DEF Tick, rows, TypeOK
    <3>2. QED
      BY <3>1 DEF Contract!Next, Contract!Tick
  <2>2. ASSUME NEW a \in Archives, StoreArchive(a)
        PROVE  Contract!Next
    BY <2>2 DEF StoreArchive, EndOfRetention, Contract!Next, Contract!Store
  <2>3. ASSUME NEW c \in Cycles, CommitCycle(c)
        PROVE  Contract!Next
    <3>1. now[c] \in 0..clock
      BY <1>2 DEF TypeOK, PlansInv
    <3>2. status' = [a \in Archives |-> status'[a]]
      BY <2>3 DEF CommitCycle
    <3>3. \A a \in Archives : status'[a] = Contract!Aged(a, now[c])
      BY <1>2, <2>3, CommitAppliesPolicy
    <3>4. status' = [a \in Archives |-> Contract!Aged(a, now[c])]
      BY <3>2, <3>3
    <3>5. UNCHANGED <<clock, until>>
      BY <2>3 DEF CommitCycle
    <3>6. QED
      BY <3>1, <3>4, <3>5 DEF Contract!Next, Contract!Apply
  <2>4. CASE UNCHANGED <<clock, status, until>>
    BY <2>4 DEF Contract!retention
  <2>5. QED
    BY <1>2, <2>1, <2>2, <2>3, <2>4
    DEF Next, vars, rows, StartScheduled, StartManual, RefuseManual, Continue,
        SelectForDeletion, SelectForCold, WriteNext, FailCycle, AbortDeadlocked, Rollback
<1>3. QED
  BY <1>1, <1>2, SerialInvariant, PTL DEF Spec, ImplementsContract, Contract!Spec

\* An archive that is stored stays with its retention_until and moves forward only.
Ages(a) ==
  /\ status[a] # "NONE" => status'[a] # "NONE" /\ until'[a] = until[a]
  /\ status[a] = "COLD" => status'[a] \in {"COLD", "DELETED"}
  /\ status[a] = "DELETED" => status'[a] = "DELETED"

\* While cycles do not overlap, no archive ever comes back from COLD or DELETED.  A late cycle
\* puts COLD over DELETED as soon as they do (ExpiredAreDeleted says that it is made good).
THEOREM SerialArchivesOnlyAge ==
  ASSUME MaxOpen = 1
  PROVE  Spec => [][\A a \in Archives : Ages(a)]_vars
<1>1. ASSUME TypeOK, [Contract!Next]_(Contract!retention)
      PROVE  \A a \in Archives : Ages(a)
  <2>1. CASE Contract!Tick \/ UNCHANGED Contract!retention
    BY <2>1 DEF Contract!Tick, Contract!retention, Ages
  <2>2. ASSUME NEW b \in Archives, Contract!Store(b)
        PROVE  \A a \in Archives : Ages(a)
    BY <1>1, <2>2 DEF Contract!Store, Ages, TypeOK
  <2>3. ASSUME NEW instant \in 0..clock, Contract!Apply(instant)
        PROVE  \A a \in Archives : Ages(a)
    BY <2>3 DEF Contract!Apply, Contract!Aged, Ages
  <2>4. QED
    BY <1>1, <2>1, <2>2, <2>3 DEF Contract!Next
<1>2. ASSUME TypeOK, [Contract!Next]_(Contract!retention)
      PROVE  [\A a \in Archives : Ages(a)]_vars
  BY <1>1, <1>2
<1>3. QED
  BY <1>2, RetentionTypeCorrect, SerialRetentionImplementsContract, PTL
  DEF ImplementsContract, Contract!Spec

=============================================================================
