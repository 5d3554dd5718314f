--------------------------- MODULE EmissionContract ---------------------------
(***************************************************************************)
(* What batch emission promises of notes and batches: a draft note is      *)
(* queued in one batch, the batch is finalised once, and by then each of   *)
(* its notes has been issued or has failed.                                *)
(***************************************************************************)
CONSTANTS Notes, Batches

VARIABLES
  status,   \* of each note
  fate,     \* status of each batch
  members   \* notes of each batch

contract == <<status, fate, members>>

Init ==
  /\ status \in [Notes -> {"ABSENT", "DRAFT"}]
  /\ fate = [b \in Batches |-> "NONE"]
  /\ members = [b \in Batches |-> {}]

\* A batch is created over draft notes only, and takes them all at once.
Queue(b, chosen) ==
  /\ fate[b] = "NONE"
  /\ chosen # {}
  /\ \A n \in chosen : status[n] = "DRAFT"
  /\ status' = [n \in Notes |-> IF n \in chosen THEN "QUEUED" ELSE status[n]]
  /\ fate' = [fate EXCEPT ![b] = "PENDING"]
  /\ members' = [members EXCEPT ![b] = chosen]

\* A pending batch is finalised, COMPLETED exactly when every note of it is issued.
Finalize(b, issued) ==
  /\ fate[b] = "PENDING"
  /\ \A n \in members[b] : status[n] = "QUEUED"
  /\ status' = [n \in Notes |-> IF n \in issued THEN "ISSUED"
                                ELSE IF n \in members[b] THEN "FAILED" ELSE status[n]]
  /\ fate' = [fate EXCEPT ![b] = IF issued = members[b] THEN "COMPLETED" ELSE "FAILED"]
  /\ UNCHANGED members

Next ==
  \E b \in Batches :
    \/ \E chosen \in SUBSET Notes : Queue(b, chosen)
    \/ \E issued \in SUBSET members[b] : Finalize(b, issued)

Spec == Init /\ [][Next]_contract

\* A note is in at most one batch, and where the two stand agrees.
OneFateEach ==
  /\ \A a, b \in Batches : a # b => members[a] \cap members[b] = {}
  /\ \A b \in Batches : \A n \in members[b] :
       CASE fate[b] = "PENDING" -> status[n] = "QUEUED"
         [] fate[b] = "COMPLETED" -> status[n] = "ISSUED"
         [] OTHER -> status[n] \in {"ISSUED", "FAILED"}

=============================================================================
