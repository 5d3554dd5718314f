--------------------------- MODULE RetentionContract ---------------------------
(***************************************************************************)
(* What retention promises: a cycle looks at all archives at one past      *)
(* instant, deletes those whose retention ended as long before it as the   *)
(* policy says, and makes COLD the other active ones whose retention has   *)
(* ended.                                                                  *)
(***************************************************************************)
EXTENDS Integers

CONSTANTS
  Archives,
  End(_),    \* the end of the retention of what is stored at an instant
  Past(_)    \* the end of retention that is old enough at an instant

VARIABLES clock, status, until

retention == <<clock, status, until>>

Init ==
  /\ clock = 0
  /\ status = [a \in Archives |-> "NONE"]
  /\ until = [a \in Archives |-> 0]

Tick == clock' > clock /\ UNCHANGED <<status, until>>

Store(a) ==
  /\ status[a] = "NONE"
  /\ status' = [status EXCEPT ![a] = "ACTIVE"]
  /\ until' = [until EXCEPT ![a] = End(clock)]
  /\ UNCHANGED clock

\* The status the policy gives an archive at an instant.
Aged(a, instant) ==
  CASE status[a] \in {"ACTIVE", "COLD"} /\ until[a] <= Past(instant) -> "DELETED"
    [] status[a] = "ACTIVE" /\ until[a] <= instant /\ Past(instant) < until[a] -> "COLD"
    [] OTHER -> status[a]

Apply(instant) ==
  /\ status' = [a \in Archives |-> Aged(a, instant)]
  /\ UNCHANGED <<clock, until>>

Next ==
  \/ Tick
  \/ \E a \in Archives : Store(a)
  \/ \E instant \in 0..clock : Apply(instant)

Spec == Init /\ [][Next]_retention

=============================================================================
