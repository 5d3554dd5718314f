------------------------------- MODULE Waiting -------------------------------
(***************************************************************************)
(* Who waits for whom: in a finite set each of whose members waits for a   *)
(* member, some wait for one another.  Emission and Retention define a     *)
(* deadlock as such a ring; this is why breaking rings breaks every wait.  *)
(***************************************************************************)
EXTENDS FiniteSetTheorems, WellFoundedInduction, TLAPS

\* Everybody in S waits for somebody in S.
Blocked(S, Wait) == \A x \in S : \E y \in S : <<x, y>> \in Wait

\* Everybody in it waits for, and is waited for by, somebody in it.
Ring(S, Wait) == \A x \in S : (\E y \in S : <<x, y>> \in Wait) /\ (\E y \in S : <<y, x>> \in Wait)

\* The ring is a smallest blocked set: those in it that nobody in it waits for could be left out.
THEOREM BlockedHasRing ==
  ASSUME NEW S, IsFiniteSet(S), S # {}, NEW Wait, Blocked(S, Wait)
  PROVE  \E ring \in SUBSET S : ring # {} /\ Ring(ring, Wait)
<1> DEFINE T == {Q \in SUBSET S : Q # {} /\ Blocked(Q, Wait)}
<1>1. T \subseteq FiniteSubsetsOf(S) /\ S \in T
  BY FS_Subset DEF FiniteSubsetsOf
<1>2. PICK m \in T : \A Q \in T : ~(<<Q, m>> \in StrictSubsetOrdering(S))
  <2>1. IsWellFoundedOn(StrictSubsetOrdering(S), FiniteSubsetsOf(S))
    BY FS_StrictSubsetOrderingWellFounded
  <2> HIDE DEF T
  <2>2. QED
    BY <1>1, <2>1, WFMin
<1> DEFINE awaited == {y \in m : \E x \in m : <<x, y>> \in Wait}
<1>3. m \in SUBSET S /\ m # {} /\ Blocked(m, Wait)
  OBVIOUS
<1>4. awaited \in T
  <2>1. awaited # {}
    BY <1>3 DEF Blocked
  <2>2. Blocked(awaited, Wait)
    BY <1>3 DEF Blocked
  <2>3. QED
    BY <1>3, <2>1, <2>2
<1>5. awaited = m
  <2>1. SUFFICES ASSUME awaited # m PROVE FALSE
    OBVIOUS
  <2>2. <<awaited, m>> \in StrictSubsetOrdering(S)
    BY <1>3, <2>1 DEF StrictSubsetOrdering
  <2>3. QED
    BY <1>2, <1>4, <2>2
<1>6. Ring(m, Wait)
  BY <1>3, <1>5 DEF Ring, Blocked
<1>7. QED
  BY <1>3, <1>6

=============================================================================
