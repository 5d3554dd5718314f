------------------------------- MODULE MCAccess -------------------------------
(* Small instances of Access for TLC. *)
EXTENDS Access, TLC

\* Calls are interchangeable: no definition orders them.
Symmetry == Permutations(Calls)

=============================================================================
