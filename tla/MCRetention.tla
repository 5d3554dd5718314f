----------------------------- MODULE MCRetention -----------------------------
(* Small instances of Retention for TLC. *)
EXTENDS Retention, TLC

\* Archives and API calls are interchangeable: no definition orders them.
Symmetry == Permutations(Archives) \cup Permutations(Manual)

=============================================================================
