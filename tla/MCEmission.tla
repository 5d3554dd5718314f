------------------------------ MODULE MCEmission ------------------------------
(* Small instances of Emission for TLC. *)
EXTENDS Emission, TLC

\* Notes, requests and deliveries are interchangeable: no definition orders them.
Symmetry == Permutations(Notes) \cup Permutations(Requests) \cup Permutations(Deliveries)

=============================================================================
