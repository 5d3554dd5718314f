---------------------------- MODULE MCReturnOrders ----------------------------
(* Small instances of ReturnOrders for TLC. *)
EXTENDS ReturnOrders, TLC

\* Calls are interchangeable: no definition orders them.
Symmetry == Permutations(Calls)

=============================================================================
