------------------------------ MODULE MCCapacity ------------------------------
(* Module Capacity with a few concurrent requests. *)
EXTENDS Capacity, TLC

\* Requests are alike.
Symmetry == Permutations(Update)
=============================================================================
