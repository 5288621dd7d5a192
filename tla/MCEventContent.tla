---------------------------- MODULE MCEventContent ----------------------------
(* Small instances of EventContent for TLC. *)
EXTENDS EventContent, TLC

Symmetry == Permutations(Request) \cup Permutations(Image) \cup Permutations(Content)
=============================================================================
