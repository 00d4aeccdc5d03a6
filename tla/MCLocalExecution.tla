-------------------------- MODULE MCLocalExecution --------------------------
(* Small instances of LocalExecution for TLC. *)
EXTENDS LocalExecution, TLC

Symmetry ==
    Permutations(Tasks) \cup Permutations(Workers) \cup Permutations(Requests)
=============================================================================
