------------------------------ MODULE MCEngine ------------------------------
(* Engine for TLC: the IDs are interchangeable. *)
EXTENDS EngineContract, TLC

Symmetry == Permutations(Task) \cup Permutations(Lease)

=============================================================================
