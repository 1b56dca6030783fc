---------------------------- MODULE MCRedisQueue ----------------------------
(* RedisQueue for TLC: the IDs are interchangeable. *)
EXTENDS RedisQueue, TLC

Symmetry == Permutations(Task) \cup Permutations(Lease)

=============================================================================
