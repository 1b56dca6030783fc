---------------------------- MODULE MCRedisRetry ----------------------------
(* RedisRetry for TLC: the IDs are interchangeable. *)
EXTENDS RedisRetry, TLC

Symmetry == Permutations(Task) \cup Permutations(Lease)

=============================================================================
