------------------------------- MODULE MCWal -------------------------------
(* Wal for TLC: one record per lease, and the leases are interchangeable. *)
EXTENDS Wal, TLC

MCFetched ==
  [id : Lease, task : Task, attempts : {0}, expires : {1}]

Symmetry == Permutations(Lease)

=============================================================================
