------------------------------ MODULE Records ------------------------------
(***************************************************************************)
(* The identifiers and the lease record that the backend, the journal and  *)
(* the engine pass to one another.  Payloads are copied and never read, so *)
(* they are left out; a task is its ID plus its attempt counter.           *)
(***************************************************************************)
EXTENDS Naturals, FiniteSets

CONSTANTS
  Task,     \* task IDs: uuid.NewString() at every Enqueue
  Lease,    \* lease IDs, the generations: uuid.NewString() at every Fetch
  NoLease   \* "no entry in processing storage"

ASSUME RecordsAssumption ==
  /\ NoLease \notin Lease
  /\ IsFiniteSet(Task)

(***************************************************************************)
(* core.Lease, and equally the wal.Record of an OpFetch: the task with the *)
(* attempt counter it had when it was acquired, and the deadline.          *)
(***************************************************************************)
LeaseRecord == [id : Lease, task : Task, attempts : Nat, expires : Nat]

Ids(S) == { r.id : r \in S }

=============================================================================
