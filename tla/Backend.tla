------------------------------ MODULE Backend ------------------------------
(***************************************************************************)
(* queue.Backend: ready, processing and dead storage of one queue.  Every  *)
(* operation is one atomic step (a critical section of MemoryQueue, a Lua  *)
(* script of RedisQueue).  The operations are written after MemoryQueue.   *)
(*                                                                         *)
(* A task record carries its attempt counter from one store to the next;   *)
(* since a task is in one store at a time (OnePlace below) the counter is  *)
(* a function of the task.                                                 *)
(***************************************************************************)
EXTENDS Records, Sequences

VARIABLES
  ready,       \* FIFO of task IDs: appended at the back, acquired at the front
  processing,  \* task -> the lease ID stored as its fence, or NoLease
  attempts,    \* task -> Task.Attempts
  dead,        \* tasks in dead-letter storage
  completed    \* history: tasks removed by Complete

backendVars == <<ready, processing, attempts, dead, completed>>

Waiting == { ready[i] : i \in DOMAIN ready }

Held == { t \in Task : processing[t] # NoLease }

Known == Waiting \cup Held \cup dead \cup completed

BackendTypeOK ==
  /\ ready \in Seq(Task)
  /\ processing \in [Task -> Lease \cup {NoLease}]
  /\ attempts \in [Task -> Nat]
  /\ dead \subseteq Task
  /\ completed \subseteq Task

BackendInit ==
  /\ ready = <<>>
  /\ processing = [t \in Task |-> NoLease]
  /\ attempts = [t \in Task |-> 0]
  /\ dead = {}
  /\ completed = {}

(* The fence test the three closing operations share: FALSE is             *)
(* ErrTaskNotProcessing or ErrLeaseFenceMismatch.                          *)
FenceMatches(t, l) == processing[t] = l

Release(t) == processing' = [processing EXCEPT ![t] = NoLease]

(* Mutant of Charge: counts the attempts left, downwards. *)
ChargeDownwards(t) == attempts' = [attempts EXCEPT ![t] = @ - 1]

Charge(t) == attempts' = [attempts EXCEPT ![t] = @ + 1]

Push(t) ==
  /\ t \notin Known
  /\ ready' = Append(ready, t)
  /\ UNCHANGED <<processing, attempts, dead, completed>>

Acquire(l) ==
  /\ ready # <<>>
  /\ ready' = Tail(ready)
  /\ processing' = [processing EXCEPT ![Head(ready)] = l]
  /\ UNCHANGED <<attempts, dead, completed>>

Complete(t, l) ==
  /\ FenceMatches(t, l)
  /\ Release(t)
  /\ completed' = completed \cup {t}
  /\ UNCHANGED <<ready, attempts, dead>>

(* Mutant of Requeue: the task goes back as it was acquired, uncharged. *)
RequeueUncharged(t, l) ==
  /\ FenceMatches(t, l)
  /\ Release(t)
  /\ ready' = Append(ready, t)
  /\ UNCHANGED <<attempts, dead, completed>>

Requeue(t, l) ==
  /\ FenceMatches(t, l)
  /\ Release(t)
  /\ Charge(t)
  /\ ready' = Append(ready, t)
  /\ UNCHANGED <<dead, completed>>

DeadLetter(t, l) ==
  /\ FenceMatches(t, l)
  /\ Release(t)
  /\ Charge(t)
  /\ dead' = dead \cup {t}
  /\ UNCHANGED <<ready, completed>>

(***************************************************************************)
(* Startup reconciliation.  active is the set of fences of the leases the  *)
(* journal still holds open.  Entries that match none go to the back of    *)
(* ready storage, in the arbitrary order of a map or hash iteration, with  *)
(* their attempt counter as it was.                                        *)
(***************************************************************************)
Fence(t) == [task |-> t, lease |-> processing[t]]

(* Mutant of Orphans: the active leases are not looked at. *)
OrphansAll(active) == Held

Orphans(active) == { t \in Held : Fence(t) \notin active }

MatchedLeaseIDs(active) == { processing[t] : t \in Held \ Orphans(active) }

Orderings(S) ==
  { s \in [1..Cardinality(S) -> S] :
      /\ \A i, j \in 1..Cardinality(S) : s[i] = s[j] => i = j
      /\ \A x \in S : \E i \in 1..Cardinality(S) : s[i] = x }

(* Mutant of RecoverOrphanedProcessing: the entries are not deleted. *)
RecoverCopies(active) ==
  /\ \E s \in Orderings(Orphans(active)) : ready' = ready \o s
  /\ UNCHANGED <<processing, attempts, dead, completed>>

(* Mutant of RecoverOrphanedProcessing: charges an attempt, like Requeue. *)
RecoverCharges(active) ==
  /\ \E s \in Orderings(Orphans(active)) : ready' = ready \o s
  /\ processing' = [t \in Task |-> IF t \in Orphans(active)
                                   THEN NoLease ELSE processing[t]]
  /\ attempts' = [t \in Task |-> IF t \in Orphans(active)
                                 THEN attempts[t] + 1 ELSE attempts[t]]
  /\ UNCHANGED <<dead, completed>>

RecoverOrphanedProcessing(active) ==
  /\ \E s \in Orderings(Orphans(active)) : ready' = ready \o s
  /\ processing' = [t \in Task |-> IF t \in Orphans(active)
                                   THEN NoLease ELSE processing[t]]
  /\ UNCHANGED <<attempts, dead, completed>>

(* The backend on its own, under any sequence of calls. *)
Fences == [task : Task, lease : Lease]

BackendNext ==
  \/ \E t \in Task : Push(t)
  \/ \E l \in Lease :
       \/ Acquire(l)
       \/ \E t \in Task : Complete(t, l) \/ Requeue(t, l) \/ DeadLetter(t, l)
  \/ \E active \in SUBSET Fences : RecoverOrphanedProcessing(active)

BackendSpec == BackendInit /\ [][BackendNext]_backendVars

(* A task is in one place at a time: once in the ready queue, or held in   *)
(* processing, or dead, or completed.  The moves of the backend and the    *)
(* reconciliation at startup never copy a task.                            *)
OnePlace ==
  /\ \A i, j \in DOMAIN ready : ready[i] = ready[j] => i = j
  /\ Waiting \cap Held = {}
  /\ (Waiting \cup Held) \cap (dead \cup completed) = {}
  /\ dead \cap completed = {}

=============================================================================
