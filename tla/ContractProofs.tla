--------------------------- MODULE ContractProofs ---------------------------
(***************************************************************************)
(* The engine implements LeasedQueue: every step of the engine, its errors *)
(* and crashes included, is a step of the contract or changes nothing that *)
(* the contract speaks of.  The journal must exist and no append may leave *)
(* half a frame, since otherwise a granted lease can be forgotten.         *)
(***************************************************************************)
EXTENDS EngineContract, EngineProofs

(* What PlaceOf says, when every task is in one place. *)
Placed ==
  \A t : /\ t \in Waiting => PlaceOf(t) = "ready"
         /\ t \in Held => PlaceOf(t) = "claimed"
         /\ t \in dead => PlaceOf(t) = "dead"
         /\ t \in completed => PlaceOf(t) = "done"
         /\ t \notin Known => PlaceOf(t) = "absent"

(* The stores of the backend decide the place of a task. *)
LEMMA PlaceIs ==
  OnePlace => Placed
<1> SUFFICES ASSUME OnePlace, NEW t
             PROVE  /\ t \in Waiting => PlaceOf(t) = "ready"
                    /\ t \in Held => PlaceOf(t) = "claimed"
                    /\ t \in dead => PlaceOf(t) = "dead"
                    /\ t \in completed => PlaceOf(t) = "done"
                    /\ t \notin Known => PlaceOf(t) = "absent"
  BY Zenon DEF Placed
<1>1. /\ t \in Waiting => t \notin Held /\ t \notin dead /\ t \notin completed
      /\ t \in Held => t \notin dead /\ t \notin completed
      /\ t \in dead => t \notin completed
  BY Zenon DEF OnePlace
<1> QED
  BY <1>1 DEF PlaceOf, Known

(* They do after a step too. *)
LEMMA PlaceBecomes ==
  OnePlace' => Placed'
BY PlaceIs, PTL

(* A task that a step does not move stays where it is. *)
LEMMA PlaceStays ==
  ASSUME NEW t, t \in Waiting' <=> t \in Waiting, t \in Held' <=> t \in Held,
         t \in dead' <=> t \in dead, t \in completed' <=> t \in completed
  PROVE  PlaceOf(t)' = PlaceOf(t)
BY DEF PlaceOf

(* A step that moves the tasks of S to the place p. *)
LEMMA PutFacts ==
  ASSUME NEW S \in SUBSET Task, NEW p,
         \A t \in S : PlaceOf(t)' = p,
         \A t \in Task \ S : PlaceOf(t)' = PlaceOf(t),
         processing' = [t \in Task |-> IF t \in S THEN NoLease ELSE processing[t]]
  PROVE  Contract!Put(S, p)
<1>1. [t \in Task |-> PlaceOf(t)]'
        = [t \in Task |-> IF t \in S THEN p ELSE [u \in Task |-> PlaceOf(u)][t]]
  BY Zenon
<1> QED
  BY <1>1, Zenon DEF Contract!Put

-----------------------------------------------------------------------------
(* One lemma for each step of the contract. *)

(* Enqueue submits a task. *)
LEMMA SubmitStep ==
  ASSUME IInv, IInv', NEW t \in Task, Enqueue(t)
  PROVE  Contract!Submit(t)
<1>1. /\ OnePlace /\ OnePlace' /\ BackendTypeOK
  BY Zenon DEF IInv, TypeOK
<1>2. /\ t \notin Known /\ ready' = Append(ready, t)
      /\ UNCHANGED <<processing, attempts, dead, completed, granted, now>>
  BY Zenon DEF Enqueue, Push, historyVars
<1>3. Waiting' = Waiting \cup {t}
  BY <1>1, <1>2, AppendWaiting, Zenon DEF BackendTypeOK, OnePlace, Distinct, Known
<1>4. Held' = Held
  BY <1>2, Zenon DEF Held
<1>5. PlaceOf(t)' = "ready" /\ PlaceOf(t) = "absent"
  BY <1>1, <1>2, <1>3, PlaceIs, PlaceBecomes, Zenon DEF Placed
<1>6. \A u \in Task \ {t} : PlaceOf(u)' = PlaceOf(u)
  BY <1>2, <1>3, <1>4, PlaceStays, Zenon
<1>7. processing' = [u \in Task |-> IF u \in {t} THEN NoLease ELSE processing[u]]
  <2>1. processing[t] = NoLease
    BY <1>2, Zenon DEF Known, Held
  <2>2. processing = [u \in Task |-> processing[u]]
    BY <1>1, Zenon DEF BackendTypeOK
  <2> QED
    BY <1>2, <2>1, <2>2, Zenon
<1>8. Contract!Put({t}, "ready")
  BY <1>5, <1>6, <1>7, PutFacts, Zenon
<1> QED
  BY <1>2, <1>5, <1>8, Zenon DEF Contract!Submit

(* Acquire claims the first task, under a lease ID nobody has seen. *)
LEMMA ClaimStep ==
  ASSUME IInv, IInv', NEW l \in Lease, l \notin issued, Acquire(l), UNCHANGED <<granted, now>>
  PROVE  \E t \in Task : Contract!Claim(t, l)
<1>0. PICK t \in Task : t = Head(ready)
  BY AcquireFacts, Zenon
<1>1. /\ OnePlace /\ OnePlace' /\ BackendTypeOK
  BY Zenon DEF IInv, TypeOK
<1>2. /\ t \in Task \ Held /\ Held' = Held \cup {t}
      /\ UNCHANGED <<attempts, dead, completed>>
      /\ \A r \in AllRecords : r.id # l
      /\ \A u \in Held : processing[u] # l
  BY <1>0, AcquireFacts, Zenon DEF IInv, Identity
<1>3. /\ ready # <<>> /\ ready' = Tail(ready)
      /\ processing' = [processing EXCEPT ![t] = l]
  BY <1>0, Zenon DEF Acquire
<1>4. Waiting' = Waiting \ {t} /\ t \in Waiting
  BY <1>0, <1>1, <1>3, TailWaiting, Zenon DEF BackendTypeOK, OnePlace, Distinct
<1>5. PlaceOf(t)' = "claimed" /\ PlaceOf(t) = "ready"
  BY <1>1, <1>2, <1>4, PlaceIs, PlaceBecomes, Zenon DEF Placed
<1>6. \A u \in Task \ {t} : PlaceOf(u)' = PlaceOf(u)
  BY <1>2, <1>4, PlaceStays, Zenon
<1>7. [u \in Task |-> PlaceOf(u)]' = [[u \in Task |-> PlaceOf(u)] EXCEPT ![t] = "claimed"]
  <2>1. [u \in Task |-> PlaceOf(u)]' = [u \in Task |-> IF u = t THEN "claimed" ELSE PlaceOf(u)]
    BY <1>5, <1>6, Zenon
  <2>2. [[u \in Task |-> PlaceOf(u)] EXCEPT ![t] = "claimed"]
          = [u \in Task |-> IF u = t THEN "claimed" ELSE PlaceOf(u)]
    BY Zenon
  <2> QED
    BY <2>1, <2>2, Zenon
<1>8. l \notin Contract!Ids(granted)
  BY <1>2, Zenon DEF Contract!Ids, AllRecords
<1>9. \A u \in Task : processing[u] # l
  BY <1>2, RecordsAssumption, Zenon DEF Held
<1>10. [u \in Task |-> PlaceOf(u)][t] = "ready"
  BY <1>2, <1>5, Zenon
<1>11. Contract!Claim(t, l)
  BY <1>2, <1>3, <1>7, <1>8, <1>9, <1>10, Zenon DEF Contract!Claim
<1> QED
  BY <1>2, <1>11, Zenon

(* Fetch returns the lease once its record is written. *)
LEMMA GrantStep ==
  ASSUME IInv, FetchRecord
  PROVE  \E g \in granted' : Contract!Grant(g)
<1>1. PICK r \in inFlight : granted' = granted \cup {r}
  BY Zenon DEF FetchRecord
<1>2. /\ pc = "fetch" /\ UNCHANGED <<backendVars, now>>
  BY Zenon DEF FetchRecord
<1>3. /\ processing[r.task] = r.id /\ r.id \notin Ids(granted)
      /\ r.task \in Task /\ r.id \in Lease
  <2>1. pc \in {"fetch", "handback"}
    BY <1>2
  <2> QED
    BY <2>1, Zenon DEF IInv, InFlightFacts, FenceMatches, TypeOK, LeaseRecord
<1>4. r.task \in Held
  BY <1>3, RecordsAssumption, Zenon DEF Held
<1>5. attempts[r.task] = r.attempts
  BY <1>3, <1>4, Zenon DEF IInv, FenceAgrees
<1>6. PlaceOf(r.task) = "claimed"
  BY <1>4, PlaceIs, Zenon DEF IInv, Placed
<1>7. Contract!GrantOf(r.task) = {}
  BY <1>3, Zenon DEF Contract!GrantOf, Ids
<1>8. UNCHANGED <<ready, processing, attempts, dead, completed>>
  BY <1>2, Zenon DEF backendVars
<1>9. [u \in Task |-> PlaceOf(u)]' = [u \in Task |-> PlaceOf(u)]
  <2>1. Waiting' = Waiting /\ Held' = Held /\ dead' = dead /\ completed' = completed
    BY <1>8, Zenon DEF Waiting, Held
  <2>2. \A u \in Task : PlaceOf(u)' = PlaceOf(u)
    BY <2>1, PlaceStays, Zenon
  <2> QED
    BY <2>2, Zenon
<1>10. [u \in Task |-> PlaceOf(u)][r.task] = "claimed"
  BY <1>3, <1>6, Zenon
<1>11. Contract!Grant(r)
  BY <1>1, <1>2, <1>3, <1>5, <1>7, <1>8, <1>9, <1>10, Zenon DEF Contract!Grant
<1> QED
  BY <1>1, <1>11, Zenon

(* A task that the backend releases was claimed, and nothing else moves. *)
LEMMA ReleasePut ==
  ASSUME IInv, NEW t \in Task, NEW l \in Lease, FenceMatches(t, l), Release(t), NEW p,
         PlaceOf(t)' = p,
         \A u : u # t => /\ u \in Waiting' <=> u \in Waiting
                         /\ u \in dead' <=> u \in dead
                         /\ u \in completed' <=> u \in completed
  PROVE  /\ [u \in Task |-> PlaceOf(u)][t] = "claimed"
         /\ Contract!Put({t}, p)
<1>1. t \in Held
  BY RecordsAssumption, Zenon DEF FenceMatches, Held
<1>2. PlaceOf(t) = "claimed"
  BY <1>1, PlaceIs, Zenon DEF IInv, Placed
<1>3. processing' = [processing EXCEPT ![t] = NoLease]
  BY Zenon DEF Release
<1>4. processing' = [u \in Task |-> IF u \in {t} THEN NoLease ELSE processing[u]]
  <2>1. processing \in [Task -> Lease \cup {NoLease}]
    BY Zenon DEF IInv, TypeOK, BackendTypeOK
  <2> QED
    BY <1>3, <2>1, Zenon
<1>5. \A u : u # t => (u \in Held' <=> u \in Held)
  BY <1>4, Zenon DEF Held
<1>6. \A u \in Task \ {t} : PlaceOf(u)' = PlaceOf(u)
  BY <1>5, PlaceStays, Zenon
<1>7. {t} \in SUBSET Task /\ \A u \in {t} : PlaceOf(u)' = p
  BY Zenon
<1>8. Contract!Put({t}, p)
  BY <1>4, <1>6, <1>7, PutFacts, Zenon
<1> QED
  BY <1>2, <1>8, Zenon

(* Requeue puts a claimed task back, charged. *)
LEMMA RequeuePut ==
  ASSUME IInv, IInv', NEW t \in Task, NEW l \in Lease, Requeue(t, l)
  PROVE  /\ [u \in Task |-> PlaceOf(u)][t] = "claimed"
         /\ Contract!Put({t}, "ready")
         /\ Contract!ChargeOne(t)
<1>1. /\ FenceMatches(t, l) /\ Release(t) /\ ready' = Append(ready, t)
      /\ Charge(t) /\ dead' = dead /\ completed' = completed
  BY Zenon DEF Requeue
<1>2. t \notin Waiting
  BY <1>1, RecordsAssumption, Zenon DEF FenceMatches, Held, IInv, OnePlace
<1>3. Waiting' = Waiting \cup {t}
  BY <1>1, <1>2, AppendWaiting, Zenon DEF IInv, TypeOK, BackendTypeOK, OnePlace, Distinct
<1>4. PlaceOf(t)' = "ready"
  BY <1>3, PlaceBecomes, Zenon DEF IInv, Placed
<1>5. /\ [u \in Task |-> PlaceOf(u)][t] = "claimed"
      /\ Contract!Put({t}, "ready")
  BY <1>1, <1>3, <1>4, ReleasePut, Zenon
<1> QED
  BY <1>1, <1>5, Zenon DEF Charge, Contract!ChargeOne

(* DeadLetter moves a claimed task to dead storage, charged. *)
LEMMA DeadLetterPut ==
  ASSUME IInv, IInv', NEW t \in Task, NEW l \in Lease, DeadLetter(t, l)
  PROVE  /\ [u \in Task |-> PlaceOf(u)][t] = "claimed"
         /\ Contract!Put({t}, "dead")
         /\ Contract!ChargeOne(t)
<1>1. /\ FenceMatches(t, l) /\ Release(t) /\ Waiting' = Waiting
      /\ Charge(t) /\ dead' = dead \cup {t} /\ completed' = completed
  BY Zenon DEF DeadLetter, Waiting
<1>2. PlaceOf(t)' = "dead"
  BY <1>1, PlaceBecomes, Zenon DEF IInv, Placed
<1>3. /\ [u \in Task |-> PlaceOf(u)][t] = "claimed"
      /\ Contract!Put({t}, "dead")
  BY <1>1, <1>2, ReleasePut, Zenon
<1> QED
  BY <1>1, <1>3, Zenon DEF Charge, Contract!ChargeOne

(* The worker's own ack finishes a task: its lease was granted to it. *)
LEMMA FinishStep ==
  ASSUME IInv, IInv', NEW r \in leases, r.id \in Ids(granted), Complete(r.task, r.id),
         UNCHANGED <<granted, now>>
  PROVE  Contract!Finish(r.task)
<1> DEFINE t == r.task
<1>1. t \in Task /\ r.id \in Lease
  BY Zenon DEF IInv, TypeOK, LeaseRecord
<1>2. /\ FenceMatches(t, r.id) /\ Release(t) /\ Waiting' = Waiting
      /\ attempts' = attempts /\ dead' = dead /\ completed' = completed \cup {t}
  BY Zenon DEF Complete, Waiting
<1>3. PlaceOf(t)' = "done"
  BY <1>2, PlaceBecomes, Zenon DEF IInv, Placed
<1>4. /\ [u \in Task |-> PlaceOf(u)][t] = "claimed"
      /\ Contract!Put({t}, "done")
  BY <1>1, <1>2, <1>3, ReleasePut, Zenon
<1>5. r \in granted
  BY Zenon DEF IInv, Identity, AllRecords, Ids
<1>6. Contract!GrantOf(t) # {}
  BY <1>2, <1>5, Zenon DEF Contract!GrantOf, FenceMatches
<1> QED
  BY <1>2, <1>4, <1>6, Zenon DEF Contract!Finish

(* expireLease ends a lease that is over, and the attempt counter of the   *)
(* record decides as the counter of the task would.                        *)
LEMMA LapseStep ==
  ASSUME IInv, IInv', NEW r \in leases, r.expires <= reapNow, ExpireInBackend(r),
         UNCHANGED <<granted, now>>
  PROVE  Contract!Lapse(r.task)
<1> DEFINE t == r.task
<1>1. t \in Task /\ r.id \in Lease
  BY Zenon DEF IInv, TypeOK, LeaseRecord
<1>2. FenceMatches(t, r.id)
  BY Zenon DEF ExpireInBackend, DeadLetter, Requeue
<1>3. r.attempts = attempts[t]
  <2>1. t \in Held /\ processing[t] = r.id
    BY <1>1, <1>2, RecordsAssumption, Zenon DEF FenceMatches, Held
  <2>2. FenceAgrees
    BY Zenon DEF IInv
  <2>3. r \in leases \cup opened \cup inFlight
    BY Zenon
  <2> QED
    BY <2>1, <2>2, <2>3, Zenon DEF FenceAgrees
<1>4. ShouldDeadLetter(r) <=> Contract!UsedUp(t)
  BY <1>3, Zenon DEF ShouldDeadLetter, Contract!UsedUp
<1>5. \A g \in Contract!GrantOf(t) : g.expires <= now
  <2>1. \A g \in Contract!GrantOf(t) : g = r
    BY <1>2, Zenon DEF Contract!GrantOf, IInv, Identity, AllRecords, FenceMatches
  <2>2. r.expires <= now
    BY DEF IInv, StageFacts, TypeOK, LeaseRecord
  <2> QED
    BY <2>1, <2>2, Zenon
<1>6. /\ [u \in Task |-> PlaceOf(u)][t] = "claimed"
      /\ Contract!Put({t}, IF Contract!UsedUp(t) THEN "dead" ELSE "ready")
      /\ Contract!ChargeOne(t)
  <2>1. CASE ShouldDeadLetter(r)
    BY <1>1, <1>4, <2>1, DeadLetterPut, Zenon DEF ExpireInBackend
  <2>2. CASE ~ShouldDeadLetter(r)
    BY <1>1, <1>4, <2>2, RequeuePut, Zenon DEF ExpireInBackend
  <2> QED
    BY <2>1, <2>2, Zenon
<1> QED
  BY <1>5, <1>6, Zenon DEF Contract!Lapse

(* A failed Fetch gives its claim back, which no worker has heard of. *)
LEMMA GiveBackStep ==
  ASSUME IInv, IInv', FetchHandBack
  PROVE  \E t \in Task : Contract!GiveBack(t)
<1>1. PICK r \in inFlight : Requeue(r.task, r.id)
  BY Zenon DEF FetchHandBack
<1>2. /\ r.task \in Task /\ r.id \in Lease /\ r.id \notin Ids(granted)
      /\ UNCHANGED <<granted, now>>
  BY Zenon DEF FetchHandBack, IInv, InFlightFacts, TypeOK, LeaseRecord, historyVars
<1>3. processing[r.task] = r.id
  BY <1>1, Zenon DEF Requeue, FenceMatches
<1>4. Contract!GrantOf(r.task) = {}
  BY <1>2, <1>3, Zenon DEF Contract!GrantOf, Ids
<1>5. /\ [u \in Task |-> PlaceOf(u)][r.task] = "claimed"
      /\ Contract!Put({r.task}, "ready")
      /\ Contract!ChargeOne(r.task)
  BY <1>1, <1>2, RequeuePut, Zenon
<1>6. Contract!GiveBack(r.task)
  BY <1>2, <1>4, <1>5, Zenon DEF Contract!GiveBack
<1> QED
  BY <1>2, <1>6, Zenon

(* Reconciliation returns claims that no worker has heard of: a granted    *)
(* lease is in the journal, and its task is not an orphan.                 *)
LEMMA ReconcileStep ==
  ASSUME IInv, IInv', GrantIsDurable, RecoverOrphanedProcessing(ActiveLeases),
         UNCHANGED <<granted, now>>
  PROVE  \E S \in SUBSET Task : Contract!Reconcile(S)
<1>1. PICK S \in SUBSET Task : S = Orphans(ActiveLeases)
  BY Zenon DEF Orphans, Held
<1>2. /\ processing' = [t \in Task |-> IF t \in S THEN NoLease ELSE processing[t]]
      /\ UNCHANGED <<attempts, dead, completed>>
  BY <1>1, Zenon DEF RecoverOrphanedProcessing
<1>3. S \subseteq Held /\ Held' = Held \ S
  BY <1>1, RecoverFacts, Zenon DEF Orphans
<1>4. Waiting' = Waiting \cup S
  <2>1. PICK s \in Orderings(S) : ready' = ready \o s
    BY <1>1, Zenon DEF RecoverOrphanedProcessing
  <2>2. ready \in Seq(Task) /\ Distinct(ready)
    BY Zenon DEF IInv, TypeOK, BackendTypeOK, OnePlace, Distinct
  <2>3. S \cap Waiting = {}
    BY <1>3, Zenon DEF IInv, OnePlace
  <2> QED
    BY <2>1, <2>2, <2>3, ConcatWaiting, Zenon
<1>5. \A t \in S : PlaceOf(t)' = "ready" /\ PlaceOf(t) = "claimed"
  BY <1>3, <1>4, PlaceIs, PlaceBecomes, Zenon DEF IInv, Placed
<1>6. \A t \in Task \ S : PlaceOf(t)' = PlaceOf(t)
  BY <1>2, <1>3, <1>4, PlaceStays, Zenon
<1>7. Contract!Put(S, "ready")
  BY <1>2, <1>5, <1>6, PutFacts, Zenon
<1>8. \A t \in S : Contract!GrantOf(t) = {}
  <2>1. SUFFICES ASSUME NEW t \in S, NEW g \in Contract!GrantOf(t) PROVE FALSE
    BY Zenon
  <2>2. g \in granted /\ g.task = t /\ processing[t] = g.id
    BY Zenon DEF Contract!GrantOf
  <2>3. g \in Live
    BY <2>2, Zenon DEF GrantIsDurable, FenceMatches
  <2>4. Fence(t) \in ActiveLeases
    BY <2>2, <2>3, Zenon DEF Fence, ActiveLeases
  <2> QED
    BY <1>1, <2>4, Zenon DEF Orphans
<1>9. \A t \in S : [u \in Task |-> PlaceOf(u)][t] = "claimed"
  BY <1>5, Zenon
<1>10. Contract!Reconcile(S)
  BY <1>2, <1>7, <1>8, <1>9, Zenon DEF Contract!Reconcile
<1> QED
  BY <1>10, Zenon

(* A step that leaves the backend, the grants and the clock alone is       *)
(* nothing to the contract.                                                *)
LEMMA ContractStutter ==
  ASSUME UNCHANGED <<backendVars, granted>>
  PROVE  UNCHANGED <<[t \in Task |-> PlaceOf(t)], processing, attempts, granted>>
<1>1. UNCHANGED <<ready, processing, attempts, dead, completed, granted>>
  BY Zenon DEF backendVars
<1>2. Waiting' = Waiting /\ Held' = Held
  BY <1>1, Zenon DEF Waiting, Held
<1>3. \A t \in Task : PlaceOf(t)' = PlaceOf(t)
  BY <1>1, <1>2, PlaceStays, Zenon
<1>4. [t \in Task |-> PlaceOf(t)]' = [t \in Task |-> PlaceOf(t)]
  BY <1>3, Zenon
<1> QED
  BY <1>1, <1>4, Zenon

-----------------------------------------------------------------------------
(* All steps. *)

(* Every step of the engine is a step of the contract, or a stutter. *)
LEMMA ContractStep ==
  ASSUME IInv, IInv', GrantIsDurable, [Next]_vars
  PROVE  [Contract!Next]_(Contract!vars)
<1> DEFINE Quiet == UNCHANGED <<backendVars, granted, now>>
<1>1. ASSUME NEW t \in Task, Enqueue(t) PROVE Contract!Next
  BY <1>1, SubmitStep, Zenon DEF Contract!Next
<1>2. ASSUME NEW l \in Lease, NEW d \in Timeout, FetchAcquire(l, d) PROVE Contract!Next
  <2>1. l \notin issued /\ Acquire(l) /\ UNCHANGED <<granted, now>>
    BY <1>2, Zenon DEF FetchAcquire
  <2> QED
    BY <2>1, ClaimStep, Zenon DEF Contract!Next
<1>3. ASSUME NEW l \in Lease, FetchAcquireReplyLost(l) PROVE Contract!Next
  <2>1. l \notin issued /\ Acquire(l) /\ UNCHANGED <<granted, now>>
    BY <1>3, Zenon DEF FetchAcquireReplyLost
  <2> QED
    BY <2>1, ClaimStep, Zenon DEF Contract!Next
<1>4. ASSUME NEW r \in leases, AckComplete(r) \/ AckReplyLost(r)
      PROVE  Contract!Next \/ Quiet
  <2>1. r.task \in Task /\ r.id \in Ids(granted) /\ UNCHANGED <<granted, now>>
    BY <1>4, Zenon DEF AckComplete, AckReplyLost, historyVars, IInv, TypeOK, LeaseRecord
  <2>2. Complete(r.task, r.id) \/ UNCHANGED backendVars
    BY <1>4, Zenon DEF AckComplete, AckReplyLost
  <2>3. CASE Complete(r.task, r.id)
    BY <2>1, <2>3, FinishStep, Zenon DEF Contract!Next
  <2> QED
    BY <2>1, <2>2, <2>3, Zenon
<1>5. ASSUME NEW i \in Due, NEW r \in leases, ReapExpire(i, r) \/ ReapBackendFails(i, r)
      PROVE  Contract!Next \/ Quiet
  <2>1. r.task \in Task /\ r.expires <= reapNow /\ UNCHANGED <<granted, now>>
    BY <1>5, Zenon DEF ReapExpire, ReapBackendFails, Lapsed, IInv, TypeOK, LeaseRecord
  <2>2. ExpireInBackend(r) \/ UNCHANGED backendVars
    BY <1>5, Zenon DEF ReapExpire, ReapBackendFails
  <2>3. CASE ExpireInBackend(r)
    BY <2>1, <2>3, LapseStep, Zenon DEF Contract!Next
  <2> QED
    BY <2>1, <2>2, <2>3, Zenon
<1>6. CASE Recover \/ RecoverFails
  <2>1. UNCHANGED <<granted, now>>
    BY <1>6, Zenon DEF Recover, RecoverFails
  <2>2. RecoverOrphanedProcessing(ActiveLeases) \/ UNCHANGED backendVars
    BY <1>6, Zenon DEF Recover, RecoverFails
  <2>3. CASE RecoverOrphanedProcessing(ActiveLeases)
    BY <2>1, <2>3, ReconcileStep, Zenon DEF Contract!Next
  <2> QED
    BY <2>1, <2>2, <2>3, ContractStutter, Zenon DEF Contract!vars
<1>7. CASE FetchRecord
  BY <1>7, GrantStep, Zenon DEF Contract!Next
<1>8. CASE FetchHandBack
  BY <1>8, GiveBackStep, Zenon DEF Contract!Next
<1>9. CASE Tick
  <2>1. now' = now + 1 /\ UNCHANGED <<backendVars, granted>>
    BY <1>9, Zenon DEF Tick, historyVars
  <2>2. Contract!Advance
    BY <2>1, ContractStutter, Zenon DEF Contract!Advance
  <2> QED
    BY <2>2, Zenon DEF Contract!Next
<1>10. ASSUME \/ FetchRecordFails \/ FetchHandBackFails \/ AckRecord \/ AckRecordFails
              \/ \E l \in Unmatched : RestoreStale(l) \/ RestoreStaleFails(l)
              \/ RestorePublish
       PROVE  Quiet
  BY <1>10, Zenon DEF FetchRecordFails, FetchHandBackFails, AckRecord, AckRecordFails,
     RestorePublish, RestoreStale, RestoreStaleFails, historyVars
<1>11. ASSUME \/ ReapBegin \/ ReapRefused \/ ReapEnd \/ ReapRecord \/ ReapRecordFails
              \/ \E i \in Due : ReapSkip(i)
       PROVE  Quiet
  BY <1>11, Zenon DEF ReapBegin, ReapRefused, ReapEnd, ReapRecord, ReapRecordFails,
     ReapSkip, historyVars
<1>12. ASSUME Ticker \/ Crash \/ UNCHANGED vars PROVE Quiet
  BY <1>12, Zenon DEF Ticker, Crash, vars, historyVars
<1>13. Quiet => UNCHANGED Contract!vars
  BY ContractStutter, Zenon DEF Contract!vars
<1> HIDE DEF Quiet
<1> QED
  BY <1>1, <1>2, <1>3, <1>4, <1>5, <1>6, <1>7, <1>8, <1>9, <1>10, <1>11, <1>12, <1>13,
     Zenon DEF Next, Client, Continue, Reap

(* The contract starts with no task, no lease and the clock at one. *)
LEMMA ContractInitial == Init => Contract!Init
<1> SUFFICES ASSUME Init PROVE Contract!Init
  OBVIOUS
<1>1. /\ Waiting = {} /\ Held = {} /\ dead = {} /\ completed = {}
      /\ processing = [t \in Task |-> NoLease] /\ attempts = [t \in Task |-> 0]
      /\ granted = {} /\ now = 1
  BY DEF Init, BackendInit, Waiting, Held
<1>2. \A t : PlaceOf(t) = "absent"
  BY <1>1 DEF PlaceOf
<1> QED
  BY <1>1, <1>2, Zenon DEF Contract!Init

(* Every behaviour of the engine is a behaviour of the contract, through   *)
(* any sequence of errors, crashes and restarts that leaves the journal    *)
(* readable: at-least-once delivery under leases is what core.Engine does. *)
THEOREM EngineKeepsItsContract ==
  ASSUME HasJournal, "torn" \notin Faults
  PROVE  Spec => ImplementsContract
<1>1. Init => Contract!Init
  BY ContractInitial
<1>2. IInv /\ IInv' /\ GrantIsDurable /\ [Next]_vars => [Contract!Next]_(Contract!vars)
  BY ContractStep
<1>3. Spec => []IInv
  BY EngineInvariant
<1>4. Spec => []GrantIsDurable
  BY GrantsAreDurable
<1> QED
  BY <1>1, <1>2, <1>3, <1>4, PTL DEF Spec, ImplementsContract, Contract!Spec

=============================================================================
