----------------------------- MODULE CallProofs -----------------------------
(***************************************************************************)
(* The steps of Fetch, of Ack and of the reaper, a crash, the recovery     *)
(* that follows it, and the steps that concern no lease, keep the          *)
(* inductive invariant of the engine.  Each lemma first states what its    *)
(* action does to the pieces of state the invariant speaks of (the tasks   *)
(* held and their fences, the records, the heap), and then takes the       *)
(* conjuncts one by one.                                                   *)
(***************************************************************************)
EXTENDS Engine, TLAPS

(* The part of the invariant that is about leases. *)
LeaseInv ==
  /\ Identity
  /\ FenceAgrees
  /\ ClosedIsReleased
  /\ InFlightFacts
  /\ StageFacts
  /\ LeaseIsScheduled
  /\ JournalTruthful
  /\ Accounting

(* A step that changes the ready queue, the clock or the ticker, or enters *)
(* or leaves the loop of ReapExpired, concerns no lease.                   *)
LEMMA QuietStep ==
  ASSUME IInv,
         UNCHANGED <<processing, attempts, dead, completed, journalVars,
                     memoryVars, inFlight, closing, matched, historyVars>>,
         pc' = pc \/ (pc \in {"idle", "reap"} /\ pc' \in {"idle", "reap"}),
         reapNow' \in Nat, reapNow' <= now',
         pc = "reapClose" => reapNow <= reapNow'
  PROVE  LeaseInv'
<1>. USE DEF IInv, journalVars, memoryVars, historyVars
<1>1. Held' = Held /\ Live' = Live /\ AllRecords' = AllRecords
  BY Zenon DEF Held, Live, AllRecords
<1>2. Identity' /\ FenceAgrees' /\ ClosedIsReleased'
  BY <1>1, Zenon DEF Identity, FenceAgrees, ClosedIsReleased
<1>3. InFlightFacts'
  <2>1. pc = "reapClose" => \A r \in inFlight : r.expires <= reapNow'
    BY DEF InFlightFacts, TypeOK, LeaseRecord
  <2>. QED
    BY <1>1, <2>1, Zenon DEF InFlightFacts, FenceMatches
<1>4. StageFacts'
  BY <1>1, Zenon DEF StageFacts, Serving
<1>5. LeaseIsScheduled' /\ JournalTruthful' /\ Accounting'
  BY Zenon DEF LeaseIsScheduled, JournalTruthful, Accounting, RetryCap
<1>. QED
  BY <1>2, <1>3, <1>4, <1>5, Zenon DEF LeaseInv

(* What Acquire does under a fresh lease ID: the first waiting task, which *)
(* nobody held, becomes held under it.                                     *)
LEMMA AcquireFacts ==
  ASSUME IInv, NEW l \in Lease, l \notin issued, Acquire(l)
  PROVE  /\ Head(ready) \in Task \ Held
         /\ Held' = Held \cup {Head(ready)}
         /\ \A u \in Held : processing'[u] = processing[u]
         /\ processing'[Head(ready)] = l
         /\ UNCHANGED <<attempts, dead, completed>>
         /\ \A r \in AllRecords : r.id # l
         /\ l \notin Ids(closed) \cup Ids(expirations)
         /\ \A u \in Held : processing[u] # l
<1>1. ready \in Seq(Task) /\ ready # <<>> /\ 1 \in DOMAIN ready
  BY DEF Acquire, IInv, TypeOK, BackendTypeOK
<1>2. Head(ready) \in Task /\ Head(ready) \in Waiting
  BY <1>1 DEF Waiting
<1>3. Head(ready) \notin Held
  BY <1>2, Zenon DEF IInv, OnePlace
<1>4. /\ processing' = [processing EXCEPT ![Head(ready)] = l]
      /\ UNCHANGED <<attempts, dead, completed>>
  BY Zenon DEF Acquire
<1>5. /\ Held' = Held \cup {Head(ready)}
      /\ \A u \in Held : processing'[u] = processing[u]
      /\ processing'[Head(ready)] = l
  BY <1>2, <1>3, <1>4, RecordsAssumption, Zenon DEF Held, IInv, TypeOK, BackendTypeOK
<1>6. /\ \A r \in AllRecords : r.id # l
      /\ l \notin Ids(closed) \cup Ids(expirations)
      /\ \A u \in Held : processing[u] # l
  BY Zenon DEF IInv, Identity, Ids
<1>. QED
  BY <1>2, <1>3, <1>4, <1>5, <1>6, Zenon

(* Fetch after a successful Acquire: a fresh lease is in flight. *)
LEMMA InvFetchAcquire ==
  ASSUME IInv, NEW l \in Lease, NEW d \in Timeout, FetchAcquire(l, d)
  PROVE  LeaseInv'
<1>. DEFINE t == Head(ready)
            new == NewLease(l, d)
<1>0. /\ t \in Task \ Held
      /\ Held' = Held \cup {t}
      /\ \A u \in Held : processing'[u] = processing[u]
      /\ processing'[t] = l
      /\ UNCHANGED <<attempts, dead, completed>>
      /\ \A r \in AllRecords : r.id # l
      /\ l \notin Ids(closed) \cup Ids(expirations)
      /\ \A u \in Held : processing[u] # l
  BY AcquireFacts, Zenon DEF FetchAcquire
<1>1. new.id = l /\ new.task = t /\ new.attempts = attempts[t]
  BY Zenon DEF NewLease
<1>2. /\ inFlight' = {new} /\ issued' = issued \cup {l}
      /\ pc' = "fetch" /\ pc = "idle" /\ inFlight = {}
      /\ UNCHANGED <<journalVars, memoryVars, closing, matched, reapNow, now,
                     granted, abandoned, expiries>>
  BY Zenon DEF FetchAcquire, IInv, InFlightFacts
<1>. HIDE DEF t, new
<1>. USE DEF IInv, journalVars, memoryVars
<1>3. AllRecords' = AllRecords \cup {new}
  BY <1>2, Zenon DEF AllRecords
<1>4. Identity'
  BY <1>0, <1>1, <1>2, <1>3 DEF Identity, Ids
<1>5. FenceAgrees'
  BY <1>0, <1>1, <1>2 DEF FenceAgrees, AllRecords
<1>6. ClosedIsReleased'
  BY <1>0, <1>2, Zenon DEF ClosedIsReleased
<1>7. InFlightFacts'
  BY <1>0, <1>1, <1>2 DEF InFlightFacts, FenceMatches, AllRecords, Ids
<1>8. StageFacts'
  BY <1>0, <1>1, <1>2 DEF StageFacts, Serving, Ids
<1>9. LeaseIsScheduled' /\ JournalTruthful' /\ Accounting'
  BY <1>0, <1>2, Zenon DEF LeaseIsScheduled, JournalTruthful, Accounting, RetryCap
<1>. QED
  BY <1>4, <1>5, <1>6, <1>7, <1>8, <1>9, Zenon DEF LeaseInv

(* Fetch whose Acquire was applied and reported an error. *)
LEMMA InvFetchAcquireReplyLost ==
  ASSUME IInv, NEW l \in Lease, FetchAcquireReplyLost(l)
  PROVE  LeaseInv'
<1>. DEFINE t == Head(ready)
<1>0. /\ t \in Task \ Held
      /\ Held' = Held \cup {t}
      /\ \A u \in Held : processing'[u] = processing[u]
      /\ processing'[t] = l
      /\ UNCHANGED <<attempts, dead, completed>>
      /\ \A r \in AllRecords : r.id # l
      /\ l \notin Ids(closed) \cup Ids(expirations)
      /\ \A u \in Held : processing[u] # l
  BY AcquireFacts, Zenon DEF FetchAcquireReplyLost
<1>1. /\ issued' = issued \cup {l} /\ abandoned' = abandoned \cup {l}
      /\ pc = "idle" /\ inFlight = {}
      /\ UNCHANGED <<journalVars, memoryVars, callVars, now, granted, expiries>>
  BY Zenon DEF FetchAcquireReplyLost, IInv, InFlightFacts
<1>. HIDE DEF t
<1>. USE DEF IInv, journalVars, memoryVars, callVars
<1>2. AllRecords' = AllRecords
  BY <1>1, Zenon DEF AllRecords
<1>3. Identity'
  BY <1>0, <1>1, <1>2, Zenon DEF Identity
<1>4. FenceAgrees'
  BY <1>0, <1>1 DEF FenceAgrees, AllRecords
<1>5. ClosedIsReleased'
  BY <1>0, <1>1, Zenon DEF ClosedIsReleased
<1>6. InFlightFacts'
  BY <1>1, Zenon DEF InFlightFacts, Ids
<1>7. StageFacts'
  BY <1>0, <1>1, Zenon DEF StageFacts, Serving
<1>8. LeaseIsScheduled' /\ JournalTruthful' /\ Accounting'
  BY <1>0, <1>1, Zenon DEF LeaseIsScheduled, JournalTruthful, Accounting, RetryCap
<1>. QED
  BY <1>3, <1>4, <1>5, <1>6, <1>7, <1>8, Zenon DEF LeaseInv

(* Complete, Requeue and DeadLetter end the claim of one lease: its task   *)
(* is no longer held, and no other task carries that lease.                *)
LEMMA ReleaseFacts ==
  ASSUME IInv, NEW r \in leases \cup inFlight,
         FenceMatches(r.task, r.id), Release(r.task)
  PROVE  /\ r.task \in Task /\ r.task \in Held
         /\ r.attempts = attempts[r.task] /\ r.attempts \in Nat
         /\ Held' = Held \ {r.task}
         /\ \A u \in Held' : processing'[u] = processing[u]
         /\ \A u \in Held' : processing'[u] # r.id
<1>1. r \in LeaseRecord
  BY Zenon DEF IInv, TypeOK
<1>2. r.task \in Task /\ r.id \in Lease /\ r.attempts \in Nat
  BY <1>1, Zenon DEF LeaseRecord
<1>3. r.task \in Held
  BY <1>2, RecordsAssumption, Zenon DEF FenceMatches, Held
<1>4. Held' = Held \ {r.task} /\ \A u \in Held' : processing'[u] = processing[u]
  BY <1>2, Zenon DEF Release, Held, IInv, TypeOK, BackendTypeOK
<1>5. r.attempts = attempts[r.task] /\ \A u \in Held' : processing'[u] # r.id
  BY <1>3, <1>4 DEF IInv, FenceAgrees, FenceMatches
<1>. QED
  BY <1>2, <1>3, <1>4, <1>5, Zenon

(* The closing records stay true while counters grow and ends are final. *)
LEMMA TruthfulKept ==
  ASSUME IInv, UNCHANGED journalVars,
         dead \subseteq dead', completed \subseteq completed',
         \A u \in Task : attempts[u] \in Nat /\ attempts'[u] \in Nat,
         \A u \in Task : attempts'[u] >= attempts[u]
  PROVE  JournalTruthful'
<1>1. \A s \in opened : s.task \in Task /\ s.attempts \in Nat
  BY Zenon DEF IInv, TypeOK, JournalTypeOK, LeaseRecord
<1>2. \A s \in opened : attempts[s.task] > s.attempts => attempts'[s.task] > s.attempts
  BY <1>1
<1>. QED
  BY <1>2, Zenon DEF IInv, JournalTruthful, journalVars

(* A fetch record, appended with or without success. *)
LEMMA OpenFacts ==
  ASSUME NEW r, AppendFetch(r) \/ AppendFails(AppendFetch(r))
  PROVE  /\ closed' = closed
         /\ opened' \in {opened, opened \cup {r}}
BY Zenon DEF AppendFetch, AppendFails, AppendNothing, AppendHalf, journalVars

(* Fetch journals the lease and publishes it in the map and the heap. *)
LEMMA InvFetchRecord ==
  ASSUME IInv, FetchRecord
  PROVE  LeaseInv'
<1>1. PICK r \in inFlight : 
        /\ AppendFetch(r)
        /\ leases' = leases \cup {r}
        /\ expirations' = expirations \cup Schedule(r.id, r.expires)
        /\ granted' = granted \cup {r}
  BY Zenon DEF FetchRecord
<1>2. /\ closed' = closed /\ opened' \in {opened, opened \cup {r}}
      /\ pc = "fetch" /\ pc' = "idle" /\ inFlight' = {} /\ inFlight = {r}
      /\ UNCHANGED <<backendVars, matched, reapNow, now, issued, abandoned, expiries>>
  BY <1>1, OpenFacts DEF FetchRecord, Unlock, IInv, InFlightFacts
<1>3. /\ FenceMatches(r.task, r.id) /\ r.task \in Task /\ r.id \in Lease
      /\ r.expires \in Nat
      /\ r.id \notin Ids(granted) \cup Ids(leases) \cup Ids(expirations)
  BY <1>1, <1>2, Zenon DEF IInv, InFlightFacts, TypeOK, LeaseRecord
<1>4. r.task \in Held
  BY <1>3, RecordsAssumption, Zenon DEF FenceMatches, Held
<1>5. r.id \notin Ids(closed)
  BY <1>3, <1>4, Zenon DEF IInv, ClosedIsReleased, FenceMatches
<1>. USE DEF IInv, backendVars
<1>6. Held' = Held /\ AllRecords' = AllRecords
  BY <1>1, <1>2, Zenon DEF Held, AllRecords
<1>7. \A i \in expirations' : i \in expirations \/ i.id = r.id
  BY <1>1 DEF Schedule
<1>8. Identity'
  BY <1>1, <1>2, <1>6, <1>7 DEF Identity, AllRecords, Ids
<1>9. FenceAgrees'
  BY <1>1, <1>2, <1>6 DEF FenceAgrees
<1>10. ClosedIsReleased'
  BY <1>2, <1>6, Zenon DEF ClosedIsReleased
<1>11. InFlightFacts'
  BY <1>2, Zenon DEF InFlightFacts, Ids
<1>12. StageFacts'
  BY <1>1, <1>2, <1>6 DEF StageFacts, Serving, Ids
<1>13. LeaseIsScheduled'
  <2>1. [id |-> r.id, expires |-> r.expires] \in expirations'
    BY <1>1, Zenon DEF Schedule
  <2>2. \A i, j \in expirations' : i.id = j.id => i = j
    BY <1>1, <1>3 DEF LeaseIsScheduled, Schedule, Ids
  <2>3. \A s \in leases' : \E i \in expirations' : i.id = s.id /\ i.expires >= s.expires
    BY <1>1, <1>2, <1>3, <2>1 DEF LeaseIsScheduled
  <2>. QED
    BY <2>2, <2>3, Zenon DEF LeaseIsScheduled
<1>14. JournalTruthful' /\ Accounting'
  BY <1>2, <1>5, Zenon DEF JournalTruthful, Accounting, RetryCap, Ids
<1>. QED
  BY <1>8, <1>9, <1>10, <1>11, <1>12, <1>13, <1>14, Zenon DEF LeaseInv

(* Fetch whose append failed: the record is in the file or is not. *)
LEMMA InvFetchRecordFails ==
  ASSUME IInv, FetchRecordFails
  PROVE  LeaseInv'
<1>1. PICK r \in inFlight : AppendFails(AppendFetch(r))
  BY Zenon DEF FetchRecordFails
<1>2. /\ closed' = closed /\ opened' \in {opened, opened \cup {r}}
      /\ pc = "fetch" /\ pc' = "handback" /\ inFlight = {r}
      /\ UNCHANGED <<backendVars, memoryVars, inFlight, closing, matched,
                     reapNow, now, historyVars>>
  BY <1>1, OpenFacts, Zenon DEF FetchRecordFails, IInv, InFlightFacts
<1>3. FenceMatches(r.task, r.id) /\ r.task \in Task /\ r.id \in Lease
  BY <1>1, <1>2, Zenon DEF IInv, InFlightFacts, TypeOK, LeaseRecord
<1>4. r.task \in Held
  BY <1>3, RecordsAssumption, Zenon DEF FenceMatches, Held
<1>5. r.id \notin Ids(closed)
  BY <1>3, <1>4, Zenon DEF IInv, ClosedIsReleased, FenceMatches
<1>. USE DEF IInv, backendVars, memoryVars, historyVars
<1>6. Held' = Held /\ AllRecords' = AllRecords
  BY <1>2, Zenon DEF Held, AllRecords
<1>7. Identity' /\ ClosedIsReleased'
  BY <1>2, <1>6, Zenon DEF Identity, ClosedIsReleased
<1>8. FenceAgrees'
  BY <1>2, <1>6 DEF FenceAgrees
<1>9. InFlightFacts'
  BY <1>2, Zenon DEF InFlightFacts, FenceMatches
<1>10. StageFacts'
  BY <1>2, <1>6, Zenon DEF StageFacts, Serving
<1>11. LeaseIsScheduled' /\ Accounting'
  BY <1>2, Zenon DEF LeaseIsScheduled, Accounting, RetryCap
<1>12. JournalTruthful'
  BY <1>2, <1>5 DEF JournalTruthful, Ids
<1>. QED
  BY <1>7, <1>8, <1>9, <1>10, <1>11, <1>12, Zenon DEF LeaseInv

(* Fetch could not hand the claim back: it is abandoned. *)
LEMMA InvFetchHandBackFails ==
  ASSUME IInv, FetchHandBackFails
  PROVE  LeaseInv'
<1>1. /\ abandoned' = abandoned \cup Ids(inFlight)
      /\ pc = "handback" /\ pc' = "idle" /\ inFlight' = {}
      /\ UNCHANGED <<backendVars, journalVars, memoryVars, matched, reapNow,
                     now, issued, granted, expiries>>
  BY Zenon DEF FetchHandBackFails, Unlock
<1>. USE DEF IInv, backendVars, journalVars, memoryVars
<1>2. /\ Held' = Held
      /\ AllRecords' \subseteq AllRecords
  <2>1. Held' = Held
    BY <1>1, Zenon DEF Held
  <2>2. AllRecords' \subseteq AllRecords
    BY <1>1, Zenon DEF AllRecords
  <2>. QED
    BY <2>1, <2>2, Zenon
<1>3. Identity'
  BY <1>1, <1>2, Zenon DEF Identity, Ids
<1>4. FenceAgrees' /\ ClosedIsReleased'
  BY <1>1, <1>2 DEF FenceAgrees, ClosedIsReleased
<1>5. InFlightFacts'
  BY <1>1, Zenon DEF InFlightFacts, Ids
<1>6. StageFacts'
  BY <1>1, <1>2, Zenon DEF StageFacts, Serving, Ids
<1>7. LeaseIsScheduled' /\ JournalTruthful' /\ Accounting'
  BY <1>1, Zenon DEF LeaseIsScheduled, JournalTruthful, Accounting, RetryCap
<1>. QED
  BY <1>3, <1>5, <1>6, <1>7, <1>4, Zenon DEF LeaseInv

(* Fetch hands the claim back, with one attempt charged. *)
LEMMA InvFetchHandBack ==
  ASSUME IInv, FetchHandBack
  PROVE  LeaseInv'
<1>1. PICK r \in inFlight : Requeue(r.task, r.id)
  BY Zenon DEF FetchHandBack
<1>2. /\ pc = "handback" /\ pc' = "idle" /\ inFlight' = {} /\ inFlight = {r}
      /\ UNCHANGED <<journalVars, memoryVars, matched, reapNow, now, historyVars,
                     dead, completed>>
  BY <1>1, Zenon DEF FetchHandBack, Requeue, Unlock, IInv, InFlightFacts
<1>3. /\ r.task \in Task /\ r.task \in Held
      /\ Held' = Held \ {r.task}
      /\ \A u \in Held' : processing'[u] = processing[u]
      /\ \A u \in Held' : processing'[u] # r.id
  BY <1>1, ReleaseFacts, Zenon DEF Requeue
<1>4. /\ \A u \in Held' : attempts'[u] = attempts[u]
      /\ \A u \in Task : attempts'[u] >= attempts[u]
      /\ attempts \in [Task -> Nat] /\ attempts' \in [Task -> Nat]
  BY <1>1, <1>3 DEF Requeue, Charge, Held, IInv, TypeOK, BackendTypeOK
<1>. USE DEF IInv, journalVars, memoryVars, historyVars
<1>5. AllRecords' \subseteq AllRecords
  BY <1>2, Zenon DEF AllRecords
<1>6. Identity'
  BY <1>2, <1>3, <1>5, Zenon DEF Identity, Ids
<1>7. FenceAgrees' /\ ClosedIsReleased'
  BY <1>2, <1>3, <1>4 DEF FenceAgrees, ClosedIsReleased
<1>8. InFlightFacts'
  BY <1>2, Zenon DEF InFlightFacts, Ids
<1>9. StageFacts'
  BY <1>2, <1>3 DEF StageFacts, Serving, Ids
<1>10. LeaseIsScheduled'
  BY <1>2, Zenon DEF LeaseIsScheduled
<1>11. JournalTruthful'
  BY <1>2, <1>4, TruthfulKept, Zenon
<1>12. Accounting'
  BY <1>2, <1>4, EngineAssumption DEF Accounting, RetryCap, TypeOK
<1>. QED
  BY <1>6, <1>7, <1>8, <1>9, <1>10, <1>11, <1>12, Zenon DEF LeaseInv


-----------------------------------------------------------------------------
(* Ack past its backend call, which was applied or found the fence gone. *)
LEMMA InvAckComplete ==
  ASSUME IInv, NEW r \in leases, AckComplete(r)
  PROVE  LeaseInv'
<1>1. /\ pc = "idle" /\ pc' = "ackClose" /\ inFlight' = {r} /\ inFlight = {}
      /\ UNCHANGED <<journalVars, memoryVars, matched, reapNow, now,
                     historyVars, attempts, dead>>
  BY Zenon DEF AckComplete, IInv, InFlightFacts, Complete, backendVars
<1>2. /\ r \in AllRecords /\ r.id \in Lease /\ r.task \in Task
  BY Zenon DEF AllRecords, IInv, TypeOK, LeaseRecord
<1>3. /\ Held' \subseteq Held
      /\ \A u \in Held' : processing'[u] = processing[u]
      /\ \A u \in Held' : processing'[u] # r.id
      /\ completed \subseteq completed'
      /\ closing' = "ack" => r.task \in completed'
      /\ closing' \in {"ack", "stale"}
  <2>1. CASE Complete(r.task, r.id) /\ closing' = "ack"
    BY <2>1, ReleaseFacts, Zenon DEF Complete
  <2>2. CASE ~FenceMatches(r.task, r.id) /\ closing' = "stale" /\ UNCHANGED backendVars
    <3>1. Held' = Held /\ processing' = processing /\ completed' = completed
      BY <2>2, Zenon DEF backendVars, Held
    <3>2. \A u \in Held : processing[u] # r.id
      BY <2>2, Zenon DEF IInv, FenceAgrees, FenceMatches
    <3>. QED
      BY <2>2, <3>1, <3>2, Zenon
  <2>. QED
    BY <2>1, <2>2, Zenon DEF AckComplete
<1>. USE DEF IInv, journalVars, memoryVars, historyVars
<1>4. AllRecords' = AllRecords
  BY <1>1, <1>2, Zenon DEF AllRecords
<1>5. Identity'
  BY <1>1, <1>3, <1>4, Zenon DEF Identity
<1>6. FenceAgrees' /\ ClosedIsReleased'
  BY <1>1, <1>3 DEF FenceAgrees, ClosedIsReleased
<1>7. InFlightFacts'
  BY <1>1, <1>3, Zenon DEF InFlightFacts
<1>8. StageFacts'
  BY <1>1, <1>3, Zenon DEF StageFacts, Serving, Ids
<1>9. LeaseIsScheduled' /\ Accounting'
  BY <1>1, Zenon DEF LeaseIsScheduled, Accounting, RetryCap
<1>10. JournalTruthful'
  BY <1>1, <1>3, Zenon DEF JournalTruthful
<1>. QED
  BY <1>5, <1>6, <1>7, <1>8, <1>9, <1>10, Zenon DEF LeaseInv

(* Ack whose Complete was applied and reported an error. *)
LEMMA InvAckReplyLost ==
  ASSUME IInv, NEW r \in leases, AckReplyLost(r)
  PROVE  LeaseInv'
<1>1. /\ pc = "idle" /\ inFlight = {}
      /\ UNCHANGED <<journalVars, memoryVars, callVars, now, historyVars,
                     attempts, dead>>
  BY Zenon DEF AckReplyLost, IInv, InFlightFacts, Complete
<1>2. /\ Held' \subseteq Held
      /\ \A u \in Held' : processing'[u] = processing[u]
      /\ completed \subseteq completed'
  BY ReleaseFacts, Zenon DEF AckReplyLost, Complete
<1>. USE DEF IInv, journalVars, memoryVars, callVars, historyVars
<1>3. AllRecords' = AllRecords
  BY <1>1, Zenon DEF AllRecords
<1>4. Identity'
  BY <1>1, <1>2, <1>3, Zenon DEF Identity
<1>5. FenceAgrees' /\ ClosedIsReleased'
  BY <1>1, <1>2 DEF FenceAgrees, ClosedIsReleased
<1>6. InFlightFacts'
  BY <1>1, Zenon DEF InFlightFacts, Ids
<1>7. StageFacts'
  BY <1>1, <1>2, Zenon DEF StageFacts, Serving
<1>8. LeaseIsScheduled' /\ Accounting'
  BY <1>1, Zenon DEF LeaseIsScheduled, Accounting, RetryCap
<1>9. JournalTruthful'
  BY <1>1, <1>2, Zenon DEF JournalTruthful
<1>. QED
  BY <1>4, <1>5, <1>6, <1>7, <1>8, <1>9, Zenon DEF LeaseInv

(* A closing record, appended with or without success. *)
LEMMA CloseFacts ==
  ASSUME NEW op, NEW l,
         AppendClose(op, l) \/ AppendFails(AppendClose(op, l))
  PROVE  /\ opened' = opened
         /\ closed' \in {closed, closed \cup {[op |-> op, id |-> l]}}
BY Zenon DEF AppendClose, AppendFails, AppendNothing, AppendHalf, journalVars

(* What a closing record of the lease in flight does to the journal        *)
(* properties: the backend has released the lease before.                  *)
LEMMA CloseInFlight ==
  ASSUME IInv, pc \in {"ackClose", "reapClose"}, NEW r \in inFlight,
         \/ AppendClose(closing, r.id)
         \/ AppendFails(AppendClose(closing, r.id)),
         UNCHANGED <<backendVars, issued, granted, abandoned, expiries>>
  PROVE  /\ opened' = opened
         /\ Held' = Held /\ processing' = processing /\ attempts' = attempts
         /\ dead' = dead
         /\ inFlight = {r} /\ r \in leases /\ r \in AllRecords
         /\ \A t \in Held : processing[t] # r.id
         /\ Ids(closed)' \subseteq issued'
         /\ ClosedIsReleased' /\ JournalTruthful' /\ Accounting'
<1>1. /\ opened' = opened
      /\ closed' \in {closed, closed \cup {[op |-> closing, id |-> r.id]}}
  BY CloseFacts, Zenon
<1>2. /\ Held' = Held /\ processing' = processing /\ attempts' = attempts
      /\ dead' = dead /\ completed' = completed
  BY Zenon DEF Held, backendVars
<1>3. /\ inFlight = {r} /\ r \in leases
      /\ \A t \in Held : processing[t] # r.id
      /\ closing = "ack" => r.task \in completed
      /\ closing = "dead_letter" => r.task \in dead
      /\ closing = "expire" => attempts[r.task] > r.attempts
  BY Zenon DEF IInv, InFlightFacts
<1>4. r \in AllRecords /\ r.id \in issued
  BY <1>3, Zenon DEF AllRecords, IInv, Identity, Ids
<1>. USE DEF IInv
<1>5. \A c \in closed' : c \in closed \/ (c.id = r.id /\ c.op = closing)
  BY <1>1
<1>6. Ids(closed)' \subseteq issued'
  BY <1>4, <1>5, Zenon DEF Identity, Ids
<1>7. ClosedIsReleased'
  BY <1>2, <1>3, <1>5, Zenon DEF ClosedIsReleased, Ids
<1>8. JournalTruthful'
  <2>1. \A s \in opened : s.id = r.id => s = r
    BY <1>4, Zenon DEF Identity, AllRecords
  <2>. QED
    BY <1>1, <1>2, <1>3, <1>5, <2>1, Zenon DEF JournalTruthful
<1>9. Accounting'
  BY <1>2, Zenon DEF Accounting, RetryCap
<1>. QED
  BY <1>1, <1>2, <1>3, <1>4, <1>6, <1>7, <1>8, <1>9, Zenon

(* The end of Ack and of expireLease: the closing record is written and    *)
(* the lease leaves the map.                                               *)
LEMMA InvCloseRecord ==
  ASSUME IInv, AckRecord \/ ReapRecord
  PROVE  LeaseInv'
<1>1. /\ pc \in {"ackClose", "reapClose"} /\ pc' \in {"idle", "reap"}
      /\ inFlight' = {}
      /\ UNCHANGED <<backendVars, expirations, matched, reapNow, now, historyVars>>
  BY Zenon DEF AckRecord, ReapRecord, Unlock
<1>2. PICK r \in inFlight : AppendClose(closing, r.id) /\ Forget(r.id)
  BY Zenon DEF AckRecord, ReapRecord
<1>3. /\ opened' = opened
      /\ Held' = Held /\ processing' = processing /\ attempts' = attempts
      /\ inFlight = {r} /\ r \in leases
      /\ \A t \in Held : processing[t] # r.id
      /\ Ids(closed)' \subseteq issued'
      /\ ClosedIsReleased' /\ JournalTruthful' /\ Accounting'
  BY <1>1, <1>2, CloseInFlight, Zenon DEF historyVars
<1>4. /\ leases' \subseteq leases
      /\ \A s \in leases : s \in leases' \/ s.id = r.id
      /\ \A s \in leases' : s.id # r.id
  BY <1>2, Zenon DEF Forget
<1>. USE DEF IInv, historyVars
<1>5. AllRecords' \subseteq AllRecords
  BY <1>1, <1>3, <1>4, Zenon DEF AllRecords
<1>6. Identity'
  BY <1>1, <1>3, <1>5, Zenon DEF Identity, Ids
<1>7. FenceAgrees'
  BY <1>1, <1>3, <1>4 DEF FenceAgrees
<1>8. InFlightFacts'
  BY <1>1, Zenon DEF InFlightFacts, Ids
<1>9. StageFacts'
  <2>1. \A t \in Held : processing[t] \in Ids(leases) \cup abandoned
    BY <1>1, <1>3, Zenon DEF StageFacts, Serving, Ids
  <2>2. \A t \in Held : processing[t] \in Ids(leases') \cup abandoned
    BY <1>3, <1>4, <2>1, Zenon DEF Ids
  <2>. QED
    BY <1>1, <1>3, <2>2, Zenon DEF StageFacts, Serving
<1>10. LeaseIsScheduled'
  BY <1>1, <1>3, <1>4, Zenon DEF LeaseIsScheduled
<1>. QED
  BY <1>3, <1>6, <1>7, <1>8, <1>9, <1>10, Zenon DEF LeaseInv

(* Ack could not journal: the lease stays in the map. *)
LEMMA InvAckRecordFails ==
  ASSUME IInv, AckRecordFails
  PROVE  LeaseInv'
<1>1. /\ pc = "ackClose" /\ pc' = "idle" /\ inFlight' = {}
      /\ UNCHANGED <<backendVars, memoryVars, matched, reapNow, now, historyVars>>
  BY Zenon DEF AckRecordFails, Unlock
<1>2. PICK r \in inFlight : AppendFails(AppendClose(closing, r.id))
  BY Zenon DEF AckRecordFails
<1>3. /\ opened' = opened
      /\ Held' = Held /\ processing' = processing /\ attempts' = attempts
      /\ inFlight = {r} /\ r \in leases
      /\ Ids(closed)' \subseteq issued'
      /\ ClosedIsReleased' /\ JournalTruthful' /\ Accounting'
  BY <1>1, <1>2, CloseInFlight, Zenon DEF historyVars
<1>. USE DEF IInv, historyVars, memoryVars
<1>5. AllRecords' \subseteq AllRecords
  BY <1>1, <1>3, Zenon DEF AllRecords
<1>6. Identity'
  BY <1>1, <1>3, <1>5, Zenon DEF Identity, Ids
<1>7. FenceAgrees'
  BY <1>1, <1>3 DEF FenceAgrees
<1>8. InFlightFacts'
  BY <1>1, Zenon DEF InFlightFacts, Ids
<1>9. StageFacts'
  BY <1>1, <1>3, Zenon DEF StageFacts, Serving, Ids
<1>10. LeaseIsScheduled'
  BY <1>1, <1>3, Zenon DEF LeaseIsScheduled
<1>. QED
  BY <1>3, <1>6, <1>7, <1>8, <1>9, <1>10, Zenon DEF LeaseInv

(* expireLease could not journal: the item goes back on the heap. *)
LEMMA InvReapRecordFails ==
  ASSUME IInv, ReapRecordFails
  PROVE  LeaseInv'
<1>1. /\ pc = "reapClose" /\ pc' = "idle" /\ inFlight' = {} /\ reapNow' = NoTick
      /\ UNCHANGED <<backendVars, leases, matched, now, historyVars>>
  BY Zenon DEF ReapRecordFails, EndReap
<1>2. PICK r \in inFlight :
        /\ AppendFails(AppendClose(closing, r.id))
        /\ expirations' = expirations \cup Schedule(r.id, reapNow + RetryDelay)
  BY Zenon DEF ReapRecordFails
<1>3. /\ opened' = opened
      /\ Held' = Held /\ processing' = processing /\ attempts' = attempts
      /\ inFlight = {r} /\ r \in leases /\ r \in AllRecords
      /\ Ids(closed)' \subseteq issued'
      /\ ClosedIsReleased' /\ JournalTruthful' /\ Accounting'
  BY <1>1, <1>2, CloseInFlight, Zenon DEF historyVars
<1>. USE DEF IInv, historyVars
<1>4. \A i \in expirations' : i \in expirations \/ i.id = r.id
  BY <1>2 DEF Schedule
<1>5. AllRecords' \subseteq AllRecords
  BY <1>1, <1>3, Zenon DEF AllRecords
<1>6. Identity'
  BY <1>1, <1>3, <1>4, <1>5 DEF Identity, Ids
<1>7. FenceAgrees'
  BY <1>1, <1>3 DEF FenceAgrees
<1>8. InFlightFacts'
  BY <1>1, Zenon DEF InFlightFacts, Ids
<1>9. StageFacts'
  <2>1. \A t \in Held : processing[t] \in Ids(leases) \cup abandoned
    BY <1>1, <1>3, Zenon DEF StageFacts, Serving, Ids
  <2>. QED
    BY <1>1, <1>3, <2>1 DEF StageFacts, Serving, NoTick, TypeOK
<1>10. LeaseIsScheduled'
  <2>1. [id |-> r.id, expires |-> reapNow + RetryDelay] \in expirations'
    BY <1>2, Zenon DEF Schedule
  <2>2. r.expires <= reapNow /\ r.id \notin Ids(expirations)
    BY <1>1, <1>3, Zenon DEF InFlightFacts, Ids
  <2>3. reapNow + RetryDelay >= r.expires
    BY <1>3, <2>2, EngineAssumption DEF TypeOK, LeaseRecord
  <2>4. \A i, j \in expirations' : i.id = j.id => i = j
    BY <1>2, <2>2 DEF LeaseIsScheduled, Schedule, Ids
  <2>5. \A s \in leases : s = r \/ \E i \in expirations : i.id = s.id /\ i.expires >= s.expires
    BY <1>3, Zenon DEF LeaseIsScheduled
  <2>6. \A s \in leases : \E i \in expirations' : i.id = s.id /\ i.expires >= s.expires
    BY <1>2, <2>1, <2>3, <2>5, Zenon
  <2>. QED
    BY <1>1, <2>4, <2>6, Zenon DEF LeaseIsScheduled
<1>. QED
  BY <1>3, <1>6, <1>7, <1>8, <1>9, <1>10, Zenon DEF LeaseInv

-----------------------------------------------------------------------------
(* The reaper, a crash, and newEngine after it. *)

(* A popped item without a lapsed lease was not the item of a lease. *)
LEMMA InvReapSkip ==
  ASSUME IInv, NEW i \in Due, ReapSkip(i)
  PROVE  LeaseInv'
<1>1. /\ pc = "reap" /\ Lapsed(i) = {} /\ expirations' = expirations \ {i}
      /\ UNCHANGED <<backendVars, journalVars, leases, callVars, now, historyVars>>
  BY Zenon DEF ReapSkip
<1>2. i \in expirations /\ i.expires <= reapNow
  BY Zenon DEF Due
<1>. USE DEF IInv, backendVars, journalVars, callVars, historyVars
<1>3. Held' = Held /\ AllRecords' = AllRecords /\ inFlight = {}
  BY <1>1, Zenon DEF Held, AllRecords, InFlightFacts
<1>4. Identity'
  BY <1>1, <1>3, Zenon DEF Identity, Ids
<1>5. FenceAgrees' /\ ClosedIsReleased'
  BY <1>1, <1>3 DEF FenceAgrees, ClosedIsReleased
<1>6. InFlightFacts'
  BY <1>1, <1>3, Zenon DEF InFlightFacts, Ids
<1>7. StageFacts'
  BY <1>1, <1>3, Zenon DEF StageFacts, Serving
<1>8. LeaseIsScheduled'
  <2>1. ASSUME NEW r \in leases
        PROVE  \E j \in expirations' : j.id = r.id /\ j.expires >= r.expires
    <3>1. PICK j \in expirations : j.id = r.id /\ j.expires >= r.expires
      BY <1>1, Zenon DEF LeaseIsScheduled
    <3>2. j # i
      BY <1>1, <1>2, <3>1 DEF Lapsed, TypeOK, LeaseRecord, ExpirationItem
    <3>. QED
      BY <1>1, <3>1, <3>2, Zenon
  <2>. QED
    BY <1>1, <2>1, Zenon DEF LeaseIsScheduled
<1>9. JournalTruthful' /\ Accounting'
  BY <1>1, Zenon DEF JournalTruthful, Accounting, RetryCap
<1>. QED
  BY <1>4, <1>5, <1>6, <1>7, <1>8, <1>9, Zenon DEF LeaseInv

(* The backend half of expireLease.  The cached attempt counter that       *)
(* decides about the dead letter is the one the backend holds, so the cap  *)
(* is kept.                                                                *)
LEMMA ExpireFacts ==
  ASSUME IInv, NEW r \in leases, ExpireInBackend(r)
  PROVE  /\ Held' \subseteq Held
         /\ \A u \in Held' : processing'[u] = processing[u]
         /\ \A u \in Held' : attempts'[u] = attempts[u]
         /\ \A u \in Held' : processing'[u] # r.id
         /\ \A u \in Task : attempts[u] \in Nat /\ attempts'[u] \in Nat
         /\ \A u \in Task : attempts'[u] >= attempts[u]
         /\ dead \subseteq dead' /\ completed' = completed
         /\ attempts'[r.task] > r.attempts
         /\ ExpireOp(r) = "dead_letter" => r.task \in dead'
         /\ ExpireOp(r) \in {"dead_letter", "expire"}
         /\ Accounting'
<1>1. /\ FenceMatches(r.task, r.id) /\ Release(r.task) /\ Charge(r.task)
      /\ completed' = completed /\ dead \subseteq dead'
      /\ expiries' = [expiries EXCEPT ![r.task] = @ + 1]
  BY Zenon DEF ExpireInBackend, CountExpiry, DeadLetter, Requeue
<1>2. ExpireOp(r) = "dead_letter" <=> ShouldDeadLetter(r)
  BY Zenon DEF ExpireOp
<1>3. ShouldDeadLetter(r) => r.task \in dead'
  BY Zenon DEF ExpireInBackend, DeadLetter
<1>4. /\ r.task \in Task /\ r.attempts = attempts[r.task] /\ r.attempts \in Nat
      /\ Held' = Held \ {r.task}
      /\ \A u \in Held' : processing'[u] = processing[u]
      /\ \A u \in Held' : processing'[u] # r.id
  BY <1>1, ReleaseFacts, Zenon
<1>5. /\ attempts \in [Task -> Nat] /\ expiries \in [Task -> Nat]
      /\ attempts' = [attempts EXCEPT ![r.task] = @ + 1]
  BY <1>1, Zenon DEF IInv, TypeOK, BackendTypeOK, Charge
<1>6. /\ \A u \in Task : attempts[u] \in Nat /\ attempts'[u] \in Nat
      /\ \A u \in Task : attempts'[u] >= attempts[u]
      /\ \A u \in Held' : attempts'[u] = attempts[u]
      /\ attempts'[r.task] > r.attempts
  BY <1>4, <1>5 DEF Held
<1>7. \A u \in Task : expiries'[u] <= attempts'[u]
  BY <1>1, <1>4, <1>5 DEF IInv, Accounting
<1>8. RetryCap'
  <2>1. SUFFICES ASSUME MaxAttempts > 0, NEW t \in Task, expiries'[t] >= MaxAttempts
                 PROVE  t \in dead'
    BY Zenon DEF RetryCap
  <2>2. CASE t # r.task
    BY <1>1, <1>5, <2>1, <2>2, Zenon DEF IInv, Accounting, RetryCap
  <2>3. CASE t = r.task
    <3>1. expiries'[t] = expiries[t] + 1 /\ expiries[t] <= r.attempts
      BY <1>1, <1>4, <1>5, <2>3, Zenon DEF IInv, Accounting
    <3>2. r.attempts + 1 >= MaxAttempts
      BY <1>4, <1>5, <2>1, <3>1, EngineAssumption
    <3>. QED
      BY <1>3, <2>1, <2>3, <3>2, Zenon DEF ShouldDeadLetter
  <2>. QED
    BY <2>2, <2>3, Zenon
<1>9. ExpireOp(r) \in {"dead_letter", "expire"}
  BY Zenon DEF ExpireOp
<1>. QED
  BY <1>1, <1>2, <1>3, <1>4, <1>6, <1>7, <1>8, <1>9, Zenon DEF Accounting

(* expireLease past its backend call, which was applied or found the fence *)
(* gone.                                                                   *)
LEMMA InvReapExpire ==
  ASSUME IInv, NEW i \in Due, NEW r \in leases, ReapExpire(i, r)
  PROVE  LeaseInv'
<1>1. /\ pc = "reap" /\ pc' = "reapClose" /\ inFlight' = {r} /\ inFlight = {}
      /\ expirations' = expirations \ {i}
      /\ UNCHANGED <<journalVars, leases, matched, reapNow, now, issued, granted,
                     abandoned>>
  BY Zenon DEF ReapExpire, IInv, InFlightFacts
<1>2. /\ i \in expirations /\ i.id = r.id /\ r.expires <= reapNow
  BY Zenon DEF Due, ReapExpire, Lapsed
<1>3. /\ Held' \subseteq Held
      /\ \A u \in Held' : processing'[u] = processing[u]
      /\ \A u \in Held' : attempts'[u] = attempts[u]
      /\ \A u \in Held' : processing'[u] # r.id
      /\ \A u \in Task : attempts[u] \in Nat /\ attempts'[u] \in Nat
      /\ \A u \in Task : attempts'[u] >= attempts[u]
      /\ dead \subseteq dead' /\ completed' = completed
      /\ closing' # "ack"
      /\ closing' = "dead_letter" => r.task \in dead'
      /\ closing' = "expire" => attempts'[r.task] > r.attempts
      /\ Accounting'
  <2>1. CASE ExpireInBackend(r) /\ closing' = ExpireOp(r)
    BY <2>1, ExpireFacts, Zenon
  <2>2. CASE ~FenceMatches(r.task, r.id) /\ closing' = "stale"
             /\ UNCHANGED <<backendVars, expiries>>
    <3>1. /\ Held' = Held /\ processing' = processing /\ completed' = completed
          /\ attempts' = attempts /\ dead' = dead
      BY <2>2, Zenon DEF backendVars, Held
    <3>2. \A u \in Held : processing[u] # r.id
      BY <2>2, Zenon DEF IInv, FenceAgrees, FenceMatches
    <3>3. \A u \in Task : attempts[u] \in Nat
      BY Zenon DEF IInv, TypeOK, BackendTypeOK
    <3>4. Accounting'
      BY <2>2, <3>1, Zenon DEF IInv, Accounting, RetryCap
    <3>. QED
      BY <2>2, <3>1, <3>2, <3>3, <3>4
  <2>. QED
    BY <2>1, <2>2, Zenon DEF ReapExpire
<1>. USE DEF IInv, journalVars
<1>4. AllRecords' = AllRecords
  BY <1>1, Zenon DEF AllRecords
<1>5. Identity'
  BY <1>1, <1>3, <1>4, Zenon DEF Identity, Ids
<1>6. FenceAgrees' /\ ClosedIsReleased'
  BY <1>1, <1>3 DEF FenceAgrees, ClosedIsReleased
<1>7. \A j \in expirations' : j.id # r.id
  BY <1>1, <1>2, Zenon DEF LeaseIsScheduled
<1>8. InFlightFacts'
  BY <1>1, <1>2, <1>3, <1>7 DEF InFlightFacts, Ids
<1>9. StageFacts'
  BY <1>1, <1>3, Zenon DEF StageFacts, Serving, Ids
<1>10. LeaseIsScheduled'
  <2>1. \A s \in leases : s = r \/ s.id # r.id
    BY Zenon DEF Identity, AllRecords
  <2>. QED
    BY <1>1, <1>2, <2>1, Zenon DEF LeaseIsScheduled
<1>11. JournalTruthful'
  BY <1>1, <1>3, TruthfulKept, Zenon
<1>. QED
  BY <1>3, <1>5, <1>6, <1>8, <1>9, <1>10, <1>11, Zenon DEF LeaseInv

(* expireLease whose backend call returned an error, applied or not. *)
LEMMA InvReapBackendFails ==
  ASSUME IInv, NEW i \in Due, NEW r \in leases, ReapBackendFails(i, r)
  PROVE  LeaseInv'
<1>1. /\ pc = "reap" /\ pc' = "idle" /\ inFlight' = {} /\ inFlight = {}
      /\ reapNow' = NoTick
      /\ expirations' = (expirations \ {i}) \cup Schedule(i.id, reapNow + RetryDelay)
      /\ UNCHANGED <<journalVars, leases, matched, now, issued, granted, abandoned>>
  BY Zenon DEF ReapBackendFails, EndReap, IInv, InFlightFacts
<1>2. /\ i \in expirations /\ i.id = r.id /\ r.expires <= reapNow
  BY Zenon DEF Due, ReapBackendFails, Lapsed
<1>3. /\ Held' \subseteq Held
      /\ \A u \in Held' : processing'[u] = processing[u]
      /\ \A u \in Held' : attempts'[u] = attempts[u]
      /\ \A u \in Task : attempts[u] \in Nat /\ attempts'[u] \in Nat
      /\ \A u \in Task : attempts'[u] >= attempts[u]
      /\ dead \subseteq dead' /\ completed' = completed
      /\ Accounting'
  <2>1. CASE ExpireInBackend(r)
    BY <2>1, ExpireFacts, Zenon
  <2>2. CASE UNCHANGED <<backendVars, expiries>>
    <3>1. /\ Held' = Held /\ processing' = processing /\ completed' = completed
          /\ attempts' = attempts /\ dead' = dead
      BY <2>2, Zenon DEF backendVars, Held
    <3>2. \A u \in Task : attempts[u] \in Nat
      BY Zenon DEF IInv, TypeOK, BackendTypeOK
    <3>3. Accounting'
      BY <2>2, <3>1, Zenon DEF IInv, Accounting, RetryCap
    <3>. QED
      BY <3>1, <3>2, <3>3
  <2>. QED
    BY <2>1, <2>2, Zenon DEF ReapBackendFails
<1>. USE DEF IInv, journalVars
<1>4. AllRecords' = AllRecords
  BY <1>1, Zenon DEF AllRecords
<1>5. \A j \in expirations' :
        \/ j \in expirations /\ j # i
        \/ j.id = i.id /\ j = [id |-> i.id, expires |-> reapNow + RetryDelay]
  BY <1>1 DEF Schedule
<1>6. Identity'
  BY <1>1, <1>2, <1>3, <1>4, <1>5 DEF Identity, Ids
<1>7. FenceAgrees' /\ ClosedIsReleased'
  BY <1>1, <1>3 DEF FenceAgrees, ClosedIsReleased
<1>8. InFlightFacts'
  BY <1>1, Zenon DEF InFlightFacts, Ids
<1>9. StageFacts'
  BY <1>1, <1>3 DEF StageFacts, Serving, NoTick, TypeOK
<1>10. LeaseIsScheduled'
  <2>0. \A j \in expirations : j.id = i.id => j = i
    BY <1>2, Zenon DEF LeaseIsScheduled
  <2>1. \A j, k \in expirations' : j.id = k.id => j = k
    BY <1>5, <2>0, Zenon DEF LeaseIsScheduled
  <2>2. reapNow + RetryDelay >= r.expires
    BY <1>2, EngineAssumption DEF TypeOK, LeaseRecord
  <2>3. [id |-> i.id, expires |-> reapNow + RetryDelay] \in expirations'
    BY <1>1, Zenon DEF Schedule
  <2>4. \A s \in leases : s = r \/ s.id # r.id
    BY Zenon DEF Identity, AllRecords
  <2>5. \A s \in leases : s.id # r.id =>
          \E j \in expirations' : j.id = s.id /\ j.expires >= s.expires
    BY <1>1, <1>2, Zenon DEF LeaseIsScheduled
  <2>6. \A s \in leases : \E j \in expirations' : j.id = s.id /\ j.expires >= s.expires
    BY <1>2, <2>2, <2>3, <2>4, <2>5, Zenon
  <2>. QED
    BY <1>1, <2>1, <2>6, Zenon DEF LeaseIsScheduled
<1>11. JournalTruthful'
  BY <1>1, <1>3, TruthfulKept, Zenon
<1>. QED
  BY <1>3, <1>6, <1>7, <1>8, <1>9, <1>10, <1>11, Zenon DEF LeaseInv

-----------------------------------------------------------------------------
(* A crash, and the start after it.                                        *)

(* A crash forgets the leases in memory; a fetch record may still reach    *)
(* the file.                                                               *)
LEMMA InvCrash ==
  ASSUME IInv, Crash
  PROVE  LeaseInv'
<1>1. /\ pc' = "down" /\ leases' = {} /\ expirations' = {} /\ inFlight' = {}
      /\ reapNow' = NoTick
      /\ UNCHANGED <<backendVars, now, historyVars>>
  BY Zenon DEF Crash
<1>2. /\ closed' = closed /\ opened \subseteq opened'
      /\ \A s \in opened' : s \in opened \/ (s \in inFlight /\ pc = "fetch")
  <2>1. CASE UNCHANGED journalVars
    BY <2>1, Zenon DEF journalVars
  <2>2. CASE pc = "fetch" /\ \E r \in inFlight : AppendFetch(r)
    BY <2>2, OpenFacts
  <2>. QED
    BY <2>1, <2>2, Zenon DEF Crash
<1>3. \A s \in opened' : s \in opened \/ s.id \notin Ids(closed)
  <2>1. ASSUME NEW s \in inFlight, pc = "fetch" PROVE s.id \notin Ids(closed)
    <3>1. FenceMatches(s.task, s.id) /\ s.task \in Task /\ s.id \in Lease
      BY <2>1, Zenon DEF IInv, InFlightFacts, TypeOK, LeaseRecord
    <3>2. s.task \in Held
      BY <3>1, RecordsAssumption, Zenon DEF FenceMatches, Held
    <3>. QED
      BY <3>1, <3>2, Zenon DEF IInv, ClosedIsReleased, FenceMatches
  <2>. QED
    BY <1>2, <2>1, Zenon
<1>. USE DEF IInv, backendVars, historyVars
<1>4. Held' = Held /\ AllRecords' \subseteq AllRecords
  BY <1>1, <1>2, Zenon DEF Held, AllRecords
<1>5. Identity'
  BY <1>1, <1>2, <1>4, Zenon DEF Identity, Ids
<1>6. FenceAgrees' /\ ClosedIsReleased'
  BY <1>1, <1>2, <1>4 DEF FenceAgrees, ClosedIsReleased
<1>7. InFlightFacts' /\ StageFacts' /\ LeaseIsScheduled'
  <2>1. pc' \notin Serving /\ pc' \notin {"fetch", "handback", "ackClose", "reapClose", "restore"}
    BY <1>1 DEF Serving
  <2>2. reapNow' <= now'
    BY <1>1 DEF NoTick, TypeOK
  <2>. QED
    BY <1>1, <2>1, <2>2, Zenon DEF InFlightFacts, StageFacts, LeaseIsScheduled
<1>8. JournalTruthful'
  BY <1>1, <1>2, <1>3, Zenon DEF JournalTruthful, Ids
<1>9. Accounting'
  BY <1>1, Zenon DEF Accounting, RetryCap
<1>. QED
  BY <1>5, <1>6, <1>7, <1>8, <1>9, Zenon DEF LeaseInv

(* Reconciliation leaves in processing the claims the journal knows. *)
LEMMA RecoverFacts ==
  ASSUME IInv, RecoverOrphanedProcessing(ActiveLeases)
  PROVE  /\ Held' = Held \ Orphans(ActiveLeases)
         /\ \A u \in Held' : processing'[u] = processing[u]
         /\ \A u \in Held' : processing[u] \in MatchedLeaseIDs(ActiveLeases)
         /\ MatchedLeaseIDs(ActiveLeases) \subseteq Ids(Live)
         /\ UNCHANGED <<attempts, dead, completed>>
<1>1. /\ processing' = [t \in Task |-> IF t \in Orphans(ActiveLeases)
                                       THEN NoLease ELSE processing[t]]
      /\ UNCHANGED <<attempts, dead, completed>>
  BY Zenon DEF RecoverOrphanedProcessing
<1>2. Orphans(ActiveLeases) \subseteq Held /\ Held \subseteq Task
  BY Zenon DEF Orphans, Held
<1>3. Held' = Held \ Orphans(ActiveLeases)
  BY <1>1, <1>2, Zenon DEF Held
<1>4. \A u \in Held' : processing'[u] = processing[u]
  BY <1>1, <1>2, <1>3, Zenon
<1>5. \A u \in Held' : processing[u] \in MatchedLeaseIDs(ActiveLeases)
  BY <1>3, Zenon DEF MatchedLeaseIDs
<1>6. MatchedLeaseIDs(ActiveLeases) \subseteq Ids(Live)
  <2>1. ASSUME NEW t \in Held \ Orphans(ActiveLeases)
        PROVE  processing[t] \in Ids(Live)
    <3>1. Fence(t) \in ActiveLeases
      BY Zenon DEF Orphans
    <3>2. PICK r \in Live : Fence(t) = [task |-> r.task, lease |-> r.id]
      BY <3>1, Zenon DEF ActiveLeases
    <3>3. processing[t] = r.id
      BY <3>2, Zenon DEF Fence
    <3>. QED
      BY <3>3, Zenon DEF Ids
  <2>. QED
    BY <2>1, Zenon DEF MatchedLeaseIDs
<1>. QED
  BY <1>1, <1>3, <1>4, <1>5, <1>6, Zenon

(* The first half of newEngine, whether it goes on or sets recoveryErr. *)
LEMMA InvRecover ==
  ASSUME IInv, Recover \/ RecoverFails
  PROVE  LeaseInv'
<1>1. /\ pc = "down" /\ pc' \in {"restore", "broken"}
      /\ UNCHANGED <<opened, closed, memoryVars, inFlight, reapNow, now, issued,
                     granted, expiries>>
  BY Zenon DEF Recover, RecoverFails, OpenJournal
<1>2. /\ Held' \subseteq Held
      /\ \A u \in Held' : processing'[u] = processing[u]
      /\ UNCHANGED <<attempts, dead, completed>>
      /\ pc' = "restore" =>
           /\ \A t \in Held' : processing'[t] \in matched'
           /\ matched' \subseteq Ids(Live)
  <2>1. CASE Recover
    BY <2>1, RecoverFacts, Zenon DEF Recover
  <2>2. CASE RecoverFails /\ RecoverOrphanedProcessing(ActiveLeases)
    BY <2>2, RecoverFacts, Zenon DEF RecoverFails
  <2>3. CASE RecoverFails /\ UNCHANGED backendVars
    BY <2>3, Zenon DEF RecoverFails, backendVars, Held
  <2>. QED
    BY <2>1, <2>2, <2>3, Zenon DEF RecoverFails
<1>. USE DEF IInv, memoryVars
<1>3. AllRecords' = AllRecords /\ Live' = Live /\ inFlight = {}
      /\ leases = {} /\ expirations = {}
  BY <1>1, Zenon DEF AllRecords, Live, InFlightFacts, StageFacts, Serving
<1>4. Identity'
  <2>1. Identity
    BY Zenon
  <2>. QED
    BY <1>1, <1>2, <1>3, <2>1, Zenon DEF Identity
<1>5. FenceAgrees' /\ ClosedIsReleased'
  <2>1. FenceAgrees /\ ClosedIsReleased
    BY Zenon
  <2>2. opened' = opened /\ closed' = closed /\ leases' = leases /\ inFlight' = inFlight
        /\ attempts' = attempts
    BY <1>1, <1>2, Zenon
  <2>3. FenceAgrees'
    <3>1. \A t, u \in Held' : processing'[t] = processing'[u] => t = u
      BY <1>2, <2>1, Zenon DEF FenceAgrees
    <3>2. \A t \in Held' : \A r \in leases \cup opened \cup inFlight :
            r.id = processing'[t] => r.task = t /\ r.attempts = attempts[t]
      <4>1. \A t \in Held : \A r \in leases \cup opened \cup inFlight :
              r.id = processing[t] => r.task = t /\ r.attempts = attempts[t]
        BY <2>1, Zenon DEF FenceAgrees
      <4>2. TAKE t \in Held'
      <4>3. t \in Held /\ processing'[t] = processing[t]
        BY <1>2, Zenon
      <4>. QED
        BY <4>1, <4>3, Zenon
    <3>. QED
      BY <2>2, <3>1, <3>2, Zenon DEF FenceAgrees
  <2>4. ClosedIsReleased'
    BY <1>2, <2>1, <2>2, Zenon DEF ClosedIsReleased, Ids
  <2>. QED
    BY <2>3, <2>4, Zenon
<1>6. InFlightFacts' /\ StageFacts' /\ LeaseIsScheduled'
  BY <1>1, <1>2, <1>3, Zenon DEF InFlightFacts, StageFacts, LeaseIsScheduled, Serving
<1>7. JournalTruthful' /\ Accounting'
  BY <1>1, <1>2, Zenon DEF JournalTruthful, Accounting, RetryCap
<1>. QED
  BY <1>4, <1>5, <1>6, <1>7, Zenon DEF LeaseInv

=============================================================================
