---------------------------- MODULE EngineProofs ----------------------------
(***************************************************************************)
(* Theorems about the backend on its own and about the engine on top of    *)
(* it, for every set of tasks and lease IDs, every timeout, retry delay    *)
(* and attempt cap, and any number of calls, errors and crashes.  First    *)
(* comes what is left of the steps, the end of newEngine, and what all of  *)
(* them keep: the invariant on leases, types, durable grants.              *)
(***************************************************************************)
EXTENDS CallProofs, FiniteSetTheorems

(* The end of newEngine. *)

(* restore drops a lease the backend did not match: no task carries it. *)
LEMMA InvRestoreStale ==
  ASSUME IInv, NEW l \in Unmatched, RestoreStale(l) \/ RestoreStaleFails(l)
  PROVE  LeaseInv'
<1>1. /\ pc = "restore" /\ pc' \in {"restore", "broken"}
      /\ pc' = "restore" => matched' = matched
      /\ UNCHANGED <<backendVars, memoryVars, inFlight, reapNow, now, historyVars>>
  BY Zenon DEF RestoreStale, RestoreStaleFails, callVars
<1>2. /\ opened' = opened
      /\ closed' \in {closed, closed \cup {[op |-> "stale", id |-> l]}}
  BY CloseFacts, Zenon DEF RestoreStale, RestoreStaleFails
<1>3. /\ l \notin matched
      /\ \E r \in opened : r.id = l
  BY Zenon DEF Unmatched, Live, Ids
<1>4. \A c \in closed' : c \in closed \/ (c.id = l /\ c.op = "stale")
  BY <1>2
<1>. USE DEF IInv, backendVars, memoryVars, historyVars
<1>5. /\ Held' = Held /\ AllRecords' = AllRecords /\ inFlight = {}
      /\ leases = {} /\ expirations = {}
  <2>1. Held' = Held /\ AllRecords' = AllRecords
    BY <1>1, <1>2, Zenon DEF Held, AllRecords
  <2>2. inFlight = {} /\ leases = {} /\ expirations = {}
    BY <1>1, Zenon DEF InFlightFacts, StageFacts, Serving
  <2>. QED
    BY <2>1, <2>2, Zenon
<1>6. l \in issued
  <2>1. PICK r \in AllRecords : r.id = l
    BY <1>3, Zenon DEF AllRecords
  <2>. QED
    BY <2>1, Zenon DEF Identity, Ids
<1>7. Identity'
  <2>1. \A c \in closed' : c.id \in issued
    BY <1>4, <1>6, Zenon DEF Identity, Ids
  <2>. QED
    BY <1>1, <1>5, <2>1, Zenon DEF Identity, Ids
<1>8. FenceAgrees'
  BY <1>1, <1>2, <1>5, Zenon DEF FenceAgrees
<1>9. ClosedIsReleased'
  <2>1. \A t \in Held : processing[t] # l
    BY <1>1, <1>3, Zenon DEF StageFacts
  <2>. QED
    BY <1>1, <1>4, <1>5, <2>1, Zenon DEF ClosedIsReleased, Ids
<1>10. InFlightFacts' /\ LeaseIsScheduled'
  BY <1>1, <1>5, Zenon DEF InFlightFacts, LeaseIsScheduled
<1>11. StageFacts'
  <2>1. matched \subseteq Ids(Live')
    <3>1. ASSUME NEW m \in matched PROVE \E r \in Live' : r.id = m
      <4>0. m \in Ids(Live)
        BY <1>1, Zenon DEF StageFacts
      <4>1. PICK r \in Live : r.id = m
        BY <4>0, Zenon DEF Ids
      <4>2. r \in opened /\ r.id \notin Ids(closed) /\ r.id # l
        BY <1>3, <4>1, Zenon DEF Live
      <4>3. r.id \notin Ids(closed')
        BY <1>4, <4>2, Zenon DEF Ids
      <4>4. r \in Live'
        BY <1>2, <4>2, <4>3, Zenon DEF Live, Ids
      <4>. QED
        BY <4>1, <4>4, Zenon
    <3>. QED
      BY <3>1, Zenon DEF Ids
  <2>. QED
    BY <1>1, <1>5, <2>1, Zenon DEF StageFacts, Serving
<1>12. JournalTruthful' /\ Accounting'
  BY <1>1, <1>2, <1>4, Zenon DEF JournalTruthful, Accounting, RetryCap
<1>. QED
  BY <1>7, <1>8, <1>9, <1>10, <1>11, <1>12, Zenon DEF LeaseInv

(* restore publishes the matched leases with their original deadlines. *)
LEMMA InvRestorePublish ==
  ASSUME IInv, RestorePublish
  PROVE  LeaseInv'
<1>1. /\ pc = "restore" /\ pc' = "idle"
      /\ leases' = Restored
      /\ expirations' = { [id |-> r.id, expires |-> r.expires] : r \in Restored }
      /\ UNCHANGED <<backendVars, journalVars, inFlight, reapNow, now, historyVars>>
  BY Zenon DEF RestorePublish
<1>2. Restored \subseteq opened
  BY Zenon DEF Restored, Live
<1>. USE DEF IInv, backendVars, journalVars, historyVars
<1>3. /\ Held' = Held /\ AllRecords' = AllRecords /\ inFlight = {}
  <2>1. inFlight = {} /\ leases = {}
    BY <1>1, Zenon DEF InFlightFacts, StageFacts, Serving
  <2>. QED
    BY <1>1, <1>2, <2>1, Zenon DEF Held, AllRecords
<1>4. \A i \in expirations' :
        \E r \in Restored : i = [id |-> r.id, expires |-> r.expires]
  BY <1>1, Zenon
<1>5. \A r \in Restored : r.id \in issued
  BY <1>2, Zenon DEF Identity, AllRecords, Ids
<1>6. Identity'
  BY <1>1, <1>3, <1>4, <1>5 DEF Identity, Ids
<1>7. FenceAgrees' /\ ClosedIsReleased'
  BY <1>1, <1>2, <1>3 DEF FenceAgrees, ClosedIsReleased
<1>8. InFlightFacts'
  BY <1>1, <1>3, Zenon DEF InFlightFacts
<1>9. StageFacts'
  <2>1. ASSUME NEW t \in Held PROVE processing[t] \in Ids(Restored)
    <3>1. processing[t] \in matched /\ processing[t] \in Ids(Live)
      BY <1>1, Zenon DEF StageFacts
    <3>. QED
      BY <3>1, Zenon DEF Restored, Ids
  <2>. QED
    BY <1>1, <1>3, <2>1, Zenon DEF StageFacts, Serving
<1>10. LeaseIsScheduled'
  <2>1. \A r, s \in Restored : r.id = s.id => r = s
    BY <1>2, Zenon DEF Identity, AllRecords
  <2>2. \A i, j \in expirations' : i.id = j.id => i = j
    BY <1>4, <2>1
  <2>3. \A r \in Restored : r.expires \in Nat
    BY <1>2, Zenon DEF TypeOK, JournalTypeOK, LeaseRecord
  <2>4. \A r \in Restored : [id |-> r.id, expires |-> r.expires] \in expirations'
    BY <1>1, Zenon
  <2>5. ASSUME NEW r \in Restored
        PROVE  \E i \in expirations' : i.id = r.id /\ i.expires >= r.expires
    <3>. DEFINE item == [id |-> r.id, expires |-> r.expires]
    <3>1. item.id = r.id /\ item.expires >= r.expires
      BY <2>3
    <3>2. item \in expirations'
      BY <2>4, Zenon
    <3>. QED
      BY <3>1, <3>2, Zenon
  <2>. QED
    BY <1>1, <2>2, <2>5, Zenon DEF LeaseIsScheduled
<1>11. JournalTruthful' /\ Accounting'
  BY <1>1, Zenon DEF JournalTruthful, Accounting, RetryCap
<1>. QED
  BY <1>6, <1>7, <1>8, <1>9, <1>10, <1>11, Zenon DEF LeaseInv

-----------------------------------------------------------------------------
(* All steps together.                                                     *)

(* No lease exists in the initial state. *)
LEMMA LeaseInvInitial == Init => LeaseInv
BY EngineAssumption
   DEF Init, BackendInit, JournalInit, LeaseInv, Identity, FenceAgrees,
       ClosedIsReleased, InFlightFacts, StageFacts, LeaseIsScheduled,
       JournalTruthful, Accounting, RetryCap, AllRecords, Serving, Ids, Held,
       NoTick

(* Every step keeps the invariant, one case per action. *)
LEMMA LeaseInvStep ==
  ASSUME IInv, [Next]_vars
  PROVE  LeaseInv'
<1>0. now \in Nat /\ reapNow \in Nat /\ reapNow <= now
  BY Zenon DEF IInv, TypeOK, StageFacts
<1>1. ASSUME NEW t \in Task, Enqueue(t) PROVE LeaseInv'
  BY <1>0, <1>1, QuietStep, Zenon DEF Enqueue, Push, callVars
<1>2. CASE Ticker
  BY <1>0, <1>2, QuietStep DEF Ticker, NoTick, backendVars
<1>3. CASE ReapBegin \/ ReapRefused \/ ReapEnd
  <2>1. ReapBegin => LeaseInv'
    BY <1>0, QuietStep, Zenon DEF ReapBegin, backendVars
  <2>2. ReapRefused => LeaseInv'
    BY <1>0, QuietStep DEF ReapRefused, NoTick, backendVars
  <2>3. ReapEnd => LeaseInv'
    <3>1. SUFFICES ASSUME ReapEnd PROVE LeaseInv'
      BY Zenon
    <3>2. /\ pc = "reap" /\ pc' = "idle" /\ inFlight' = {} /\ reapNow' = NoTick
          /\ UNCHANGED <<backendVars, journalVars, memoryVars, matched, now,
                         historyVars>>
      BY <3>1, Zenon DEF ReapEnd, EndReap
    <3>. USE DEF IInv, backendVars, journalVars, memoryVars, historyVars
    <3>3. Held' = Held /\ AllRecords' = AllRecords /\ inFlight = {}
      BY <3>2, Zenon DEF Held, AllRecords, InFlightFacts
    <3>4. Identity' /\ FenceAgrees' /\ ClosedIsReleased'
      BY <3>2, <3>3 DEF Identity, FenceAgrees, ClosedIsReleased
    <3>5. InFlightFacts' /\ LeaseIsScheduled' /\ JournalTruthful' /\ Accounting'
      BY <3>2, <3>3, Zenon DEF InFlightFacts, LeaseIsScheduled, JournalTruthful,
         Accounting, RetryCap, Ids
    <3>6. StageFacts'
      BY <1>0, <3>2, <3>3 DEF StageFacts, Serving, NoTick
    <3>. QED
      BY <3>4, <3>5, <3>6, Zenon DEF LeaseInv
  <2>. QED
    BY <1>3, <2>1, <2>2, <2>3, Zenon
<1>4. CASE Tick
  BY <1>0, <1>4, QuietStep DEF Tick, callVars, backendVars
<1>5. CASE UNCHANGED vars
  BY <1>0, <1>5, QuietStep DEF vars, callVars, backendVars
<1>6. CASE Client
  BY <1>1, <1>6, InvFetchAcquire, InvFetchAcquireReplyLost, InvAckComplete,
     InvAckReplyLost, Zenon DEF Client
<1>7. CASE Continue
  BY <1>7, InvFetchRecord, InvFetchRecordFails, InvFetchHandBack,
     InvFetchHandBackFails, InvCloseRecord, InvAckRecordFails, InvRecover,
     InvRestoreStale, InvRestorePublish, Zenon DEF Continue
<1>8. CASE Reap
  BY <1>3, <1>8, InvReapSkip, InvReapExpire, InvReapBackendFails,
     InvCloseRecord, InvReapRecordFails, Zenon DEF Reap
<1>. QED
  BY <1>2, <1>4, <1>5, <1>6, <1>7, <1>8, InvCrash, Zenon DEF Next

(* The journal offers the backend fences of the right type. *)
LEMMA ActiveLeasesAreFences ==
  ASSUME TypeOK
  PROVE  ActiveLeases \in SUBSET Fences
BY DEF TypeOK, JournalTypeOK, ActiveLeases, Live, LeaseRecord, Fences

(* The engine changes the backend through its operations only. *)
LEMMA BackendUse ==
  ASSUME TypeOK, [Next]_vars
  PROVE  [BackendNext]_backendVars
<1>. USE DEF BackendNext
<1>0. /\ \A r \in inFlight : r.task \in Task /\ r.id \in Lease
      /\ \A r \in leases : r.task \in Task /\ r.id \in Lease
  BY Zenon DEF TypeOK, LeaseRecord
<1>1. CASE Client
  BY <1>0, <1>1, Zenon DEF Client, Enqueue, FetchAcquire, FetchAcquireReplyLost,
     AckComplete, AckReplyLost
<1>2. CASE Continue
  <2>1. CASE FetchRecord \/ FetchRecordFails \/ FetchHandBackFails
             \/ AckRecord \/ AckRecordFails \/ RestorePublish
    BY <2>1, Zenon DEF FetchRecord, FetchRecordFails, FetchHandBackFails, AckRecord,
       AckRecordFails, RestorePublish
  <2>2. CASE FetchHandBack
    BY <1>0, <2>2, Zenon DEF FetchHandBack
  <2>3. CASE Recover \/ RecoverFails
    BY <2>3, ActiveLeasesAreFences, Zenon DEF Recover, RecoverFails
  <2>4. CASE \E l \in Unmatched : RestoreStale(l) \/ RestoreStaleFails(l)
    BY <2>4, Zenon DEF RestoreStale, RestoreStaleFails
  <2>. QED
    BY <1>2, <2>1, <2>2, <2>3, <2>4, Zenon DEF Continue
<1>3. CASE Reap
  <2>1. CASE ReapBegin \/ ReapRefused \/ ReapEnd \/ ReapRecord \/ ReapRecordFails
    BY <2>1, Zenon DEF ReapBegin, ReapRefused, ReapEnd, ReapRecord, ReapRecordFails
  <2>2. ASSUME NEW i \in Due, ReapSkip(i) PROVE UNCHANGED backendVars
    BY <2>2, Zenon DEF ReapSkip
  <2>3. ASSUME NEW i \in Due, NEW r \in leases,
               ReapExpire(i, r) \/ ReapBackendFails(i, r)
        PROVE  [BackendNext]_backendVars
    BY <1>0, <2>3, Zenon DEF ReapExpire, ReapBackendFails, ExpireInBackend
  <2>. QED
    BY <1>3, <2>1, <2>2, <2>3, Zenon DEF Reap
<1>4. CASE Ticker \/ Crash \/ Tick \/ UNCHANGED vars
  BY <1>4, Zenon DEF Ticker, Crash, Tick, vars
<1>. QED
  BY <1>1, <1>2, <1>3, <1>4, Zenon DEF Next

(* Every step keeps the types if it keeps those of the backend, one case   *)
(* per action.                                                             *)
LEMMA TypeStep ==
  ASSUME TypeOK, [Next]_vars, BackendTypeOK'
  PROVE  TypeOK'
<1>. USE EngineAssumption DEF TypeOK, JournalTypeOK, PC, CloseOp, NoTick,
         LeaseRecord, ExpirationItem, CloseRecord, Fault, NoFault, budgetVars,
         memoryVars, callVars, historyVars, journalVars, Unlock, EndReap,
         Schedule, AppendFetch, AppendClose, AppendFails, AppendNothing,
         AppendHalf, Forget, Ids
<1>1. ASSUME NEW t \in Task, Enqueue(t) PROVE TypeOK'
  BY <1>1, Zenon DEF Enqueue
<1>2. ASSUME NEW l \in Lease, NEW d \in Timeout, FetchAcquire(l, d) PROVE TypeOK'
  <2>1. NewLease(l, d) \in LeaseRecord
    BY <1>2 DEF FetchAcquire, Acquire, NewLease, BackendTypeOK
  <2>. QED
    BY <1>2, <2>1, Zenon DEF FetchAcquire
<1>3. ASSUME NEW l \in Lease, FetchAcquireReplyLost(l) PROVE TypeOK'
  BY <1>3 DEF FetchAcquireReplyLost
<1>4. ASSUME NEW r \in leases, AckComplete(r) PROVE TypeOK'
  BY <1>4, Zenon DEF AckComplete
<1>5. ASSUME NEW r \in leases, AckReplyLost(r) PROVE TypeOK'
  BY <1>5 DEF AckReplyLost
<1>6. CASE FetchRecord
  BY <1>6 DEF FetchRecord
<1>7. CASE FetchRecordFails
  BY <1>7 DEF FetchRecordFails
<1>8. CASE FetchHandBack
  BY <1>8 DEF FetchHandBack
<1>9. CASE FetchHandBackFails
  BY <1>9 DEF FetchHandBackFails
<1>10. CASE AckRecord
  BY <1>10 DEF AckRecord
<1>11. CASE AckRecordFails
  BY <1>11 DEF AckRecordFails
<1>12. CASE Recover
  <2>1. matched' \subseteq Lease
    BY <1>12, Zenon DEF Recover, MatchedLeaseIDs, Held, BackendTypeOK
  <2>. QED
    BY <1>12, <2>1, Zenon DEF Recover, OpenJournal
<1>13. CASE RecoverFails
  BY <1>13 DEF RecoverFails, OpenJournal
<1>14. ASSUME NEW l \in Unmatched, RestoreStale(l) PROVE TypeOK'
  <2>1. l \in Lease
    BY Zenon DEF Unmatched, Live
  <2>. QED
    BY <1>14, <2>1 DEF RestoreStale
<1>15. ASSUME NEW l \in Unmatched, RestoreStaleFails(l) PROVE TypeOK'
  <2>1. l \in Lease
    BY Zenon DEF Unmatched, Live
  <2>. QED
    BY <1>15, <2>1 DEF RestoreStaleFails
<1>16. CASE RestorePublish
  <2>1. leases' \subseteq LeaseRecord /\ expirations' \subseteq ExpirationItem
    BY <1>16 DEF RestorePublish, Restored, Live
  <2>. QED
    BY <1>16, <2>1, Zenon DEF RestorePublish
<1>17. CASE Ticker
  BY <1>17, Zenon DEF Ticker
<1>18. CASE ReapBegin \/ ReapRefused \/ ReapEnd
  BY <1>18 DEF ReapBegin, ReapRefused, ReapEnd
<1>19. ASSUME NEW i \in Due, ReapSkip(i) PROVE TypeOK'
  BY <1>19, Zenon DEF ReapSkip
<1>20. ASSUME NEW i \in Due, NEW r \in leases, ReapExpire(i, r) PROVE TypeOK'
  BY <1>20 DEF ReapExpire, ExpireInBackend, ExpireOp, CountExpiry
<1>21. ASSUME NEW i \in Due, NEW r \in leases, ReapBackendFails(i, r) PROVE TypeOK'
  <2>1. i.id \in Lease
    BY Zenon DEF Due
  <2>. QED
    BY <1>21, <2>1 DEF ReapBackendFails, ExpireInBackend, CountExpiry
<1>22. CASE ReapRecord
  BY <1>22 DEF ReapRecord
<1>23. CASE ReapRecordFails
  BY <1>23 DEF ReapRecordFails
<1>24. CASE Crash
  BY <1>24 DEF Crash
<1>25. CASE Tick
  BY <1>25 DEF Tick
<1>26. CASE UNCHANGED vars
  BY <1>26, Zenon DEF vars
<1>. QED
  BY <1>1, <1>2, <1>3, <1>4, <1>5, <1>6, <1>7, <1>8, <1>9, <1>10, <1>11,
     <1>12, <1>13, <1>14, <1>15, <1>16, <1>17, <1>18, <1>19, <1>20, <1>21,
     <1>22, <1>23, <1>24, <1>25, <1>26, Zenon DEF Next, Client, Continue, Reap

(* The ways a step can change who holds a task, or its attempt counter. *)
LEMMA ClaimChange ==
  ASSUME [Next]_vars
  PROVE  \/ UNCHANGED <<processing, attempts>>
         \/ \E l \in Lease : Acquire(l)
         \/ \E r \in leases : Complete(r.task, r.id)
         \/ \E r \in leases : /\ pc = "reap" /\ r.expires <= reapNow
                              /\ ExpireInBackend(r)
         \/ FetchHandBack
         \/ RecoverOrphanedProcessing(ActiveLeases)
<1>. USE DEF backendVars
<1>1. CASE Client
  BY <1>1, Zenon DEF Client, Enqueue, Push, FetchAcquire, FetchAcquireReplyLost,
     AckComplete, AckReplyLost
<1>2. CASE Continue
  BY <1>2, Zenon DEF Continue, FetchRecord, FetchRecordFails, FetchHandBackFails,
     AckRecord, AckRecordFails, Recover, RecoverFails, RestoreStale,
     RestoreStaleFails, RestorePublish
<1>3. CASE Reap
  BY <1>3, Zenon DEF Reap, ReapBegin, ReapRefused, ReapEnd, ReapSkip, ReapExpire,
     ReapBackendFails, Lapsed, ReapRecord, ReapRecordFails
<1>4. CASE Ticker \/ Crash \/ Tick \/ UNCHANGED vars
  BY <1>4, Zenon DEF Ticker, Crash, Tick, vars
<1>. QED
  BY <1>1, <1>2, <1>3, <1>4, Zenon DEF Next

-----------------------------------------------------------------------------
(* Durability, for a journal in which no append leaves half a frame: every *)
(* granted lease is on file, so reconciliation never takes its task away.  *)

Durable == tail = "intact" /\ granted \subseteq opened

(* No fetch record is lost, and a lease is granted after its record. *)
LEMMA DurableStep ==
  ASSUME HasJournal, "torn" \notin Faults, IInv, Durable, [Next]_vars
  PROVE  Durable'
<1>. USE DEF Durable
<1>1. \A op, l : AppendClose(op, l) \/ AppendFails(AppendClose(op, l))
                => tail' = tail /\ opened' = opened
  BY Zenon DEF AppendClose, AppendFails, AppendNothing, AppendHalf, Fault, journalVars
<1>2. \A r : AppendFetch(r) => tail' = tail /\ opened' = opened \cup {r}
  BY Zenon DEF AppendFetch, Replayable
<1>3. \A r : AppendFails(AppendFetch(r)) => tail' = tail /\ opened \subseteq opened'
  BY <1>2, Zenon DEF AppendFails, AppendNothing, AppendHalf, Fault, journalVars
<1>4. CASE FetchRecord
  BY <1>2, <1>4, Zenon DEF FetchRecord
<1>5. CASE FetchRecordFails
  BY <1>3, <1>5, Zenon DEF FetchRecordFails, historyVars
<1>6. CASE Crash
  BY <1>2, <1>6, Zenon DEF Crash, historyVars, journalVars
<1>7. CASE AckRecord \/ AckRecordFails \/ ReapRecord \/ ReapRecordFails
  BY <1>1, <1>7, Zenon DEF AckRecord, AckRecordFails, ReapRecord, ReapRecordFails,
     historyVars
<1>8. CASE \E l \in Unmatched : RestoreStale(l) \/ RestoreStaleFails(l)
  BY <1>1, <1>8, Zenon DEF RestoreStale, RestoreStaleFails, historyVars
<1>9. CASE Recover \/ RecoverFails
  BY <1>9, Zenon DEF Recover, RecoverFails, OpenJournal
<1>10. CASE Client
  BY <1>10, Zenon DEF Client, Enqueue, FetchAcquire, FetchAcquireReplyLost, AckComplete,
     AckReplyLost, journalVars, historyVars
<1>11. CASE FetchHandBack \/ FetchHandBackFails \/ RestorePublish
  BY <1>11, Zenon DEF FetchHandBack, FetchHandBackFails, RestorePublish, journalVars,
     historyVars
<1>12. CASE Ticker \/ ReapBegin \/ ReapRefused \/ ReapEnd \/ Tick \/ UNCHANGED vars
  BY <1>12, Zenon DEF Ticker, ReapBegin, ReapRefused, ReapEnd, Tick, vars, journalVars,
     historyVars
<1>13. ASSUME NEW i \in Due, NEW r \in leases,
              ReapSkip(i) \/ ReapExpire(i, r) \/ ReapBackendFails(i, r)
       PROVE  Durable'
  BY <1>13, Zenon DEF ReapSkip, ReapExpire, ReapBackendFails, journalVars, historyVars
<1>14. ASSUME NEW i \in Due, ReapSkip(i) PROVE Durable'
  BY <1>14, Zenon DEF ReapSkip, journalVars, historyVars
<1>. QED
  BY <1>4, <1>5, <1>6, <1>7, <1>8, <1>9, <1>10, <1>11, <1>12, <1>13, <1>14, Zenon
     DEF Next, Continue, Reap

(* One step takes a granted task out of processing before its deadline     *)
(* only by completing it, action by action.                                *)
LEMMA HoldsStep ==
  ASSUME IInv, GrantIsDurable, [Next]_vars,
         NEW g \in granted, FenceMatches(g.task, g.id), now < g.expires,
         g.task \notin completed'
  PROVE  FenceMatches(g.task, g.id)'
<1>. DEFINE t == g.task
<1>1. /\ t \in Task /\ g.id \in Lease /\ g.expires \in Nat
      /\ processing[t] = g.id /\ processing \in [Task -> Lease \cup {NoLease}]
      /\ now \in Nat /\ reapNow \in Nat /\ reapNow <= now
  BY Zenon DEF IInv, TypeOK, BackendTypeOK, LeaseRecord, FenceMatches, StageFacts
<1>2. t \in Held /\ t \notin Waiting
  BY <1>1, RecordsAssumption, Zenon DEF Held, IInv, OnePlace
<1>3. SUFFICES processing'[t] = g.id
  BY Zenon DEF FenceMatches
<1>4. CASE UNCHANGED processing
  BY <1>1, <1>4, Zenon
<1>5. ASSUME NEW l \in Lease, Acquire(l) PROVE processing'[t] = g.id
  <2>1. Head(ready) \in Waiting
    BY <1>5 DEF Acquire, Waiting, IInv, TypeOK, BackendTypeOK
  <2>. QED
    BY <1>1, <1>2, <1>5, <2>1, Zenon DEF Acquire
<1>6. ASSUME NEW r \in leases, Complete(r.task, r.id) PROVE processing'[t] = g.id
  BY <1>1, <1>6, Zenon DEF Complete, Release
<1>7. ASSUME NEW r \in leases, r.expires <= reapNow, ExpireInBackend(r)
      PROVE  processing'[t] = g.id
  <2>1. FenceMatches(r.task, r.id) /\ Release(r.task)
    BY <1>7, Zenon DEF ExpireInBackend, Requeue, DeadLetter
  <2>2. r.id = g.id => r = g
    BY Zenon DEF IInv, Identity, AllRecords
  <2>3. r.expires # g.expires
    BY <1>1, <1>7 DEF IInv, TypeOK, LeaseRecord
  <2>4. r.task # t
    BY <1>1, <2>1, <2>2, <2>3, Zenon DEF FenceMatches
  <2>. QED
    BY <1>1, <2>1, <2>4, Zenon DEF Release
<1>8. ASSUME FetchHandBack PROVE processing'[t] = g.id
  <2>1. PICK r \in inFlight : Requeue(r.task, r.id)
    BY <1>8, Zenon DEF FetchHandBack
  <2>2. r.id \notin Ids(granted)
    BY <1>8, Zenon DEF FetchHandBack, IInv, InFlightFacts
  <2>3. r.id # g.id
    BY <2>2, Zenon DEF Ids
  <2>. QED
    BY <1>1, <2>1, <2>3, Zenon DEF Requeue, FenceMatches, Release
<1>9. ASSUME RecoverOrphanedProcessing(ActiveLeases) PROVE processing'[t] = g.id
  <2>1. g \in Live
    BY Zenon DEF GrantIsDurable
  <2>2. Fence(t) \in ActiveLeases
    BY <1>1, <2>1, Zenon DEF Fence, ActiveLeases
  <2>. QED
    BY <1>1, <1>9, <2>2, Zenon DEF RecoverOrphanedProcessing, Orphans
<1>. QED
  BY <1>4, <1>5, <1>6, <1>7, <1>8, <1>9, ClaimChange, Zenon

-----------------------------------------------------------------------------
(* The records of a lease in the journal: one fetch record, and its closes *)
(* behind it.  That is what lets Journal keep sets where wal.Live goes     *)
(* through the records in order.                                           *)

(* A step adds a fetch record only under a lease ID of which the journal   *)
(* knows nothing, and a closing record only behind the fetch record.       *)
InOrder ==
  /\ \A r \in opened' \ opened : r.id \notin Ids(opened) \cup Ids(closed)
  /\ \A c \in closed' \ closed : c.id \in Ids(opened)

(* As long as appends can be replayed, the leases of the map are on file. *)
Recorded ==
  /\ Ids(closed) \subseteq Ids(opened)
  /\ Replayable => Ids(leases) \subseteq Ids(opened)

(* What the ways to append do to the journal. *)
LEMMA AppendChanges ==
  /\ \A r : AppendFetch(r) \/ AppendFails(AppendFetch(r)) =>
       /\ closed' = closed
       /\ Replayable' => Replayable
       /\ opened' = opened \/ (Replayable /\ opened' = opened \cup {r})
  /\ \A op, l : AppendClose(op, l) \/ AppendFails(AppendClose(op, l)) =>
       /\ opened' = opened
       /\ Replayable' => Replayable
       /\ \/ closed' = closed
          \/ Replayable /\ closed' = closed \cup {[op |-> op, id |-> l]}
<1>1. \A r : AppendFetch(r) =>
        /\ closed' = closed
        /\ Replayable' => Replayable
        /\ opened' = opened \/ (Replayable /\ opened' = opened \cup {r})
  BY Zenon DEF AppendFetch, Replayable
<1>2. \A op, l : AppendClose(op, l) =>
        /\ opened' = opened
        /\ Replayable' => Replayable
        /\ \/ closed' = closed
           \/ Replayable /\ closed' = closed \cup {[op |-> op, id |-> l]}
  BY Zenon DEF AppendClose, Replayable
<1>3. AppendNothing \/ AppendHalf =>
        opened' = opened /\ closed' = closed /\ (Replayable' => Replayable)
  BY DEF AppendNothing, AppendHalf, Replayable, journalVars
<1>. QED
  BY <1>1, <1>2, <1>3, Zenon DEF AppendFails

(* A fetch record is written for a claim that is under way. *)
LEMMA FetchInOrder ==
  ASSUME IInv, Recorded, pc = "fetch", NEW r \in inFlight,
         AppendFetch(r) \/ AppendFails(AppendFetch(r))
  PROVE  InOrder /\ Ids(closed)' \subseteq Ids(opened)'
         /\ (Replayable' => Ids(leases) \subseteq Ids(opened)')
<1>1. /\ closed' = closed
      /\ Replayable' => Replayable
      /\ opened' = opened \/ opened' = opened \cup {r}
  BY AppendChanges, Zenon
<1>2. r.id \in Ids(opened) => r \in opened
  BY Zenon DEF IInv, Identity, AllRecords, Ids
<1>3. r.id \notin Ids(closed)
  <2>1. FenceMatches(r.task, r.id) /\ r.task \in Task /\ r.id \in Lease
    BY Zenon DEF IInv, InFlightFacts, TypeOK, LeaseRecord
  <2>2. r.task \in Held
    BY <2>1, RecordsAssumption, Zenon DEF FenceMatches, Held
  <2>. QED
    BY <2>1, <2>2, Zenon DEF IInv, ClosedIsReleased, FenceMatches
<1>4. Ids(opened) \subseteq Ids(opened)' /\ Ids(closed)' = Ids(closed)
  BY <1>1, Zenon DEF Ids
<1>. QED
  BY <1>1, <1>2, <1>3, <1>4, Zenon DEF InOrder, Recorded

(* A closing record is written for a lease the journal can have opened. *)
LEMMA CloseInOrder ==
  ASSUME Recorded, NEW op, NEW l, Replayable => l \in Ids(opened),
         AppendClose(op, l) \/ AppendFails(AppendClose(op, l)),
         leases' \subseteq leases
  PROVE  InOrder /\ Recorded'
<1>1. /\ opened' = opened
      /\ Replayable' => Replayable
      /\ \/ closed' = closed
         \/ Replayable /\ closed' = closed \cup {[op |-> op, id |-> l]}
  BY AppendChanges, Zenon
<1>2. \A c \in closed' : c \in closed \/ c.id \in Ids(opened)
  <2>1. SUFFICES ASSUME NEW c \in closed', c \notin closed PROVE c.id \in Ids(opened)
    BY Zenon
  <2>2. Replayable /\ c = [op |-> op, id |-> l]
    BY <1>1, <2>1, Zenon
  <2>. QED
    BY <2>2, Zenon
<1>3. Ids(closed)' \subseteq Ids(opened)'
  <2>1. \A c \in closed : c.id \in Ids(opened)
    BY Zenon DEF Recorded, Ids
  <2>2. \A c \in closed' : c.id \in Ids(opened)
    BY <1>2, <2>1, Zenon
  <2>. QED
    BY <1>1, <2>2, Zenon DEF Ids
<1>4. Ids(leases)' \subseteq Ids(leases)
  BY Zenon DEF Ids
<1>5. InOrder
  BY <1>1, <1>2, Zenon DEF InOrder
<1>. QED
  BY <1>1, <1>3, <1>4, <1>5, Zenon DEF Recorded, Ids

(* Every step keeps the order of the records. *)
LEMMA RecordedStep ==
  ASSUME IInv, Recorded, [Next]_vars
  PROVE  InOrder /\ Recorded'
<1>1. CASE FetchRecord
  <2>1. PICK r \in inFlight : AppendFetch(r) /\ leases' = leases \cup {r}
    BY <1>1, Zenon DEF FetchRecord
  <2>2. /\ InOrder /\ Ids(closed)' \subseteq Ids(opened)'
        /\ Replayable' => Ids(leases) \subseteq Ids(opened)'
    BY <1>1, <2>1, FetchInOrder, Zenon DEF FetchRecord
  <2>3. Replayable' => r \in opened'
    <3>1. Replayable => opened' = opened \cup {r}
      BY <2>1, Zenon DEF AppendFetch
    <3>2. Replayable' => Replayable
      BY <2>1, Zenon DEF AppendFetch, Replayable
    <3>. QED
      BY <3>1, <3>2, Zenon
  <2>4. Replayable' => Ids(leases)' \subseteq Ids(opened)'
    <3>1. SUFFICES ASSUME Replayable', NEW s \in leases' PROVE s.id \in Ids(opened)'
      BY Zenon DEF Ids
    <3>2. CASE s \in leases
      BY <2>2, <3>1, <3>2, Zenon DEF Ids
    <3>3. CASE s = r
      BY <2>3, <3>1, <3>3, Zenon DEF Ids
    <3>. QED
      BY <2>1, <3>1, <3>2, <3>3, Zenon
  <2>. QED
    BY <2>2, <2>4, Zenon DEF Recorded
<1>2. CASE FetchRecordFails
  <2>1. PICK r \in inFlight : AppendFails(AppendFetch(r))
    BY <1>2, Zenon DEF FetchRecordFails
  <2>2. leases' = leases /\ pc = "fetch"
    BY <1>2, Zenon DEF FetchRecordFails, memoryVars
  <2>. QED
    BY <2>1, <2>2, FetchInOrder, Zenon DEF Recorded
<1>3. CASE Crash
  <2>1. leases' = {}
    BY <1>3, Zenon DEF Crash
  <2>2. CASE UNCHANGED journalVars
    BY <2>1, <2>2, Zenon DEF journalVars, InOrder, Recorded, Ids
  <2>3. ASSUME pc = "fetch", NEW r \in inFlight, AppendFetch(r)
        PROVE  InOrder /\ Recorded'
    BY <2>1, <2>3, FetchInOrder, Zenon DEF Recorded, Ids
  <2>. QED
    BY <1>3, <2>2, <2>3, Zenon DEF Crash
<1>4. CASE AckRecord \/ AckRecordFails \/ ReapRecord \/ ReapRecordFails
  <2>1. PICK r \in inFlight :
          AppendClose(closing, r.id) \/ AppendFails(AppendClose(closing, r.id))
    BY <1>4, Zenon DEF AckRecord, AckRecordFails, ReapRecord, ReapRecordFails
  <2>2. r \in leases /\ leases' \subseteq leases
    BY <1>4, Zenon DEF AckRecord, AckRecordFails, ReapRecord, ReapRecordFails, Forget,
       memoryVars, IInv, InFlightFacts
  <2>3. Replayable => r.id \in Ids(opened)
    BY <2>2, Zenon DEF Recorded, Ids
  <2>. QED
    BY <2>1, <2>2, <2>3, CloseInOrder, Zenon
<1>5. ASSUME NEW l \in Unmatched, RestoreStale(l) \/ RestoreStaleFails(l)
      PROVE  InOrder /\ Recorded'
  <2>1. l \in Ids(opened) /\ leases' = leases
    BY <1>5, Zenon DEF Unmatched, Live, Ids, RestoreStale, RestoreStaleFails, memoryVars
  <2>. QED
    BY <1>5, <2>1, CloseInOrder, Zenon DEF RestoreStale, RestoreStaleFails
<1>6. CASE RestorePublish
  <2>1. leases' \subseteq opened /\ UNCHANGED <<opened, closed, tail>>
    BY <1>6, Zenon DEF RestorePublish, Restored, Live, journalVars
  <2>. QED
    BY <2>1, Zenon DEF InOrder, Recorded, Ids
<1>7. CASE Recover \/ RecoverFails
  <2>1. leases' = {} /\ UNCHANGED <<opened, closed>>
    BY <1>7, Zenon DEF Recover, RecoverFails, OpenJournal, memoryVars, IInv, StageFacts,
       Serving
  <2>. QED
    BY <2>1, Zenon DEF InOrder, Recorded, Ids
<1>8. ASSUME UNCHANGED <<journalVars, leases>> PROVE InOrder /\ Recorded'
  BY <1>8, Zenon DEF journalVars, InOrder, Recorded, Replayable
<1>9. ASSUME Client \/ FetchHandBack \/ FetchHandBackFails
      PROVE  UNCHANGED <<journalVars, leases>>
  BY <1>9, Zenon DEF Client, Enqueue, FetchAcquire, FetchAcquireReplyLost, AckComplete,
     AckReplyLost, FetchHandBack, FetchHandBackFails, memoryVars
<1>10. ASSUME Ticker \/ ReapBegin \/ ReapRefused \/ ReapEnd \/ Tick \/ UNCHANGED vars
       PROVE  UNCHANGED <<journalVars, leases>>
  BY <1>10, Zenon DEF Ticker, ReapBegin, ReapRefused, ReapEnd, Tick, vars, memoryVars
<1>11. ASSUME NEW i \in Due, ReapSkip(i) PROVE UNCHANGED <<journalVars, leases>>
  BY <1>11, Zenon DEF ReapSkip
<1>12. ASSUME NEW i \in Due, NEW r \in leases, ReapExpire(i, r) \/ ReapBackendFails(i, r)
       PROVE  UNCHANGED <<journalVars, leases>>
  BY <1>12, Zenon DEF ReapExpire, ReapBackendFails
<1>. QED
  BY <1>1, <1>2, <1>3, <1>4, <1>5, <1>6, <1>7, <1>8, <1>9, <1>10, <1>11, <1>12, Zenon
     DEF Next, Continue, Reap

-----------------------------------------------------------------------------
(* The backend on its own. *)

(* Reconciliation lists each orphan once: an ordering of a finite set of   *)
(* tasks is a sequence without repetition whose elements are that set.     *)
LEMMA OrderingIsSequence ==
  ASSUME NEW S \in SUBSET Task, NEW s \in Orderings(S)
  PROVE  /\ s \in Seq(Task)
         /\ DOMAIN s = 1..Len(s)
         /\ \A i, j \in 1..Len(s) : s[i] = s[j] => i = j
         /\ \A i \in 1..Len(s) : s[i] \in S
         /\ \A x \in S : \E i \in 1..Len(s) : s[i] = x
<1>1. Cardinality(S) \in Nat
  BY RecordsAssumption, FS_Subset, FS_CardinalityType, Zenon
<1>2. s \in [1..Cardinality(S) -> S]
  BY Zenon DEF Orderings
<1>3. s \in Seq(Task) /\ Len(s) = Cardinality(S)
  BY <1>1, <1>2
<1>. QED
  BY <1>1, <1>2, <1>3, Zenon DEF Orderings

(* Every call keeps the types of the stores. *)
LEMMA BackendTypeStep ==
  ASSUME BackendTypeOK, [BackendNext]_backendVars
  PROVE  BackendTypeOK'
<1>. USE DEF BackendTypeOK
<1>1. ASSUME NEW t \in Task, Push(t) PROVE BackendTypeOK'
  BY <1>1 DEF Push
<1>2. ASSUME NEW l \in Lease, Acquire(l) PROVE BackendTypeOK'
  BY <1>2 DEF Acquire
<1>3. ASSUME NEW t \in Task, NEW l \in Lease, Complete(t, l) PROVE BackendTypeOK'
  BY <1>3, Zenon DEF Complete, Release
<1>4. ASSUME NEW t \in Task, NEW l \in Lease, Requeue(t, l) PROVE BackendTypeOK'
  BY <1>4 DEF Requeue, Release, Charge
<1>5. ASSUME NEW t \in Task, NEW l \in Lease, DeadLetter(t, l) PROVE BackendTypeOK'
  BY <1>5 DEF DeadLetter, Release, Charge
<1>6. ASSUME NEW active \in SUBSET Fences, RecoverOrphanedProcessing(active)
      PROVE  BackendTypeOK'
  <2>1. PICK s \in Orderings(Orphans(active)) : ready' = ready \o s
    BY <1>6, Zenon DEF RecoverOrphanedProcessing
  <2>2. Orphans(active) \in SUBSET Task
    BY Zenon DEF Orphans, Held
  <2>3. s \in Seq(Task)
    BY <2>1, <2>2, OrderingIsSequence, Zenon
  <2>4. ready' \in Seq(Task)
    BY <2>1, <2>3
  <2>. QED
    BY <1>6, <2>4, Zenon DEF RecoverOrphanedProcessing
<1>7. CASE UNCHANGED backendVars
  BY <1>7, Zenon DEF backendVars
<1>. QED
  BY <1>1, <1>2, <1>3, <1>4, <1>5, <1>6, <1>7, Zenon DEF BackendNext

-----------------------------------------------------------------------------
(* The ready queue without repetitions, and what the three ways of         *)
(* changing it do to the set of waiting tasks.                             *)

Distinct(q) == \A i, j \in DOMAIN q : q[i] = q[j] => i = j

(* Push and Requeue add one task at the back. *)
LEMMA AppendWaiting ==
  ASSUME ready \in Seq(Task), Distinct(ready),
         NEW t \in Task, t \notin Waiting, ready' = Append(ready, t)
  PROVE  Distinct(ready') /\ Waiting' = Waiting \cup {t}
<1>1. /\ Len(ready') = Len(ready) + 1
      /\ \A i \in 1..Len(ready) : ready'[i] = ready[i]
      /\ ready'[Len(ready) + 1] = t
      /\ ready' \in Seq(Task)
  OBVIOUS
<1>2. DOMAIN ready = 1..Len(ready) /\ DOMAIN ready' = 1..(Len(ready) + 1)
  BY <1>1
<1>3. Len(ready) \in Nat
  OBVIOUS
<1>. QED
  BY <1>1, <1>2, <1>3 DEF Distinct, Waiting

(* Acquire takes the first task. *)
LEMMA TailWaiting ==
  ASSUME ready \in Seq(Task), Distinct(ready), ready # <<>>,
         ready' = Tail(ready)
  PROVE  /\ Distinct(ready')
         /\ Waiting' = Waiting \ {Head(ready)}
         /\ Head(ready) \in Waiting
<1>1. /\ Len(ready) \in Nat \ {0}
      /\ ready' \in Seq(Task)
      /\ Len(ready') = Len(ready) - 1
      /\ \A i \in 1..Len(ready') : ready'[i] = ready[i + 1]
      /\ Head(ready) = ready[1]
  OBVIOUS
<1>2. DOMAIN ready = 1..Len(ready) /\ DOMAIN ready' = 1..(Len(ready) - 1)
  BY <1>1
<1>3. Distinct(ready')
  BY <1>1, <1>2 DEF Distinct
<1>4. Head(ready) \in Waiting
  BY <1>1, <1>2 DEF Waiting
<1>5. ASSUME NEW x \in Waiting' PROVE x \in Waiting \ {Head(ready)}
  <2>1. PICK i \in 1..(Len(ready) - 1) : x = ready[i + 1]
    BY <1>1, <1>2, <1>5 DEF Waiting
  <2>2. i + 1 \in DOMAIN ready /\ 1 \in DOMAIN ready /\ i + 1 # 1
    BY <1>1, <1>2
  <2>. QED
    BY <1>1, <2>1, <2>2, Zenon DEF Waiting, Distinct
<1>6. ASSUME NEW x \in Waiting \ {Head(ready)} PROVE x \in Waiting'
  <2>1. PICK i \in 1..Len(ready) : x = ready[i]
    BY <1>2, Zenon DEF Waiting
  <2>2. i - 1 \in 1..(Len(ready) - 1)
    BY <1>1, <1>6, <2>1
  <2>3. ready'[i - 1] = x
    BY <1>1, <2>1, <2>2
  <2>. QED
    BY <1>2, <2>2, <2>3, Zenon DEF Waiting
<1>. QED
  BY <1>3, <1>4, <1>5, <1>6, Zenon

(* Reconciliation adds a set of tasks at the back, in some order. *)
LEMMA ConcatWaiting ==
  ASSUME ready \in Seq(Task), Distinct(ready),
         NEW S \in SUBSET Task, S \cap Waiting = {},
         NEW s \in Orderings(S), ready' = ready \o s
  PROVE  Distinct(ready') /\ Waiting' = Waiting \cup S
<1>1. /\ s \in Seq(Task)
      /\ DOMAIN s = 1..Len(s)
      /\ \A i, j \in 1..Len(s) : s[i] = s[j] => i = j
      /\ \A i \in 1..Len(s) : s[i] \in S
      /\ \A x \in S : \E i \in 1..Len(s) : s[i] = x
  BY OrderingIsSequence, Zenon
<1>2. /\ Len(ready') = Len(ready) + Len(s)
      /\ \A i \in 1..Len(ready) + Len(s) :
           ready'[i] = IF i <= Len(ready) THEN ready[i] ELSE s[i - Len(ready)]
      /\ ready' \in Seq(Task)
  BY <1>1
<1>3. /\ Len(ready) \in Nat /\ Len(s) \in Nat
      /\ DOMAIN ready = 1..Len(ready)
      /\ DOMAIN ready' = 1..Len(ready) + Len(s)
  BY <1>1, <1>2
<1>4. Distinct(ready')
  <2>1. SUFFICES ASSUME NEW i \in 1..Len(ready) + Len(s),
                        NEW j \in 1..Len(ready) + Len(s),
                        ready'[i] = ready'[j]
                 PROVE  i = j
    BY <1>3, Zenon DEF Distinct
  <2>2. CASE i <= Len(ready) /\ j <= Len(ready)
    <3>1. i \in DOMAIN ready /\ j \in DOMAIN ready
      BY <1>3, <2>2
    <3>2. ready[i] = ready[j]
      BY <1>2, <2>1, <2>2, Zenon
    <3>. QED
      BY <3>1, <3>2, Zenon DEF Distinct
  <2>3. CASE i > Len(ready) /\ j > Len(ready)
    <3>1. i - Len(ready) \in 1..Len(s) /\ j - Len(ready) \in 1..Len(s)
      BY <1>3, <2>3
    <3>. QED
      BY <1>1, <1>2, <1>3, <2>1, <2>3, <3>1
  <2>4. CASE i <= Len(ready) /\ j > Len(ready)
    <3>1. i \in DOMAIN ready /\ j - Len(ready) \in 1..Len(s)
      BY <1>3, <2>4
    <3>2. ready'[i] \in Waiting /\ ready'[j] \in S
      BY <1>1, <1>2, <1>3, <2>4, <3>1 DEF Waiting
    <3>. QED
      BY <2>1, <3>2, Zenon
  <2>5. CASE i > Len(ready) /\ j <= Len(ready)
    <3>1. j \in DOMAIN ready /\ i - Len(ready) \in 1..Len(s)
      BY <1>3, <2>5
    <3>2. ready'[j] \in Waiting /\ ready'[i] \in S
      BY <1>1, <1>2, <1>3, <2>5, <3>1 DEF Waiting
    <3>. QED
      BY <2>1, <3>2, Zenon
  <2>. QED
    BY <1>3, <2>2, <2>3, <2>4, <2>5
<1>5. ASSUME NEW x \in Waiting' PROVE x \in Waiting \cup S
  <2>1. PICK i \in 1..Len(ready) + Len(s) : x = ready'[i]
    BY <1>3, <1>5, Zenon DEF Waiting
  <2>2. CASE i <= Len(ready)
    BY <1>2, <1>3, <2>1, <2>2, SMTT(20) DEF Waiting
  <2>3. CASE i > Len(ready)
    BY <1>1, <1>2, <1>3, <2>1, <2>3, SMTT(20)
  <2>. QED
    BY <1>3, <2>2, <2>3
<1>6. ASSUME NEW x \in Waiting PROVE x \in Waiting'
  BY <1>2, <1>3 DEF Waiting
<1>7. ASSUME NEW x \in S PROVE x \in Waiting'
  <2>1. PICK i \in 1..Len(s) : s[i] = x
    BY <1>1, Zenon
  <2>2. /\ Len(ready) + i \in 1..Len(ready) + Len(s)
        /\ ~(Len(ready) + i <= Len(ready))
        /\ (Len(ready) + i) - Len(ready) = i
    BY <1>3
  <2>3. ready'[Len(ready) + i] = x
    BY <1>2, <2>1, <2>2, Zenon
  <2>. QED
    BY <1>3, <2>2, <2>3, Zenon DEF Waiting
<1>. QED
  BY <1>4, <1>5, <1>6, <1>7, Zenon

-----------------------------------------------------------------------------

(* Every call moves a task from one place to another. *)
LEMMA OnePlaceStep ==
  ASSUME BackendTypeOK, OnePlace, [BackendNext]_backendVars
  PROVE  OnePlace'
<1>. USE DEF OnePlace
<1>0. ready \in Seq(Task) /\ Distinct(ready)
  BY Zenon DEF BackendTypeOK, Distinct
<1>1. ASSUME NEW t \in Task, Push(t) PROVE OnePlace'
  <2>1. Distinct(ready') /\ Waiting' = Waiting \cup {t}
    BY <1>0, <1>1, AppendWaiting, Zenon DEF Push, Known
  <2>2. Held' = Held
    BY <1>1, Zenon DEF Push, Held
  <2>. QED
    BY <1>1, <2>1, <2>2 DEF Push, Known, Distinct
<1>2. ASSUME NEW l \in Lease, Acquire(l) PROVE OnePlace'
  <2>1. /\ Distinct(ready')
        /\ Waiting' = Waiting \ {Head(ready)}
        /\ Head(ready) \in Waiting
    BY <1>0, <1>2, TailWaiting, Zenon DEF Acquire
  <2>2. Head(ready) \in Task
    BY <1>0, <1>2 DEF Acquire
  <2>3. Held' = Held \cup {Head(ready)}
    BY <1>2, <2>2, RecordsAssumption, Zenon DEF Acquire, Held, BackendTypeOK
  <2>. QED
    BY <1>2, <2>1, <2>3 DEF Acquire, Distinct
<1>3. ASSUME NEW t \in Task, NEW l \in Lease, FenceMatches(t, l), Release(t)
      PROVE  t \in Held /\ Held' = Held \ {t} /\ t \notin Waiting
  BY <1>3, RecordsAssumption, Zenon DEF FenceMatches, Release, Held, BackendTypeOK
<1>4. ASSUME NEW t \in Task, NEW l \in Lease, Complete(t, l) PROVE OnePlace'
  <2>1. t \in Held /\ Held' = Held \ {t} /\ t \notin Waiting
    BY <1>3, <1>4, Zenon DEF Complete
  <2>2. Waiting' = Waiting
    BY <1>4, Zenon DEF Complete, Waiting
  <2>. QED
    BY <1>4, <2>1, <2>2, Zenon DEF Complete
<1>5. ASSUME NEW t \in Task, NEW l \in Lease, Requeue(t, l) PROVE OnePlace'
  <2>1. t \in Held /\ Held' = Held \ {t} /\ t \notin Waiting
    BY <1>3, <1>5, Zenon DEF Requeue
  <2>2. Distinct(ready') /\ Waiting' = Waiting \cup {t}
    BY <1>0, <1>5, <2>1, AppendWaiting, Zenon DEF Requeue
  <2>. QED
    BY <1>5, <2>1, <2>2 DEF Requeue, Distinct
<1>6. ASSUME NEW t \in Task, NEW l \in Lease, DeadLetter(t, l) PROVE OnePlace'
  <2>1. t \in Held /\ Held' = Held \ {t} /\ t \notin Waiting
    BY <1>3, <1>6, Zenon DEF DeadLetter
  <2>2. Waiting' = Waiting
    BY <1>6, Zenon DEF DeadLetter, Waiting
  <2>. QED
    BY <1>6, <2>1, <2>2, Zenon DEF DeadLetter
<1>7. ASSUME NEW active \in SUBSET Fences, RecoverOrphanedProcessing(active)
      PROVE  OnePlace'
  <2>1. PICK s \in Orderings(Orphans(active)) : ready' = ready \o s
    BY <1>7, Zenon DEF RecoverOrphanedProcessing
  <2>2. Orphans(active) \in SUBSET Task /\ Orphans(active) \subseteq Held
    BY Zenon DEF Orphans, Held
  <2>3. Distinct(ready') /\ Waiting' = Waiting \cup Orphans(active)
    BY <1>0, <2>1, <2>2, ConcatWaiting, Zenon
  <2>4. Held' = Held \ Orphans(active)
    BY <1>7, Zenon DEF RecoverOrphanedProcessing, Held
  <2>. QED
    BY <1>7, <2>2, <2>3, <2>4, Zenon DEF RecoverOrphanedProcessing, Distinct
<1>8. CASE UNCHANGED backendVars
  BY <1>8 DEF backendVars, Waiting, Held
<1>. QED
  BY <1>1, <1>2, <1>4, <1>5, <1>6, <1>7, <1>8, Zenon DEF BackendNext

(* An empty backend. *)
LEMMA BackendInitial == BackendInit => BackendTypeOK /\ OnePlace
<1>. SUFFICES ASSUME BackendInit PROVE BackendTypeOK /\ OnePlace
  BY Zenon
<1>1. ready = <<>> /\ DOMAIN ready = {}
  BY DEF BackendInit
<1>2. Waiting = {} /\ Held = {}
  BY <1>1, Zenon DEF BackendInit, Waiting, Held
<1>. QED
  BY <1>1, <1>2 DEF BackendInit, BackendTypeOK, OnePlace

(* A backend under any sequence of calls, whoever makes them, keeps its    *)
(* types and holds every task in one place.                                *)
THEOREM BackendOnePlace == BackendSpec => [](BackendTypeOK /\ OnePlace)
BY BackendInitial, BackendTypeStep, OnePlaceStep, PTL DEF BackendSpec

-----------------------------------------------------------------------------
(* The engine *)

(* The initial state has the right types. *)
LEMMA TypeInitial == Init => TypeOK
BY BackendInitial, EngineAssumption
   DEF Init, TypeOK, JournalInit, JournalTypeOK, PC, CloseOp, NoTick

(* The types of all variables, through every operation, error and crash. *)
THEOREM TypeCorrect == Spec => []TypeOK
<1>1. TypeOK /\ [Next]_vars => TypeOK'
  BY TypeStep, BackendUse, BackendTypeStep, Zenon DEF TypeOK
<1>. QED
  BY <1>1, TypeInitial, PTL DEF Spec

(* The engine, its errors and its crashes never copy a task: it is in one  *)
(* place of the backend at a time.                                         *)
THEOREM TaskInOnePlace == Spec => []OnePlace
<1>1. Init => OnePlace
  BY BackendInitial, Zenon DEF Init
<1>2. TypeOK /\ OnePlace /\ [Next]_vars => OnePlace'
  BY BackendUse, OnePlaceStep, Zenon DEF TypeOK
<1>. QED
  BY <1>1, <1>2, TypeCorrect, PTL DEF Spec

(* The inductive invariant of the engine, through every interleaving of    *)
(* clients and reaper, every error and every crash.                        *)
THEOREM EngineInvariant == Spec => []IInv
<1>1. TypeOK /\ OnePlace /\ LeaseInv <=> IInv
  BY Zenon DEF IInv, LeaseInv
<1>2. Init => IInv
  BY <1>1, TypeInitial, BackendInitial, LeaseInvInitial, Zenon DEF Init
<1>3. IInv /\ [Next]_vars => IInv'
  <2>1. SUFFICES ASSUME IInv, [Next]_vars PROVE IInv'
    BY Zenon
  <2>2. TypeOK' /\ OnePlace'
    BY <2>1, TypeStep, BackendUse, BackendTypeStep, OnePlaceStep, Zenon DEF IInv, TypeOK
  <2>3. LeaseInv'
    BY <2>1, LeaseInvStep, Zenon
  <2>. QED
    BY <2>2, <2>3, Zenon DEF IInv, LeaseInv
<1>. QED
  BY <1>2, <1>3, PTL DEF Spec

(* The fences of the backend agree with the records of their leases, in    *)
(* memory and in the journal.                                              *)
THEOREM FencesAgree == Spec => []FenceAgrees
<1>1. IInv => FenceAgrees
  BY Zenon DEF IInv
<1>. QED
  BY <1>1, EngineInvariant, PTL

(* The journal never closes a lease the backend still holds. *)
THEOREM JournalBehindBackend == Spec => []ClosedIsReleased
<1>1. IInv => ClosedIsReleased
  BY Zenon DEF IInv
<1>. QED
  BY <1>1, EngineInvariant, PTL

(* A closing record tells what happened to the task. *)
THEOREM JournalIsTruthful == Spec => []JournalTruthful
<1>1. IInv => JournalTruthful
  BY Zenon DEF IInv
<1>. QED
  BY <1>1, EngineInvariant, PTL

(* No task is held outside the lease map, claims of a failed Fetch apart. *)
THEOREM NoForgottenClaim == Spec => []HeldIsLeased
<1>1. IInv => HeldIsLeased
  BY Zenon DEF IInv, HeldIsLeased, StageFacts, InFlightFacts, Serving, Ids
<1>. QED
  BY <1>1, EngineInvariant, PTL

(* Every lease has its item in the heap of the reaper. *)
THEOREM ReaperKnowsEveryLease == Spec => []LeaseIsScheduled
<1>1. IInv => LeaseIsScheduled
  BY Zenon DEF IInv
<1>. QED
  BY <1>1, EngineInvariant, PTL

(* A task whose leases expired MaxAttempts times is dead. *)
THEOREM CapIsKept == Spec => []RetryCap
<1>1. IInv => RetryCap
  BY Zenon DEF IInv, Accounting
<1>. QED
  BY <1>1, EngineInvariant, PTL

(* A lease keeps task, attempts and deadline, across restarts too. *)
THEOREM TermsAreKept == Spec => []LeaseKeepsItsTerms
<1>1. IInv => LeaseKeepsItsTerms
  BY Zenon DEF IInv, Identity, AllRecords, LeaseKeepsItsTerms
<1>. QED
  BY <1>1, EngineInvariant, PTL

(* Attempts are charged one at a time, to a held task, by the reaper or by *)
(* a Fetch that gives its claim back: never by a restart.                  *)
THEOREM ChargesAreOwn == Spec => ChargedByOwnLeaseOnly
<1>1. IInv /\ [Next]_vars =>
        [\A t \in Task :
          attempts'[t] # attempts[t] =>
            /\ pc \in {"handback", "reap"}
            /\ attempts'[t] = attempts[t] + 1
            /\ t \in Held]_vars
  <2>1. SUFFICES ASSUME IInv, [Next]_vars, NEW t \in Task,
                        attempts'[t] # attempts[t]
                 PROVE  /\ pc \in {"handback", "reap"}
                        /\ attempts'[t] = attempts[t] + 1
                        /\ t \in Held
    BY Zenon
  <2>2. ASSUME NEW r \in leases \cup inFlight,
               Requeue(r.task, r.id) \/ DeadLetter(r.task, r.id)
        PROVE  attempts'[t] = attempts[t] + 1 /\ t \in Held
    <3>1. r.task \in Held
      BY <2>1, <2>2, ReleaseFacts, Zenon DEF Requeue, DeadLetter
    <3>. QED
      BY <2>1, <2>2, <3>1, Zenon
         DEF Requeue, DeadLetter, Charge, IInv, TypeOK, BackendTypeOK
  <2>3. CASE FetchHandBack
    BY <2>2, <2>3, Zenon DEF FetchHandBack
  <2>4. ASSUME NEW r \in leases, pc = "reap", ExpireInBackend(r)
        PROVE  attempts'[t] = attempts[t] + 1 /\ t \in Held
    BY <2>2, <2>4, Zenon DEF ExpireInBackend
  <2>. QED
    BY <2>1, <2>3, <2>4, ClaimChange, Zenon
       DEF Acquire, Complete, RecoverOrphanedProcessing
<1>. QED
  BY <1>1, EngineInvariant, PTL DEF Spec, ChargedByOwnLeaseOnly

(* A granted lease the backend holds is on file and has no closing record, *)
(* so that a replay brings it back.                                        *)
THEOREM GrantsAreDurable ==
  ASSUME HasJournal, "torn" \notin Faults
  PROVE  Spec => [](Durable /\ GrantIsDurable)
<1>1. Init => Durable
  BY Zenon DEF Init, JournalInit, Durable
<1>2. IInv /\ Durable /\ [Next]_vars => Durable'
  BY DurableStep, Zenon
<1>3. IInv /\ Durable => GrantIsDurable
  <2>1. SUFFICES ASSUME IInv, Durable, NEW g \in granted, FenceMatches(g.task, g.id)
                 PROVE  g \in Live
    BY Zenon DEF GrantIsDurable
  <2>2. g.task \in Task /\ g.id \in Lease
    BY <2>1, Zenon DEF IInv, TypeOK, LeaseRecord
  <2>3. g.task \in Held
    BY <2>1, <2>2, RecordsAssumption, Zenon DEF FenceMatches, Held
  <2>. QED
    BY <2>1, <2>3, Zenon DEF IInv, ClosedIsReleased, FenceMatches, Durable, Live
<1>. QED
  BY <1>1, <1>2, <1>3, EngineInvariant, PTL DEF Spec

(* Until its deadline, only its own ack ends a lease that Fetch returned.  *)
THEOREM LeaseIsHeld ==
  ASSUME HasJournal, "torn" \notin Faults
  PROVE  Spec => LeaseHoldsUntilDeadline
<1>1. IInv /\ GrantIsDurable /\ [Next]_vars =>
        [\A g \in granted :
          /\ FenceMatches(g.task, g.id)
          /\ now < g.expires
          /\ ~FenceMatches(g.task, g.id)'
          => g.task \in completed']_vars
  BY HoldsStep, Zenon
<1>. QED
  BY <1>1, GrantsAreDurable, EngineInvariant, PTL DEF Spec, LeaseHoldsUntilDeadline

(* The journal of an engine holds one fetch record of a lease and, behind  *)
(* it, the records that close it, through every failed append and every    *)
(* crash: replaying it in order and collecting its records come to the     *)
(* same.                                                                   *)
THEOREM JournalIsInOrder == Spec => [](Ids(closed) \subseteq Ids(opened)) /\ [][InOrder]_vars
<1>1. Init => Recorded
  BY Zenon DEF Init, JournalInit, Recorded, Ids
<1>2. IInv /\ Recorded /\ [Next]_vars => [InOrder]_vars /\ Recorded'
  BY RecordedStep, Zenon
<1>3. Recorded => Ids(closed) \subseteq Ids(opened)
  BY Zenon DEF Recorded
<1>. QED
  BY <1>1, <1>2, <1>3, EngineInvariant, PTL DEF Spec

(* The engine is a client of queue.Backend like any other: whatever it     *)
(* does, errors and crashes included, the backend sees its own operations  *)
(* and nothing else.                                                       *)
THEOREM EngineUsesBackend == Spec => BackendSpec
<1>1. Init => BackendInit
  BY Zenon DEF Init
<1>2. TypeOK /\ [Next]_vars => [BackendNext]_backendVars
  BY BackendUse
<1>. QED
  BY <1>1, <1>2, TypeCorrect, PTL DEF Spec, BackendSpec

=============================================================================
