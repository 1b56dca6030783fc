------------------------------ MODULE Engine ------------------------------
(***************************************************************************)
(* core.Engine over a backend that survives the process and a journal: the *)
(* lease lifecycle of one queue through errors, crashes and restarts.      *)
(*                                                                         *)
(* Engine.mu is held for the whole of every operation, backend and journal *)
(* calls included, so at most one operation is under way; pc is where it   *)
(* stands.  An operation is cut into steps where a crash, or an error,     *)
(* leaves something different behind: after each backend call and after    *)
(* each journal append.  A change of the lease map or of the heap is       *)
(* merged with the append before it, because a crash forgets both.         *)
(***************************************************************************)
EXTENDS Backend, Journal

CONSTANTS
  Timeout,      \* lease timeouts clients ask for
  RetryDelay,   \* EngineConfig.RequeueRetryDelay
  MaxAttempts,  \* EngineConfig.MaxAttempts, 0 disables dead-lettering
  Faults,       \* the kinds of error that may happen
  MaxFaults,    \* bound on the errors of a behaviour
  MaxCrashes    \* bound on the crashes of a behaviour

(***************************************************************************)
(* "backend": a backend call fails and did nothing.  "reply": it was       *)
(* applied and the reply was lost.  "append": a journal append fails and   *)
(* left nothing, or a whole frame.  "torn": it left half a frame.          *)
(***************************************************************************)
FaultKinds == {"backend", "reply", "append", "torn"}

ASSUME EngineAssumption ==
  /\ Timeout \subseteq Nat \ {0}
  /\ RetryDelay \in Nat \ {0}
  /\ MaxAttempts \in Nat
  /\ Faults \subseteq FaultKinds
  /\ MaxFaults \in Nat
  /\ MaxCrashes \in Nat

VARIABLES
  leases,       \* Engine.leases: a set of lease records, keyed by id
  expirations,  \* Engine.expirations: the items of the heap
  pc,           \* where the operation holding the mutex stands
  inFlight,     \* the lease that operation works on: a singleton, or {}
  closing,      \* the closing record it is about to append
  matched,      \* RecoveryResult.MatchedLeaseIDs during restore
  reapNow,      \* the time the ticker handed to the reaper, or NoTick
  now,          \* the clock
  faults, crashes,
  issued,       \* history: lease IDs drawn so far
  granted,      \* history: leases returned by Fetch
  abandoned,    \* history: claims a failed Fetch left behind in processing
  expiries      \* history: expirations the backend applied to a task

memoryVars == <<leases, expirations>>
callVars == <<pc, inFlight, closing, matched, reapNow>>
budgetVars == <<faults, crashes>>
historyVars == <<issued, granted, abandoned, expiries>>
vars == <<backendVars, journalVars, memoryVars, callVars, now, budgetVars,
          historyVars>>

NoTick == 0   \* the clock starts at 1

ExpirationItem == [id : Lease, expires : Nat]

(***************************************************************************)
(* "down" no process; "restore" newEngine past the backend reconciliation; *)
(* "broken" recoveryErr is set; "idle" the mutex is free; "fetch" Fetch    *)
(* has acquired; "handback" its append failed; "ackClose" Ack is about to  *)
(* journal; "reap" the loop of ReapExpired; "reapClose" expireLease is     *)
(* about to journal.                                                       *)
(***************************************************************************)
PC == {"down", "restore", "broken", "idle", "fetch", "handback", "ackClose",
       "reap", "reapClose"}

TypeOK ==
  /\ BackendTypeOK
  /\ JournalTypeOK
  /\ leases \subseteq LeaseRecord
  /\ expirations \subseteq ExpirationItem
  /\ pc \in PC
  /\ inFlight \subseteq LeaseRecord
  /\ closing \in CloseOp
  /\ matched \subseteq Lease
  /\ reapNow \in Nat
  /\ now \in Nat \ {0}
  /\ faults \in Nat
  /\ crashes \in Nat
  /\ issued \subseteq Lease
  /\ granted \subseteq LeaseRecord
  /\ abandoned \subseteq Lease
  /\ expiries \in [Task -> Nat]

Init ==
  /\ BackendInit
  /\ JournalInit
  /\ leases = {}
  /\ expirations = {}
  /\ pc = "down"
  /\ inFlight = {}
  /\ closing = "stale"
  /\ matched = {}
  /\ reapNow = NoTick
  /\ now = 1
  /\ faults = 0
  /\ crashes = 0
  /\ issued = {}
  /\ granted = {}
  /\ abandoned = {}
  /\ expiries = [t \in Task |-> 0]

-----------------------------------------------------------------------------
(* Errors *)

Fault(kind) ==
  /\ kind \in Faults
  /\ faults < MaxFaults
  /\ faults' = faults + 1
  /\ UNCHANGED crashes

NoFault == UNCHANGED budgetVars

(* An append of the frame AppendWhole describes returns an error. *)
AppendFails(AppendWhole) ==
  \/ Fault("append") /\ AppendNothing
  \/ Fault("append") /\ HasJournal /\ AppendWhole
  \/ Fault("torn") /\ AppendHalf

Unlock ==
  /\ pc' = "idle"
  /\ inFlight' = {}
  /\ closing' = "stale"
  /\ UNCHANGED <<matched, reapNow>>

-----------------------------------------------------------------------------
(* Enqueue.  A lost reply leaves the same state as success; a failed call  *)
(* leaves the state it found.                                              *)

Enqueue(t) ==
  /\ pc = "idle"
  /\ Push(t)
  /\ NoFault
  /\ UNCHANGED <<journalVars, memoryVars, callVars, now, historyVars>>

-----------------------------------------------------------------------------
(* Fetch *)

(* Mutant of NewLease: the lease counts the delivery it stands for. *)
NewLeaseCounted(l, d) ==
  [id |-> l, task |-> Head(ready), attempts |-> attempts[Head(ready)] + 1,
   expires |-> now + d]

NewLease(l, d) ==
  [id |-> l, task |-> Head(ready), attempts |-> attempts[Head(ready)],
   expires |-> now + d]

FetchAcquire(l, d) ==
  /\ pc = "idle"
  /\ l \notin issued
  /\ Acquire(l)
  /\ inFlight' = {NewLease(l, d)}
  /\ pc' = "fetch"
  /\ issued' = issued \cup {l}
  /\ NoFault
  /\ UNCHANGED <<journalVars, memoryVars, closing, matched, reapNow, now,
                 granted, abandoned, expiries>>

(* The backend moved the task and Acquire returned an error all the same. *)
FetchAcquireReplyLost(l) ==
  /\ pc = "idle"
  /\ l \notin issued
  /\ Acquire(l)
  /\ Fault("reply")
  /\ issued' = issued \cup {l}
  /\ abandoned' = abandoned \cup {l}
  /\ UNCHANGED <<journalVars, memoryVars, callVars, now, granted, expiries>>

Schedule(l, at) == {[id |-> l, expires |-> at]}

FetchRecord ==
  /\ pc = "fetch"
  /\ \E r \in inFlight :
       /\ AppendFetch(r)
       /\ leases' = leases \cup {r}
       /\ expirations' = expirations \cup Schedule(r.id, r.expires)
       /\ granted' = granted \cup {r}
  /\ Unlock
  /\ NoFault
  /\ UNCHANGED <<backendVars, now, issued, abandoned, expiries>>

(* Mutant of FetchRecordFails: an error of the journal is ignored. *)
FetchRecordIgnored ==
  /\ pc = "fetch"
  /\ \E r \in inFlight :
       /\ AppendFails(AppendFetch(r))
       /\ leases' = leases \cup {r}
       /\ expirations' = expirations \cup Schedule(r.id, r.expires)
       /\ granted' = granted \cup {r}
  /\ Unlock
  /\ UNCHANGED <<backendVars, now, issued, abandoned, expiries>>

FetchRecordFails ==
  /\ pc = "fetch"
  /\ \E r \in inFlight : AppendFails(AppendFetch(r))
  /\ pc' = "handback"
  /\ UNCHANGED <<backendVars, memoryVars, inFlight, closing, matched, reapNow,
                 now, historyVars>>

FetchHandBack ==
  /\ pc = "handback"
  /\ \E r \in inFlight : Requeue(r.task, r.id)
  /\ NoFault \/ Fault("reply")
  /\ Unlock
  /\ UNCHANGED <<journalVars, memoryVars, now, historyVars>>

FetchHandBackFails ==
  /\ pc = "handback"
  /\ Fault("backend")
  /\ abandoned' = abandoned \cup Ids(inFlight)
  /\ Unlock
  /\ UNCHANGED <<backendVars, journalVars, memoryVars, now, issued, granted,
                 expiries>>

-----------------------------------------------------------------------------
(* Ack, called with the ID of a lease that Fetch once returned.  An ID     *)
(* that is not in the lease map gets ErrLeaseNotFound and changes nothing. *)

Forget(l) == leases' = { r \in leases : r.id # l }

(* Mutant of AckComplete: the journal first, then the backend. *)
AckJournalFirst(r) ==
  /\ pc = "idle"
  /\ r.id \in Ids(granted)
  /\ AppendClose("ack", r.id)
  /\ closing' = "ack"
  /\ inFlight' = {r}
  /\ pc' = "ackClose"
  /\ NoFault
  /\ UNCHANGED <<backendVars, memoryVars, matched, reapNow, now, historyVars>>

AckComplete(r) ==
  /\ pc = "idle"
  /\ r.id \in Ids(granted)
  /\ \/ Complete(r.task, r.id) /\ closing' = "ack"
     \/ /\ ~FenceMatches(r.task, r.id)
        /\ closing' = "stale"
        /\ UNCHANGED backendVars
  /\ inFlight' = {r}
  /\ pc' = "ackClose"
  /\ NoFault
  /\ UNCHANGED <<journalVars, memoryVars, matched, reapNow, now, historyVars>>

AckReplyLost(r) ==
  /\ pc = "idle"
  /\ r.id \in Ids(granted)
  /\ Complete(r.task, r.id)
  /\ Fault("reply")
  /\ UNCHANGED <<journalVars, memoryVars, callVars, now, historyVars>>

AckRecord ==
  /\ pc = "ackClose"
  /\ \E r \in inFlight : AppendClose(closing, r.id) /\ Forget(r.id)
  /\ Unlock
  /\ NoFault
  /\ UNCHANGED <<backendVars, expirations, now, historyVars>>

AckRecordFails ==
  /\ pc = "ackClose"
  /\ \E r \in inFlight : AppendFails(AppendClose(closing, r.id))
  /\ Unlock
  /\ UNCHANGED <<backendVars, memoryVars, now, historyVars>>

-----------------------------------------------------------------------------
(* The reaper: a ticker whose channel holds one time, and ReapExpired.     *)

Ticker ==
  /\ pc # "down"
  /\ reapNow = NoTick
  /\ reapNow' = now
  /\ UNCHANGED <<backendVars, journalVars, memoryVars, pc, inFlight, closing,
                 matched, now, budgetVars, historyVars>>

ReapBegin ==
  /\ pc = "idle"
  /\ reapNow # NoTick
  /\ pc' = "reap"
  /\ UNCHANGED <<backendVars, journalVars, memoryVars, inFlight, closing,
                 matched, reapNow, now, budgetVars, historyVars>>

(* ReapExpired returns recoveryErr. *)
ReapRefused ==
  /\ pc = "broken"
  /\ reapNow # NoTick
  /\ reapNow' = NoTick
  /\ UNCHANGED <<backendVars, journalVars, memoryVars, pc, inFlight, closing,
                 matched, now, budgetVars, historyVars>>

(* ReapExpired returns. *)
EndReap ==
  /\ pc' = "idle"
  /\ inFlight' = {}
  /\ closing' = "stale"
  /\ reapNow' = NoTick
  /\ UNCHANGED matched

(* The top of the heap when it is due; among equals any may be on top. *)
Due ==
  { i \in expirations :
      /\ i.expires <= reapNow
      /\ \A j \in expirations : i.expires <= j.expires }

ReapEnd ==
  /\ pc = "reap"
  /\ Due = {}
  /\ EndReap
  /\ UNCHANGED <<backendVars, journalVars, memoryVars, now, budgetVars,
                 historyVars>>

(* The lease of a popped item, if it is still there and over. *)
Lapsed(i) == { r \in leases : r.id = i.id /\ r.expires <= reapNow }

ReapSkip(i) ==
  /\ pc = "reap"
  /\ Lapsed(i) = {}
  /\ expirations' = expirations \ {i}
  /\ UNCHANGED <<backendVars, journalVars, leases, callVars, now, budgetVars,
                 historyVars>>

(* Mutant of ShouldDeadLetter: off by one. *)
ShouldDeadLetterLate(r) == MaxAttempts > 0 /\ r.attempts >= MaxAttempts

ShouldDeadLetter(r) == MaxAttempts > 0 /\ r.attempts + 1 >= MaxAttempts

CountExpiry(t) == expiries' = [expiries EXCEPT ![t] = @ + 1]

(* The backend half of expireLease when it is applied. *)
ExpireInBackend(r) ==
  /\ CountExpiry(r.task)
  /\ IF ShouldDeadLetter(r) THEN DeadLetter(r.task, r.id)
                            ELSE Requeue(r.task, r.id)

(* Mutant of ExpireOp: decided by the configuration, not by the lease. *)
ExpireOpByConfig(r) == IF MaxAttempts > 0 THEN "dead_letter" ELSE "expire"

ExpireOp(r) == IF ShouldDeadLetter(r) THEN "dead_letter" ELSE "expire"

ReapExpire(i, r) ==
  /\ pc = "reap"
  /\ r \in Lapsed(i)
  /\ expirations' = expirations \ {i}
  /\ \/ ExpireInBackend(r) /\ closing' = ExpireOp(r)
     \/ /\ ~FenceMatches(r.task, r.id)
        /\ closing' = "stale"
        /\ UNCHANGED <<backendVars, expiries>>
  /\ inFlight' = {r}
  /\ pc' = "reapClose"
  /\ NoFault
  /\ UNCHANGED <<journalVars, leases, matched, reapNow, now, issued, granted,
                 abandoned>>

(* Mutant of ReapBackendFails: the popped item is not pushed again. *)
ReapLosesItem(i, r) ==
  /\ pc = "reap"
  /\ r \in Lapsed(i)
  /\ expirations' = expirations \ {i}
  /\ \/ Fault("backend") /\ UNCHANGED <<backendVars, expiries>>
     \/ Fault("reply") /\ ExpireInBackend(r)
  /\ EndReap
  /\ UNCHANGED <<journalVars, leases, now, issued, granted, abandoned>>

(* The backend call returned an error: the item goes back, later. *)
ReapBackendFails(i, r) ==
  /\ pc = "reap"
  /\ r \in Lapsed(i)
  /\ expirations' = (expirations \ {i}) \cup Schedule(i.id, reapNow + RetryDelay)
  /\ \/ Fault("backend") /\ UNCHANGED <<backendVars, expiries>>
     \/ Fault("reply") /\ ExpireInBackend(r)
  /\ EndReap
  /\ UNCHANGED <<journalVars, leases, now, issued, granted, abandoned>>

ReapRecord ==
  /\ pc = "reapClose"
  /\ \E r \in inFlight : AppendClose(closing, r.id) /\ Forget(r.id)
  /\ pc' = "reap"
  /\ inFlight' = {}
  /\ closing' = "stale"
  /\ NoFault
  /\ UNCHANGED <<backendVars, expirations, matched, reapNow, now, historyVars>>

ReapRecordFails ==
  /\ pc = "reapClose"
  /\ \E r \in inFlight :
       /\ AppendFails(AppendClose(closing, r.id))
       /\ expirations' = expirations \cup Schedule(r.id, reapNow + RetryDelay)
  /\ EndReap
  /\ UNCHANGED <<backendVars, leases, now, historyVars>>

-----------------------------------------------------------------------------
(* Crash and restart *)

(* The process dies.  A fetch record on its way may have reached the file  *)
(* whole; a closing record that did is AckRecord or ReapRecord, then this. *)
Crash ==
  /\ pc # "down"
  /\ crashes < MaxCrashes
  /\ crashes' = crashes + 1
  /\ \/ UNCHANGED journalVars
     \/ pc = "fetch" /\ \E r \in inFlight : AppendFetch(r)
  /\ leases' = {}
  /\ expirations' = {}
  /\ pc' = "down"
  /\ inFlight' = {}
  /\ closing' = "stale"
  /\ matched' = {}
  /\ reapNow' = NoTick
  /\ UNCHANGED <<backendVars, now, faults, historyVars>>

ActiveLeases == { [task |-> r.task, lease |-> r.id] : r \in Live }

Recover ==
  /\ pc = "down"
  /\ OpenJournal
  /\ matched' = MatchedLeaseIDs(ActiveLeases)
  /\ RecoverOrphanedProcessing(ActiveLeases)
  /\ abandoned' = {}
  /\ pc' = "restore"
  /\ NoFault
  /\ UNCHANGED <<memoryVars, inFlight, closing, reapNow, now, issued, granted,
                 expiries>>

RecoverFails ==
  /\ pc = "down"
  /\ OpenJournal
  /\ \/ Fault("backend") /\ UNCHANGED <<backendVars, abandoned>>
     \/ /\ Fault("reply")
        /\ RecoverOrphanedProcessing(ActiveLeases)
        /\ abandoned' = {}
  /\ pc' = "broken"
  /\ UNCHANGED <<memoryVars, inFlight, closing, matched, reapNow, now, issued,
                 granted, expiries>>

(* The leases of the journal the backend no longer holds, one by one. *)
Unmatched == Ids(Live) \ matched

RestoreStale(l) ==
  /\ pc = "restore"
  /\ AppendClose("stale", l)
  /\ NoFault
  /\ UNCHANGED <<backendVars, memoryVars, callVars, now, historyVars>>

RestoreStaleFails(l) ==
  /\ pc = "restore"
  /\ AppendFails(AppendClose("stale", l))
  /\ pc' = "broken"
  /\ matched' = {}
  /\ UNCHANGED <<backendVars, memoryVars, inFlight, closing, reapNow, now,
                 historyVars>>

(* Mutants of Restored: leases that are over are dropped; every lease gets *)
(* a new term.                                                             *)
RestoredUnexpired == { r \in Live : r.id \in matched /\ r.expires > now }

RestoredAfresh ==
  { [r EXCEPT !.expires = @ + RetryDelay] : r \in { s \in Live : s.id \in matched } }

Restored == { r \in Live : r.id \in matched }

(* Mutant of RestorePublish: the leases come back, the heap does not. *)
RestoreUnscheduled ==
  /\ pc = "restore"
  /\ Unmatched = {}
  /\ leases' = Restored
  /\ expirations' = {}
  /\ pc' = "idle"
  /\ matched' = {}
  /\ UNCHANGED <<backendVars, journalVars, inFlight, closing, reapNow, now,
                 budgetVars, historyVars>>

RestorePublish ==
  /\ pc = "restore"
  /\ Unmatched = {}
  /\ leases' = Restored
  /\ expirations' = { [id |-> r.id, expires |-> r.expires] : r \in Restored }
  /\ pc' = "idle"
  /\ matched' = {}
  /\ UNCHANGED <<backendVars, journalVars, inFlight, closing, reapNow, now,
                 budgetVars, historyVars>>

-----------------------------------------------------------------------------
(* Time.  The code compares the clock with deadlines only, so an advance   *)
(* past the last pending one changes nothing: that bounds the clock.       *)

Pending == { i.expires : i \in expirations }
             \cup { r.expires : r \in Live \cup inFlight }

Tick ==
  /\ \E at \in Pending : now < at
  /\ now' = now + 1
  /\ UNCHANGED <<backendVars, journalVars, memoryVars, callVars, budgetVars,
                 historyVars>>

-----------------------------------------------------------------------------

Client ==
  \/ \E t \in Task : Enqueue(t)
  \/ \E l \in Lease : \/ \E d \in Timeout : FetchAcquire(l, d)
                      \/ FetchAcquireReplyLost(l)
  \/ \E r \in leases : AckComplete(r) \/ AckReplyLost(r)

(* What goes on by itself once begun: the rest of Fetch, Ack, newEngine. *)
Continue ==
  \/ FetchRecord \/ FetchRecordFails \/ FetchHandBack \/ FetchHandBackFails
  \/ AckRecord \/ AckRecordFails
  \/ Recover \/ RecoverFails
  \/ \E l \in Unmatched : RestoreStale(l) \/ RestoreStaleFails(l)
  \/ RestorePublish

Reap ==
  \/ ReapBegin \/ ReapRefused \/ ReapEnd
  \/ \E i \in Due : \/ ReapSkip(i)
                    \/ \E r \in leases : ReapExpire(i, r) \/ ReapBackendFails(i, r)
  \/ ReapRecord \/ ReapRecordFails

Next == Client \/ Continue \/ Ticker \/ Reap \/ Crash \/ Tick

Spec == Init /\ [][Next]_vars

(***************************************************************************)
(* Fairness: a goroutine that runs goes on running, the ticker keeps       *)
(* firing, and the reaper gets the mutex although clients compete for it   *)
(* (a Go mutex in starvation mode is handed to the waiter).  Clients owe   *)
(* nothing: no Enqueue, Fetch or Ack is ever due, and no process dies.     *)
(***************************************************************************)
FairSpec ==
  /\ Spec
  /\ WF_vars(Continue)
  /\ WF_vars(Ticker)
  /\ SF_vars(ReapBegin)
  /\ WF_vars(Reap)
  /\ WF_vars(Tick)

-----------------------------------------------------------------------------
(* Safety *)

(* No two tasks carry the same lease as their fence, and the fence of a    *)
(* task agrees with every record of that lease, in memory and in the file: *)
(* the task, and the attempt counter from which expireLease decides        *)
(* between requeue and dead letter.                                        *)
FenceAgrees ==
  /\ \A t, u \in Held : processing[t] = processing[u] => t = u
  /\ \A t \in Held : \A r \in leases \cup opened \cup inFlight :
       r.id = processing[t] => r.task = t /\ r.attempts = attempts[t]

(* The journal never runs ahead of the backend: a lease with a closing     *)
(* record is not the fence of any task.  This is what the order "backend   *)
(* first, then journal" in Ack and expireLease is for: after a crash a     *)
(* task whose lease is closed would be returned to ready although its      *)
(* worker finished it.                                                     *)
ClosedIsReleased == \A t \in Held : processing[t] \notin Ids(closed)

(* A closing record tells what happened to its lease: after "ack" the task *)
(* is completed, after "dead_letter" it is dead, after "expire" the        *)
(* attempt was charged.                                                    *)
JournalTruthful ==
  \A r \in opened, c \in closed :
    r.id = c.id =>
      /\ c.op = "ack" => r.task \in completed
      /\ c.op = "dead_letter" => r.task \in dead
      /\ c.op = "expire" => attempts[r.task] > r.attempts

(* While the engine serves and no operation is under way, every task in    *)
(* processing has its lease in the lease map, so that an ack or the reaper *)
(* can end it; the exceptions are the claims a failed Fetch left behind,   *)
(* and a restart clears those.                                             *)
HeldIsLeased ==
  pc \in {"idle", "reap"} =>
    \A t \in Held : processing[t] \in Ids(leases) \cup abandoned

(* Every lease in the map has exactly one item in the heap, not earlier    *)
(* than its deadline, except the one the reaper has just popped and not    *)
(* yet journalled: a lease without an item would never expire, and one     *)
(* with an earlier item would lose it to the "continue" in ReapExpired.    *)
LeaseIsScheduled ==
  /\ \A i, j \in expirations : i.id = j.id => i = j
  /\ \A r \in leases :
       \/ pc = "reapClose" /\ r \in inFlight
       \/ \E i \in expirations : i.id = r.id /\ i.expires >= r.expires

(* The dead-letter cap: a task whose leases expired MaxAttempts times is   *)
(* dead; it is not offered to a worker again, whatever crashes, failed     *)
(* calls and lost replies came in between.                                 *)
RetryCap ==
  MaxAttempts > 0 =>
    \A t \in Task : expiries[t] >= MaxAttempts => t \in dead

(* A lease in the map is the lease the worker got: restore gives it back   *)
(* the task, the attempt counter and the deadline it had.                  *)
LeaseKeepsItsTerms ==
  \A r \in leases, g \in granted : r.id = g.id => r = g

(* A lease that Fetch returned and that the backend still holds would come *)
(* back from a replay of the journal, whenever the process dies.           *)
GrantIsDurable ==
  \A g \in granted : FenceMatches(g.task, g.id) => g \in Live

(* Until its deadline a lease that Fetch returned keeps its task: only its *)
(* own ack takes the task out of processing, never the reaper, another     *)
(* lease of the same task or a restart.                                    *)
LeaseHoldsUntilDeadline ==
  [][ \A g \in granted :
        /\ FenceMatches(g.task, g.id)
        /\ now < g.expires
        /\ ~FenceMatches(g.task, g.id)'
        => g.task \in completed' ]_vars

(* A restart never charges an attempt: reconciliation returns a task with  *)
(* the counter it had, and only a step of an operation on the task's own   *)
(* lease raises it.                                                        *)
ChargedByOwnLeaseOnly ==
  [][ \A t \in Task :
        attempts'[t] # attempts[t] =>
          /\ pc \in {"handback", "reap"}
          /\ attempts'[t] = attempts[t] + 1
          /\ t \in Held ]_vars

-----------------------------------------------------------------------------
(* What the documentation says, and the code does not quite do. *)

(* A task is dead-lettered for the expirations of its leases, MaxAttempts  *)
(* of them, as the flag -max-attempts has it ("maximum lease expirations   *)
(* before dead-lettering").                                                *)
DeadAfterExpirations == \A t \in dead : expiries[t] >= MaxAttempts

(* When Fetch has returned, whatever it returned, no task is held under a  *)
(* lease the engine does not have ("a failed write hands that exact claim  *)
(* back rather than leaving it held by nobody").                           *)
NotHeldByNobody ==
  pc = "idle" => \A t \in Held : processing[t] \in Ids(leases)

-----------------------------------------------------------------------------
(* Liveness *)

(* A lease does not outlive its worker: a task that is held under a lease  *)
(* of the lease map, or under one a replay would bring back, is released   *)
(* in the end, by the reaper if nobody acks, whatever errors and crashes   *)
(* come in between.  The exception is an engine whose recovery failed.     *)
HeldIsReleased ==
  \A t \in Task, l \in Lease :
    (FenceMatches(t, l) /\ l \in Ids(leases) \cup Ids(Live))
      ~> (~FenceMatches(t, l) \/ pc = "broken")

-----------------------------------------------------------------------------
(* The inductive invariant behind the safety properties, in three layers.  *)

AllRecords == leases \cup opened \cup granted \cup inFlight

Serving == {"idle", "fetch", "handback", "ackClose", "reap", "reapClose"}

(* Who a lease ID stands for: one record, wherever it is kept. *)
Identity ==
  /\ \A r, s \in AllRecords : r.id = s.id => r = s
  /\ Ids(AllRecords) \subseteq issued
  /\ Ids(closed) \subseteq issued
  /\ Ids(expirations) \subseteq issued
  /\ \A t \in Held : processing[t] \in issued

(* What the running operation knows of the lease it works on. *)
InFlightFacts ==
  /\ \A r, s \in inFlight : r = s
  /\ pc \notin {"fetch", "handback", "ackClose", "reapClose"} => inFlight = {}
  /\ pc \in {"fetch", "handback"} =>
       \A r \in inFlight :
         /\ FenceMatches(r.task, r.id)
         /\ r.id \notin Ids(granted) \cup Ids(leases) \cup Ids(expirations)
  /\ pc \in {"ackClose", "reapClose"} =>
       \A r \in inFlight :
         /\ r \in leases
         /\ \A t \in Held : processing[t] # r.id
         /\ closing = "ack" => r.task \in completed
         /\ closing = "dead_letter" => r.task \in dead
         /\ closing = "expire" => attempts[r.task] > r.attempts
  /\ pc = "reapClose" =>
       /\ Ids(inFlight) \cap Ids(expirations) = {}
       /\ \A r \in inFlight : r.expires <= reapNow

(* What the lease map, the heap and the ticker hold at each stage. *)
StageFacts ==
  /\ pc \notin Serving => leases = {} /\ expirations = {}
  /\ pc = "restore" =>
       /\ \A t \in Held : processing[t] \in matched
       /\ matched \subseteq Ids(Live)
  /\ pc \in Serving =>
       \A t \in Held :
         processing[t] \in Ids(leases) \cup abandoned \cup Ids(inFlight)
  /\ reapNow <= now

(* Expirations are charged, so the attempt counter bounds them, and the    *)
(* cap is compared with a counter that is up to date.                      *)
Accounting ==
  /\ \A t \in Task : expiries[t] <= attempts[t]
  /\ RetryCap

IInv ==
  /\ TypeOK
  /\ OnePlace
  /\ Identity
  /\ FenceAgrees
  /\ ClosedIsReleased
  /\ InFlightFacts
  /\ StageFacts
  /\ LeaseIsScheduled
  /\ JournalTruthful
  /\ Accounting

=============================================================================
