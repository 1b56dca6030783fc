------------------------------ MODULE Service ------------------------------
(***************************************************************************)
(* service.Service: several named queues, each with an engine that is made *)
(* when the queue is first used, which is also when its journal is opened  *)
(* and replayed.  Clients and the reaper call it concurrently.             *)
(*                                                                         *)
(* An engine is here what module Engine shows it to be: a map of leases,   *)
(* and behind it the claims that backend and journal would give back to a  *)
(* new engine.  Its operations are single steps, because it has a mutex of *)
(* its own; Service.mu is held from the lookup of an engine until a        *)
(* missing one is made, recovered and stored, and for taking a snapshot.   *)
(***************************************************************************)
EXTENDS Naturals, FiniteSets

CONSTANTS
  Queue,       \* queue names that validQueueName accepts
  Lease,       \* lease IDs
  Client,      \* goroutines that serve connections
  MaxQueues,   \* ServiceConfig.MaxQueues, or its default; 0 is "no limit" here
  MaxFaults,   \* bound on the errors of a behaviour
  MaxCrashes   \* bound on its crashes

ASSUME ServiceAssumption ==
  /\ IsFiniteSet(Queue)
  /\ MaxQueues \in Nat
  /\ MaxFaults \in Nat
  /\ MaxCrashes \in Nat

VARIABLES
  engine,    \* Service.engines: "absent", "serving", "broken" (recoveryErr set)
  leases,    \* Engine.leases of each engine
  claims,    \* the leases that backend and journal of a queue both hold
  journals,  \* journal handles the process has open, per queue
  mutex,     \* the clients that hold Service.mu: none, or one
  call,      \* what each client is doing
  reaper,    \* what the reaper is doing
  lapsed,    \* leases whose deadline is over
  faults, crashes,
  issued     \* history: lease IDs drawn so far

queueVars == <<engine, leases, claims, journals>>
callVars == <<mutex, call, reaper>>
budgetVars == <<faults, crashes>>
vars == <<queueVars, callVars, lapsed, budgetVars, issued>>

(* A client is idle; it wants to find, makes or uses the engine of a queue *)
(* (Enqueue, Fetch); it wants to ack a lease, or scans the engines in left *)
(* for it.  known: the lease was in one of them when the scan began.       *)
Idle == [op |-> "idle"]
Wants(op, q) == [op |-> op, queue |-> q]
WantsAck(l) == [op |-> "ack", lease |-> l]
Scan(l, qs, known) == [op |-> "scan", lease |-> l, left |-> qs, known |-> known]

(* The reaper between two passes.  left: the engines of its snapshot still *)
(* to be visited; due: the leases that were over when the pass began;      *)
(* missed: those of them whose queue is not in the snapshot, or has its    *)
(* error in errs.                                                          *)
AtRest == [on |-> FALSE, left |-> {}, due |-> {}, missed |-> {}]

Calls ==
  {Idle}
    \cup { Wants(op, q) : op \in {"find", "make", "use"}, q \in Queue }
    \cup { WantsAck(l) : l \in Lease }
    \cup { Scan(l, qs, k) : l \in Lease, qs \in SUBSET Queue, k \in BOOLEAN }

Existing == { q \in Queue : engine[q] # "absent" }

Leased == UNION { leases[q] : q \in Existing }

ServiceTypeOK ==
  /\ engine \in [Queue -> {"absent", "serving", "broken"}]
  /\ leases \in [Queue -> SUBSET Lease]
  /\ claims \in [Queue -> SUBSET Lease]
  /\ journals \in [Queue -> Nat]
  /\ mutex \subseteq Client
  /\ call \in [Client -> Calls]
  /\ reaper.left \subseteq Queue /\ reaper.missed \subseteq reaper.due
  /\ lapsed \subseteq issued /\ issued \subseteq Lease
  /\ \A q \in Queue : engine[q] # "serving" => leases[q] = {}
  /\ \A c \in Client : call[c].op = "make" <=> c \in mutex

Init ==
  /\ engine = [q \in Queue |-> "absent"]
  /\ leases = [q \in Queue |-> {}]
  /\ claims = [q \in Queue |-> {}]
  /\ journals = [q \in Queue |-> 0]
  /\ mutex = {}
  /\ call = [c \in Client |-> Idle]
  /\ reaper = AtRest
  /\ lapsed = {}
  /\ faults = 0
  /\ crashes = 0
  /\ issued = {}

Fault ==
  /\ faults < MaxFaults
  /\ faults' = faults + 1
  /\ UNCHANGED crashes

NoFault == UNCHANGED budgetVars

Becomes(c, state) == call' = [call EXCEPT ![c] = state]

(* A client calls Enqueue or Fetch, or Ack with a lease it was given. *)
Call(c) ==
  /\ call[c].op = "idle"
  /\ \/ \E q \in Queue : Becomes(c, Wants("find", q))
     \/ \E l \in issued : Becomes(c, WantsAck(l))
  /\ UNCHANGED <<queueVars, mutex, reaper, lapsed, budgetVars, issued>>

-----------------------------------------------------------------------------
(* engineFor *)

Full == MaxQueues > 0 /\ Cardinality(Existing) >= MaxQueues

(* Mutant of Lookup: no mutex, and no limit, while the engine is made. *)
LookupUnlocked(c) ==
  /\ call[c].op = "find"
  /\ Becomes(c, Wants(IF engine[call[c].queue] = "absent" THEN "make" ELSE "use",
                     call[c].queue))
  /\ UNCHANGED <<queueVars, mutex, reaper, lapsed, budgetVars, issued>>

(* The engine is there, or there are too many, or it must be made. *)
Lookup(c) ==
  /\ call[c].op = "find"
  /\ mutex = {}
  /\ LET q == call[c].queue
     IN  \/ engine[q] # "absent" /\ Becomes(c, Wants("use", q)) /\ UNCHANGED mutex
         \/ engine[q] = "absent" /\ Full /\ Becomes(c, Idle) /\ UNCHANGED mutex
         \/ engine[q] = "absent" /\ ~Full /\ Becomes(c, Wants("make", q)) /\ mutex' = {c}
  /\ UNCHANGED <<queueVars, reaper, lapsed, budgetVars, issued>>

(* The journal is opened, the engine recovered, and stored in any case. *)
Make(c) ==
  /\ call[c].op = "make"
  /\ LET q == call[c].queue
     IN  /\ journals' = [journals EXCEPT ![q] = @ + 1]
         /\ \/ /\ NoFault
               /\ engine' = [engine EXCEPT ![q] = "serving"]
               /\ leases' = [leases EXCEPT ![q] = claims[q]]
            \/ /\ Fault
               /\ engine' = [engine EXCEPT ![q] = "broken"]
               /\ UNCHANGED leases
         /\ Becomes(c, Wants("use", q))
  /\ mutex' = mutex \ {c}
  /\ UNCHANGED <<claims, reaper, lapsed, issued>>

(* Mutant of MakeFails: an early return that keeps the mutex. *)
MakeFailsLocked(c) ==
  /\ call[c].op = "make"
  /\ Fault
  /\ Becomes(c, Idle)
  /\ UNCHANGED <<queueVars, mutex, reaper, lapsed, issued>>

(* The journal cannot be opened: nothing is stored. *)
MakeFails(c) ==
  /\ call[c].op = "make"
  /\ Fault
  /\ Becomes(c, Idle)
  /\ mutex' = mutex \ {c}
  /\ UNCHANGED <<queueVars, reaper, lapsed, issued>>

-----------------------------------------------------------------------------
(* Enqueue and Fetch on the engine.  The tasks are not modelled: Enqueue,  *)
(* a Fetch that finds none or fails and a call on a broken engine change   *)
(* nothing (what a failed Fetch may leave behind is in module Engine).     *)

Return(c) ==
  /\ call[c].op = "use"
  /\ Becomes(c, Idle)
  /\ UNCHANGED <<queueVars, mutex, reaper, lapsed, budgetVars, issued>>

Fetch(c, l) ==
  /\ call[c].op = "use"
  /\ engine[call[c].queue] = "serving"
  /\ l \notin issued
  /\ leases' = [leases EXCEPT ![call[c].queue] = @ \cup {l}]
  /\ claims' = [claims EXCEPT ![call[c].queue] = @ \cup {l}]
  /\ issued' = issued \cup {l}
  /\ Becomes(c, Idle)
  /\ UNCHANGED <<engine, journals, mutex, reaper, lapsed, budgetVars>>

-----------------------------------------------------------------------------
(* Ack: a snapshot of the engines, then one after the other in map order.  *)

Snapshot(c) ==
  /\ call[c].op = "ack"
  /\ mutex = {}
  /\ Becomes(c, Scan(call[c].lease, Existing, call[c].lease \in Leased))
  /\ UNCHANGED <<queueVars, mutex, reaper, lapsed, budgetVars, issued>>

Drop(q, ls) ==
  /\ leases' = [leases EXCEPT ![q] = @ \ ls]
  /\ claims' = [claims EXCEPT ![q] = @ \ ls]

(* The engine has the lease.  After an error it still does, although the   *)
(* backend may be done with it; such a lease is found to be stale by the   *)
(* next Ack, which answers ErrLeaseNotFound, so that the scan goes on.     *)
AckDone(c, q) ==
  /\ call[c].lease \in leases[q]
  /\ \/ /\ NoFault
        /\ Drop(q, {call[c].lease})
        /\ Becomes(c, IF call[c].lease \in claims[q] THEN Idle
                      ELSE [call[c] EXCEPT !.left = @ \ {q}])
     \/ /\ Fault
        /\ Becomes(c, Idle)
        /\ claims' \in {claims, [claims EXCEPT ![q] = @ \ {call[c].lease}]}
        /\ UNCHANGED leases

(* Mutant of AckNotHere: the first engine without the lease decides. *)
AckNowhere(c, q) ==
  /\ engine[q] = "serving"
  /\ call[c].lease \notin leases[q]
  /\ Becomes(c, Idle)
  /\ NoFault
  /\ UNCHANGED <<leases, claims>>

AckNotHere(c, q) ==
  /\ engine[q] = "serving"
  /\ call[c].lease \notin leases[q]
  /\ Becomes(c, [call[c] EXCEPT !.left = @ \ {q}])
  /\ NoFault
  /\ UNCHANGED <<leases, claims>>

(* Any other error ends the scan: here recoveryErr. *)
AckBroken(c, q) ==
  /\ engine[q] = "broken"
  /\ Becomes(c, Idle)
  /\ NoFault
  /\ UNCHANGED <<leases, claims>>

AckScan(c) ==
  /\ call[c].op = "scan"
  /\ \/ \E q \in call[c].left : AckDone(c, q) \/ AckNotHere(c, q) \/ AckBroken(c, q)
     \/ /\ call[c].left = {}
        /\ Becomes(c, Idle)
        /\ UNCHANGED <<leases, claims, budgetVars>>
  /\ UNCHANGED <<engine, journals, mutex, reaper, lapsed, issued>>

-----------------------------------------------------------------------------
(* ReapExpired: the same over all engines, errors collected.               *)

ReapBegin ==
  /\ ~reaper.on
  /\ mutex = {}
  /\ reaper' = [on |-> TRUE, left |-> Existing, due |-> lapsed,
                missed |-> lapsed \cap UNION { claims[q] : q \in Queue \ Existing }]
  /\ UNCHANGED <<queueVars, mutex, call, lapsed, budgetVars, issued>>

DueIn(q) == claims[q] \cap reaper.due

(* Mutant of ReapError: the first error ends the pass. *)
ReapErrorReturns(q) ==
  /\ engine[q] = "broken"
  /\ reaper' = [reaper EXCEPT !.left = {}, !.missed = @ \cup DueIn(q)]
  /\ UNCHANGED <<leases, claims, budgetVars>>

ReapError(q) ==
  /\ engine[q] = "broken"
  /\ reaper' = [reaper EXCEPT !.left = @ \ {q}, !.missed = @ \cup DueIn(q)]
  /\ UNCHANGED <<leases, claims, budgetVars>>

(* An error ends the engine's own pass after some of its leases; with the  *)
(* lease it met, the backend may be done.                                  *)
ReapEngine(q) ==
  /\ engine[q] = "serving"
  /\ \/ /\ NoFault
        /\ Drop(q, leases[q] \cap reaper.due)
        /\ reaper' = [reaper EXCEPT !.left = @ \ {q}]
     \/ /\ Fault
        /\ \E done \in SUBSET (leases[q] \cap reaper.due) :
           \E l \in (leases[q] \cap reaper.due) \ done : \E gone \in SUBSET {l} :
             /\ leases' = [leases EXCEPT ![q] = @ \ done]
             /\ claims' = [claims EXCEPT ![q] = @ \ (done \cup gone)]
        /\ reaper' = [reaper EXCEPT !.left = @ \ {q}, !.missed = @ \cup DueIn(q)]

Reap ==
  /\ reaper.on
  /\ \E q \in reaper.left : ReapEngine(q) \/ ReapError(q)
  /\ UNCHANGED <<engine, journals, mutex, call, lapsed, issued>>

ReapEnd ==
  /\ reaper.on
  /\ reaper.left = {}
  /\ reaper' = AtRest
  /\ UNCHANGED <<queueVars, mutex, call, lapsed, budgetVars, issued>>

-----------------------------------------------------------------------------

Lapse(l) ==
  /\ l \in issued \ lapsed
  /\ lapsed' = lapsed \cup {l}
  /\ UNCHANGED <<queueVars, callVars, budgetVars, issued>>

(* The process dies and is started again, with no engine. *)
Restart ==
  /\ crashes < MaxCrashes
  /\ crashes' = crashes + 1
  /\ engine' = [q \in Queue |-> "absent"]
  /\ leases' = [q \in Queue |-> {}]
  /\ journals' = [q \in Queue |-> 0]
  /\ mutex' = {}
  /\ call' = [c \in Client |-> Idle]
  /\ reaper' = AtRest
  /\ UNCHANGED <<claims, lapsed, faults, issued>>

Lock(c) == Lookup(c) \/ Snapshot(c)

Continue(c) ==
  \/ Make(c) \/ MakeFails(c) \/ AckScan(c)
  \/ Return(c) \/ \E l \in Lease : Fetch(c, l)

Reaping == ReapBegin \/ Reap \/ ReapEnd

Next ==
  \/ \E c \in Client : Call(c) \/ Lock(c) \/ Continue(c)
  \/ Reaping
  \/ \E l \in Lease : Lapse(l)
  \/ Restart

Spec == Init /\ [][Next]_vars

(* Running goroutines go on, and whoever waits for the mutex gets it in    *)
(* the end, which a Go mutex guarantees by handing itself to the waiter    *)
(* that starves.  Nobody has to call.                                      *)
FairSpec ==
  /\ Spec
  /\ \A c \in Client : WF_vars(Continue(c)) /\ SF_vars(Lock(c))
  /\ SF_vars(ReapBegin)
  /\ WF_vars(Reap \/ ReapEnd)

-----------------------------------------------------------------------------

(* However the first uses of a queue interleave, one engine is made for it *)
(* and its journal is opened once; a journal that could not be opened      *)
(* leaves no engine behind and uses up no place under the limit.           *)
OneEnginePerQueue ==
  /\ \A q \in Queue : journals[q] = IF q \in Existing THEN 1 ELSE 0
  /\ MaxQueues > 0 => Cardinality(Existing) <= MaxQueues

(* Ack finds its lease: when a scan ends and the lease, which was in an    *)
(* engine when the scan began, is still in one, then the backend failed or *)
(* a broken engine was in the way; ErrLeaseNotFound was not the answer.    *)
AckFindsItsLease ==
  [][ \A c \in Client :
        /\ call[c].op = "scan" /\ call[c].known
        /\ call'[c] = Idle
        /\ call[c].lease \in Leased'
        => faults' # faults \/ \E q \in call[c].left : engine[q] = "broken" ]_vars

(* Every call returns: whoever makes an engine gives the mutex back, on    *)
(* every path.                                                             *)
EveryCallReturns == \A c \in Client : []<>(call[c].op = "idle")

(* A lease that is over is reaped if its queue has a working engine, even  *)
(* if the engine of another queue is broken.                               *)
LapsedIsReaped == \A l \in Lease : []<>(l \notin lapsed \cap Leased)

(* A pass of the reaper leaves no lease behind that was over when it       *)
(* began, but the ones it missed: their queue failed, or had no engine.  A *)
(* lease that lapsed while the process was down is therefore reaped on the *)
(* first pass after its queue was named, not on the first pass.            *)
PassReapsAllButMissed ==
  [][ reaper.on /\ ~reaper'.on /\ UNCHANGED crashes =>
        \A q \in Queue : DueIn(q) \subseteq reaper.missed ]_vars

=============================================================================
