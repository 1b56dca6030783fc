---------------------------- MODULE RedisQueue ----------------------------
(***************************************************************************)
(* queue.RedisQueue: the four keys of one queue on the Redis server, and   *)
(* the Lua scripts, each of which Redis runs as one step.  A task is kept  *)
(* as an encoded value that carries its own attempt counter; a task in     *)
(* processing has its value in one hash and its lease in another.          *)
(*                                                                         *)
(* The queue is shown to implement Backend, which is written after         *)
(* MemoryQueue: to the engine the two backends are the same.               *)
(***************************************************************************)
EXTENDS Records, Sequences, Functions

CONSTANT MaxCharges   \* bound on the attempt counter of a task

VARIABLES
  readyList,       \* :ready              pushed on the left, popped on the right
  processingHash,  \* :processing         task ID -> encoded task
  leaseHash,       \* :processing:leases  task ID -> lease ID
  deadList,        \* :dead               encoded tasks
  finished         \* history: encoded tasks removed by complete

redisVars == <<readyList, processingHash, leaseHash, deadList, finished>>

Encoded == [id : Task, attempts : Nat]

RedisTypeOK ==
  /\ readyList \in Seq(Encoded)
  /\ DOMAIN processingHash \subseteq Task
  /\ \A t \in DOMAIN processingHash : processingHash[t] \in Encoded
  /\ DOMAIN leaseHash \subseteq Task
  /\ \A t \in DOMAIN leaseHash : leaseHash[t] \in Lease
  /\ deadList \in Seq(Encoded)
  /\ finished \subseteq Encoded

RedisInit ==
  /\ readyList = <<>>
  /\ processingHash = <<>>
  /\ leaseHash = <<>>
  /\ deadList = <<>>
  /\ finished = {}

-----------------------------------------------------------------------------
(* Redis commands; a missing field reads as NoLease. *)

LPush(list, value) == <<value>> \o list

(* RPOP: the value it returns, and the list it leaves. *)
RightEnd(list) == list[Len(list)]

RPop(list) == SubSeq(list, 1, Len(list) - 1)

HSet(hash, key, value) ==
  [k \in DOMAIN hash \cup {key} |-> IF k = key THEN value ELSE hash[k]]

HDel(hash, keys) == Restrict(hash, DOMAIN hash \ keys)

HGetLease(t) == IF t \in DOMAIN leaseHash THEN leaseHash[t] ELSE NoLease

(* Attempts plus one, decoded and encoded again. *)
ChargedTask(e) == [e EXCEPT !.attempts = @ + 1]

(* What the closing scripts return, which transitionResultError turns into *)
(* nil, ErrTaskNotProcessing and ErrLeaseFenceMismatch.                    *)
TransitionResult(t, l) ==
  CASE t \notin DOMAIN processingHash -> "not processing"
    [] t \in DOMAIN processingHash /\ HGetLease(t) # l -> "fence mismatch"
    [] OTHER -> "done"

(* Mutant of DropEntries: the second HDEL is missing. *)
DropEntriesKeepLease(S) ==
  /\ processingHash' = HDel(processingHash, S)
  /\ UNCHANGED leaseHash

(* Mutant of DropEntries: both are missing. *)
KeepEntries(S) == UNCHANGED <<processingHash, leaseHash>>

(* Both HDELs of a closing script. *)
DropEntries(S) ==
  /\ processingHash' = HDel(processingHash, S)
  /\ leaseHash' = HDel(leaseHash, S)

-----------------------------------------------------------------------------

Stored == Range(readyList) \cup Range(processingHash) \cup Range(deadList)
            \cup finished

PushTask(t) ==
  /\ readyList' = LPush(readyList, [id |-> t, attempts |-> 0])
  /\ UNCHANGED <<processingHash, leaseHash, deadList, finished>>

EnqueueTask(t) == t \notin Ids(Stored) /\ PushTask(t)

AcquireScript(l) ==
  /\ readyList # <<>>
  /\ LET encoded == RightEnd(readyList)
     IN  /\ processingHash' = HSet(processingHash, encoded.id, encoded)
         /\ leaseHash' = HSet(leaseHash, encoded.id, l)
  /\ readyList' = RPop(readyList)
  /\ UNCHANGED <<deadList, finished>>

CompleteScript(t, l) ==
  /\ TransitionResult(t, l) = "done"
  /\ DropEntries({t})
  /\ finished' = finished \cup {processingHash[t]}
  /\ UNCHANGED <<readyList, deadList>>

(* Mutant of RequeueScript: RPUSH, so that the task is the next to go. *)
RequeueScriptInFront(t, l) ==
  /\ TransitionResult(t, l) = "done"
  /\ processingHash[t].attempts < MaxCharges
  /\ DropEntries({t})
  /\ readyList' = Append(readyList, ChargedTask(processingHash[t]))
  /\ UNCHANGED <<deadList, finished>>

RequeueScript(t, l) ==
  /\ TransitionResult(t, l) = "done"
  /\ processingHash[t].attempts < MaxCharges
  /\ DropEntries({t})
  /\ readyList' = LPush(readyList, ChargedTask(processingHash[t]))
  /\ UNCHANGED <<deadList, finished>>

DeadLetterScript(t, l) ==
  /\ TransitionResult(t, l) = "done"
  /\ DropEntries({t})
  /\ deadList' = LPush(deadList, ChargedTask(processingHash[t]))
  /\ UNCHANGED <<readyList, finished>>

(* Mutant of OrphanEntries: compares the lease ID without the task ID. *)
OrphanEntriesByLease(active) ==
  { t \in DOMAIN processingHash : HGetLease(t) \notin { f.lease : f \in active } }

(* Entries without a lease, or whose lease is not active. *)
OrphanEntries(active) ==
  { t \in DOMAIN processingHash : [task |-> t, lease |-> HGetLease(t)] \notin active }

MatchedLeases(active) ==
  { HGetLease(t) : t \in DOMAIN processingHash \ OrphanEntries(active) }

(* A set as the hash iteration lists it, in any order. *)
Listings(S) == Bijection(1 .. Cardinality(S), S)

(* Mutant of RecoverScript: pushes the key of the entry, not its value. *)
RecoverScriptKeys(active) ==
  /\ \E order \in Listings(OrphanEntries(active)) : readyList' = order \o readyList
  /\ DropEntries(OrphanEntries(active))
  /\ UNCHANGED <<deadList, finished>>

(* Mutant of RecoverScript: no LPUSH. *)
RecoverScriptForgets(active) ==
  /\ DropEntries(OrphanEntries(active))
  /\ UNCHANGED <<readyList, deadList, finished>>

(* HGETALL lists the hash in any order; the orphans are pushed one by one, *)
(* which leaves them on the list in some order as well.                    *)
RecoverScript(active) ==
  /\ \E order \in Listings(OrphanEntries(active)) :
       readyList' = [i \in DOMAIN order |-> processingHash[order[i]]] \o readyList
  /\ DropEntries(OrphanEntries(active))
  /\ UNCHANGED <<deadList, finished>>

RedisNext ==
  \/ \E t \in Task : EnqueueTask(t)
  \/ \E l \in Lease :
       \/ AcquireScript(l)
       \/ \E t \in Task :
            CompleteScript(t, l) \/ RequeueScript(t, l) \/ DeadLetterScript(t, l)
  \/ \E active \in SUBSET [task : Task, lease : Lease] : RecoverScript(active)

RedisSpec == RedisInit /\ [][RedisNext]_redisVars

-----------------------------------------------------------------------------

(* The two hashes that describe the tasks in processing list the same      *)
(* tasks, and an entry is stored under its own ID: otherwise a transition  *)
(* would move another task, or a task would be beyond every fence.         *)
HashesAgree ==
  /\ DOMAIN processingHash = DOMAIN leaseHash
  /\ \A t \in DOMAIN processingHash : processingHash[t].id = t

(* The keys as MemoryQueue's fields: the IDs in the order in which they    *)
(* are acquired, the lease of a task in processing, and the attempt        *)
(* counter of a task, wherever its value is.                               *)
OldestFirst(list) == [i \in DOMAIN list |-> list[Len(list) + 1 - i].id]

FenceOf(t) == IF t \in DOMAIN processingHash THEN HGetLease(t) ELSE NoLease

StoredAttempts(t) ==
  IF t \in Ids(Stored) THEN (CHOOSE e \in Stored : e.id = t).attempts ELSE 0

Memory == INSTANCE Backend WITH
  ready <- OldestFirst(readyList),
  processing <- [t \in Task |-> FenceOf(t)],
  attempts <- [t \in Task |-> StoredAttempts(t)],
  dead <- Ids(Range(deadList)),
  completed <- Ids(finished)

(* The scripts do to the keys what MemoryQueue does to its fields: the     *)
(* same order of tasks, the same fences, the same attempts.                *)
ImplementsBackend == Memory!BackendSpec

(* The lease IDs the recovery script reports are the ones MemoryQueue      *)
(* reports, for any set of leases a journal could offer: restore takes the *)
(* leases it keeps from this answer.                                       *)
RecoveryAgrees ==
  \A active \in SUBSET [task : Task, lease : Lease] :
    MatchedLeases(active) = Memory!MatchedLeaseIDs(active)

=============================================================================
