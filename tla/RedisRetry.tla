---------------------------- MODULE RedisRetry ----------------------------
(***************************************************************************)
(* RedisQueue as the engine of one queue reaches it, through a client that *)
(* repeats a command when no reply came (the client of main.go keeps the   *)
(* library's default).  The first try may have run on the server, may be   *)
(* lost, or may run late, after the call it belongs to has returned.       *)
(***************************************************************************)
EXTENDS RedisQueue, Naturals, FiniteSets

CONSTANTS
  MaxRetries,   \* tries after the first (the library's MaxRetries)
  MaxLate,      \* bound on the commands under way for calls that went on
  MaxLost,      \* bound on the tries without a reply
  MaxCrashes    \* bound on restarts

ASSUME RetryAssumption == MaxRetries \in Nat /\ MaxLate \in Nat

VARIABLES
  call,         \* the command the engine waits for, or NoCall
  stage,        \* "idle", "sent", "lost" (no reply will come for this try)
  tries,
  lost,         \* tries without a reply, so far
  late,         \* commands that may still reach the server
  up,           \* restore has succeeded
  accepted,     \* tasks whose Enqueue returned without error
  used,         \* lease IDs drawn
  granted,      \* the engine's leases, which its journal has as well
  ended,        \* leases the engine has closed
  claims,       \* history: how often a task was claimed, ...
  closes,       \* ... completed, requeued or buried, ...
  pushes,       \* ... and pushed by Enqueue
  crashes

client == <<call, stage, tries, lost>>

engine == <<up, accepted, used, granted, ended, crashes>>

counts == <<claims, closes, pushes>>

vars == <<redisVars, client, late, engine, counts>>

-----------------------------------------------------------------------------
(* Commands.  A field that a command does not have holds NoLease or {}. *)

Command(op, t, l, active) == [op |-> op, task |-> t, lease |-> l, active |-> active]

NoCall == Command("none", NoLease, NoLease, {})

Closing == {"complete", "requeue", "dead"}

Fence(c) == [task |-> c.task, lease |-> c.lease]

Held(g) == g.task \in DOMAIN processingHash /\ HGetLease(g.task) = g.lease

Increment(f, t) == [f EXCEPT ![t] = @ + 1]

RetryInit ==
  /\ RedisInit
  /\ call = NoCall /\ stage = "idle" /\ tries = 0 /\ lost = 0
  /\ late = {}
  /\ up = FALSE
  /\ accepted = {} /\ used = {} /\ granted = {} /\ ended = {}
  /\ claims = [t \in Task |-> 0]
  /\ closes = [t \in Task |-> 0]
  /\ pushes = [t \in Task |-> 0]
  /\ crashes = 0

-----------------------------------------------------------------------------
(* The server runs a command. *)

RunAcquire(c) ==
  /\ c.op = "acquire"
  /\ \/ /\ AcquireScript(c.lease)
        /\ claims' = Increment(claims, RightEnd(readyList).id)
     \/ readyList = <<>> /\ UNCHANGED <<redisVars, claims>>
  /\ UNCHANGED <<closes, pushes>>

(* Mutant of RunClosing: the scripts do not compare the fence. *)
RunClosingUnfenced(c) ==
  /\ c.op \in Closing
  /\ IF c.task \in DOMAIN processingHash
     THEN /\ \/ c.op = "complete" /\ CompleteScript(c.task, HGetLease(c.task))
             \/ c.op = "requeue" /\ RequeueScript(c.task, HGetLease(c.task))
             \/ c.op = "dead" /\ DeadLetterScript(c.task, HGetLease(c.task))
          /\ closes' = Increment(closes, c.task)
     ELSE UNCHANGED <<redisVars, closes>>
  /\ UNCHANGED <<claims, pushes>>

RunClosing(c) ==
  /\ c.op \in Closing
  /\ IF TransitionResult(c.task, c.lease) = "done"
     THEN /\ \/ c.op = "complete" /\ CompleteScript(c.task, c.lease)
             \/ c.op = "requeue" /\ RequeueScript(c.task, c.lease)
             \/ c.op = "dead" /\ DeadLetterScript(c.task, c.lease)
          /\ closes' = Increment(closes, c.task)
     ELSE UNCHANGED <<redisVars, closes>>
  /\ UNCHANGED <<claims, pushes>>

Run(c) ==
  \/ c.op = "enqueue" /\ PushTask(c.task)
     /\ pushes' = Increment(pushes, c.task) /\ UNCHANGED <<claims, closes>>
  \/ RunAcquire(c)
  \/ RunClosing(c)
  \/ c.op = "recover" /\ RecoverScript(c.active) /\ UNCHANGED counts

RunLate ==
  \E c \in late :
    /\ Run(c)
    /\ late' = late \ {c}
    /\ UNCHANGED <<client, engine>>

-----------------------------------------------------------------------------
(* The engine calls. *)

Issue(c) ==
  /\ stage = "idle"
  /\ call' = c /\ stage' = "sent" /\ tries' = 0
  /\ UNCHANGED <<redisVars, lost, late, counts, up, accepted, granted, ended, crashes>>

CallEnqueue ==
  /\ up
  /\ \E t \in Task :
       /\ pushes[t] = 0
       /\ \A c \in late : c.task # t
       /\ Issue(Command("enqueue", t, NoLease, {}))
  /\ UNCHANGED used

CallAcquire ==
  /\ up
  /\ \E l \in Lease \ used :
       Issue(Command("acquire", NoLease, l, {})) /\ used' = used \cup {l}

(* Ack, the reaper, or a Fetch that could not journal its lease. *)
CallClosing ==
  /\ up
  /\ \E g \in granted, op \in Closing : Issue(Command(op, g.task, g.lease, {}))
  /\ UNCHANGED used

(* The journal has every lease of the engine, and perhaps some that ended. *)
CallRecover ==
  /\ ~up
  /\ \E stale \in SUBSET ended :
       Issue(Command("recover", NoLease, NoLease, granted \cup stale))
  /\ UNCHANGED used

-----------------------------------------------------------------------------
(* What becomes of a try *)

(* What the engine makes of the reply to c.  A closing call ends the lease *)
(* whether it says done, not processing or fence mismatch.                 *)
Learn(c) ==
  /\ accepted' = IF c.op = "enqueue" THEN accepted \cup {c.task} ELSE accepted
  /\ granted' =
       CASE c.op = "acquire" /\ readyList # <<>> ->
              granted \cup {[task |-> RightEnd(readyList).id, lease |-> c.lease]}
         [] c.op \in Closing -> granted \ {Fence(c)}
         [] c.op = "recover" -> { g \in c.active : g.lease \in MatchedLeases(c.active) }
         [] OTHER -> granted
  /\ ended' = (ended \cup granted) \ granted'
  /\ up' = TRUE
  /\ UNCHANGED <<used, crashes>>

Reply ==
  /\ stage = "sent"
  /\ Run(call)
  /\ Learn(call)
  /\ call' = NoCall /\ stage' = "idle" /\ tries' = 0
  /\ UNCHANGED <<lost, late>>

Lost ==
  /\ lost < MaxLost
  /\ lost' = lost + 1
  /\ stage' = "lost"

ReplyLost ==
  /\ stage = "sent"
  /\ Run(call)
  /\ Lost
  /\ UNCHANGED <<call, tries, late, engine>>

(* The command has not run: it never will, or it will later. *)
Linger ==
  \/ UNCHANGED late
  \/ Cardinality(late) < MaxLate /\ late' = late \cup {call}

TimeOut ==
  /\ stage = "sent"
  /\ Linger
  /\ Lost
  /\ UNCHANGED <<redisVars, call, tries, engine, counts>>

(* Mutant of Retry: one try too many. *)
RetryOnceMore ==
  /\ stage = "lost" /\ tries <= MaxRetries
  /\ stage' = "sent"
  /\ tries' = tries + 1
  /\ UNCHANGED <<redisVars, call, lost, late, engine, counts>>

Retry ==
  /\ stage = "lost" /\ tries < MaxRetries
  /\ stage' = "sent"
  /\ tries' = tries + 1
  /\ UNCHANGED <<redisVars, call, lost, late, engine, counts>>

(* The engine gets an error, and keeps what it had. *)
GiveUp ==
  /\ stage = "lost" /\ tries = MaxRetries
  /\ call' = NoCall /\ stage' = "idle" /\ tries' = 0
  /\ UNCHANGED <<redisVars, lost, late, engine, counts>>

Restart ==
  /\ crashes < MaxCrashes
  /\ crashes' = crashes + 1
  /\ up' = FALSE
  /\ IF stage = "sent" THEN Linger ELSE UNCHANGED late
  /\ call' = NoCall /\ stage' = "idle" /\ tries' = 0
  /\ UNCHANGED <<redisVars, lost, accepted, used, granted, ended, counts>>

RetryNext ==
  \/ CallEnqueue \/ CallAcquire \/ CallClosing \/ CallRecover
  \/ Reply \/ ReplyLost \/ TimeOut \/ Retry \/ GiveUp
  \/ RunLate \/ Restart

RetrySpec == RetryInit /\ [][RetryNext]_vars

-----------------------------------------------------------------------------

RetryTypeOK ==
  /\ stage \in {"idle", "sent", "lost"}
  /\ stage = "idle" <=> call = NoCall
  /\ tries \in 0 .. MaxRetries
  /\ Cardinality(late) <= MaxLate
  /\ accepted \subseteq Task /\ used \subseteq Lease
  /\ granted \cap ended = {}
  /\ granted \cup ended \subseteq [task : Task, lease : used]

(* No task is lost once its Enqueue has returned, whatever was repeated or *)
(* came late: it is ready, in processing, dead or completed.               *)
NothingLost == accepted \subseteq Ids(Stored)

(* A claim is closed at most once.  A repeated or late Complete, Requeue   *)
(* or DeadLetter finds its claim gone, so that it neither charges a second *)
(* attempt nor pushes the task a second time.                              *)
ClosedOncePerClaim ==
  \A t \in Task :
    closes[t] + (IF t \in DOMAIN processingHash THEN 1 ELSE 0) <= claims[t]

(* What can take a task away from a lease the engine holds: a closing call *)
(* of that very lease, the claim of a second copy that a repeated Enqueue  *)
(* pushed, and a recovery script of an earlier start that runs late.       *)
OnlyOwnCallsEndALease ==
  [][\A g \in granted :
       Held(g) /\ ~Held(g)' =>
         \/ \E c \in late \cup {call} : c.op \in Closing /\ Fence(c) = g
         \/ pushes[g.task] > 1
         \/ \E c \in late : c.op = "recover" /\ g \notin c.active]_vars

=============================================================================
