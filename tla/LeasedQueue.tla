---------------------------- MODULE LeasedQueue ----------------------------
(***************************************************************************)
(* What a queue promises its producers and workers, with no process, no    *)
(* journal and no backend in sight: at-least-once delivery under leases.   *)
(*                                                                         *)
(* A task that was submitted is never lost.  It waits, or is claimed under *)
(* one lease, or has reached one of two ends it never leaves.  A claim     *)
(* becomes a grant when the lease is returned to a worker.  From then on   *)
(* only that worker ends it before the deadline; afterwards it ends with   *)
(* one attempt charged, and in dead storage when the attempts are used up. *)
(* A claim no worker has heard of can be undone at any time, charged or    *)
(* not.                                                                    *)
(***************************************************************************)
EXTENDS Records

CONSTANT Cap   \* attempts before a task is dead, 0 for no limit

VARIABLES
  place,     \* where a task is
  holder,    \* the lease a claimed task is under
  charged,   \* attempts charged to a task
  granted,   \* leases returned to workers, with their deadlines
  now

vars == <<place, holder, charged, granted, now>>

Init ==
  /\ place = [t \in Task |-> "absent"]
  /\ holder = [t \in Task |-> NoLease]
  /\ charged = [t \in Task |-> 0]
  /\ granted = {}
  /\ now = 1

(* Move the tasks of S, claimed or not, to a place without a holder. *)
Put(S, p) ==
  /\ place' = [t \in Task |-> IF t \in S THEN p ELSE place[t]]
  /\ holder' = [t \in Task |-> IF t \in S THEN NoLease ELSE holder[t]]

ChargeOne(t) == charged' = [charged EXCEPT ![t] = @ + 1]

UsedUp(t) == Cap > 0 /\ charged[t] + 1 >= Cap

GrantOf(t) == { g \in granted : g.task = t /\ g.id = holder[t] }

Submit(t) ==
  /\ place[t] = "absent"
  /\ Put({t}, "ready")
  /\ UNCHANGED <<charged, granted, now>>

Claim(t, l) ==
  /\ place[t] = "ready"
  /\ l \notin Ids(granted)
  /\ \A u \in Task : holder[u] # l
  /\ place' = [place EXCEPT ![t] = "claimed"]
  /\ holder' = [holder EXCEPT ![t] = l]
  /\ UNCHANGED <<charged, granted, now>>

Grant(g) ==
  /\ place[g.task] = "claimed"
  /\ holder[g.task] = g.id
  /\ charged[g.task] = g.attempts
  /\ GrantOf(g.task) = {}
  /\ granted' = granted \cup {g}   \* whatever its deadline
  /\ UNCHANGED <<place, holder, charged, now>>

Finish(t) ==
  /\ place[t] = "claimed"
  /\ GrantOf(t) # {}
  /\ Put({t}, "done")
  /\ UNCHANGED <<charged, granted, now>>

(* The end of a lease by its deadline. *)
Lapse(t) ==
  /\ place[t] = "claimed"
  /\ \A g \in GrantOf(t) : g.expires <= now
  /\ Put({t}, IF UsedUp(t) THEN "dead" ELSE "ready")
  /\ ChargeOne(t)
  /\ UNCHANGED <<granted, now>>

(* A claim that never reached a worker: charged when the call that made it *)
(* gives it back, not charged when a restart finds it.                     *)
GiveBack(t) ==
  /\ place[t] = "claimed"
  /\ GrantOf(t) = {}
  /\ Put({t}, "ready")
  /\ ChargeOne(t)
  /\ UNCHANGED <<granted, now>>

Reconcile(S) ==
  /\ \A t \in S : place[t] = "claimed" /\ GrantOf(t) = {}
  /\ Put(S, "ready")
  /\ UNCHANGED <<charged, granted, now>>

Advance == now' = now + 1 /\ UNCHANGED <<place, holder, charged, granted>>

Next ==
  \/ \E t \in Task :
       \/ Submit(t) \/ Finish(t) \/ Lapse(t) \/ GiveBack(t)
       \/ \E l \in Lease : Claim(t, l)
  \/ \E g \in granted' : Grant(g)
  \/ \E S \in SUBSET Task : Reconcile(S)
  \/ Advance

Spec == Init /\ [][Next]_vars

=============================================================================
