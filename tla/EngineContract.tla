--------------------------- MODULE EngineContract ---------------------------
(***************************************************************************)
(* The engine implements LeasedQueue, as long as no append leaves half a   *)
(* frame behind.  The place of a task is read off the backend; everything  *)
(* else of the engine is hidden.                                           *)
(***************************************************************************)
EXTENDS Engine

PlaceOf(t) ==
  CASE t \in Waiting   -> "ready"
    [] t \in Held      -> "claimed"
    [] t \in dead      -> "dead"
    [] t \in completed -> "done"
    [] OTHER           -> "absent"

Contract == INSTANCE LeasedQueue WITH
  Cap <- MaxAttempts,
  place <- [t \in Task |-> PlaceOf(t)],
  holder <- processing,
  charged <- attempts

(* Every behaviour of the engine, its crashes and errors included, is a    *)
(* behaviour of the contract: no accepted task is lost or comes back after *)
(* completion, and no step but the worker's own ack ends a lease early.    *)
ImplementsContract == Contract!Spec

=============================================================================
