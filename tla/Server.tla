------------------------------ MODULE Server ------------------------------
(***************************************************************************)
(* server.Server and the daemon around it: the accept loop with its slots, *)
(* one handler goroutine per connection, and a shutdown that waits for the *)
(* handlers before the deferred calls of run close journals and backend.   *)
(* What a request says and does is left to other modules.  The reaper is   *)
(* not waited for: when it is cut off, that is a crash to module Engine.   *)
(***************************************************************************)
EXTENDS Naturals, FiniteSets

CONSTANTS
  Conn,       \* connections clients may open
  MaxConns,   \* Config.MaxConns, 0 disables the cap
  MaxErrors   \* bound on the errors of Accept

ASSUME ServerAssumption ==
  /\ IsFiniteSet(Conn)
  /\ MaxConns \in Nat
  /\ MaxErrors \in Nat

VARIABLES
  cancelled,  \* ctx.Done() is closed: a signal arrived
  listener,   \* "open" or "closed"
  loop,       \* ListenAndServe: "accept", "sleep", "slot", "wait", "returned"
  conn,       \* the state of each connection and of its handler
  slots,      \* elements in the channel slots
  wg,         \* the counter of Server.wg
  main,       \* run: "serve", "journals", "backend", "exit"
  errors

vars == <<cancelled, listener, loop, conn, slots, wg, main, errors>>

(***************************************************************************)
(* A connection is "new", "queued" in the kernel, in the "hand" of the     *)
(* accept loop, and then its handler is "reading" a request, "busy" in the *)
(* service, "replying" to it or "refusing" it, "ending", or leaving:       *)
(* "left" handleConn, "done" with the slot, "closed" after wg.Done.        *)
(***************************************************************************)
ConnState == {"new", "queued", "hand", "reading", "busy", "replying",
              "refusing", "ending", "left", "done", "closed"}

In(states) == { c \in Conn : conn[c] \in states }

(* States a client can keep its connection in. *)
Kept == {"reading", "busy", "replying", "refusing"}

Handled == Kept \cup {"ending", "left", "done"}

Init ==
  /\ cancelled = FALSE
  /\ listener = "open"
  /\ loop = "accept"
  /\ conn = [c \in Conn |-> "new"]
  /\ slots = 0
  /\ wg = 0
  /\ main = "serve"
  /\ errors = 0

Alive == main # "exit"

Move(c, from, to) ==
  /\ Alive
  /\ conn[c] \in from
  /\ conn' = [conn EXCEPT ![c] = to]

-----------------------------------------------------------------------------
(* The signal, and the goroutine that closes the listener after it.        *)

Cancel ==
  /\ ~cancelled
  /\ cancelled' = TRUE
  /\ UNCHANGED <<listener, loop, conn, slots, wg, main, errors>>

(* Connections the kernel still had queued are reset. *)
CloseListener ==
  /\ Alive /\ cancelled /\ listener = "open"
  /\ listener' = "closed"
  /\ conn' = [c \in Conn |-> IF conn[c] = "queued" THEN "closed" ELSE conn[c]]
  /\ UNCHANGED <<cancelled, loop, slots, wg, main, errors>>

-----------------------------------------------------------------------------
(* The accept loop *)

Accept(c) ==
  /\ loop = "accept" /\ listener = "open"
  /\ Move(c, {"queued"}, "hand")
  /\ loop' = "slot"
  /\ UNCHANGED <<cancelled, listener, slots, wg, main, errors>>

(* Out of descriptors, or a timeout: back off and try again. *)
AcceptTemporary ==
  /\ Alive /\ loop = "accept" /\ listener = "open" /\ ~cancelled
  /\ errors < MaxErrors
  /\ errors' = errors + 1
  /\ loop' = "sleep"
  /\ UNCHANGED <<cancelled, listener, conn, slots, wg, main>>

Wake ==
  /\ Alive /\ loop = "sleep"
  /\ loop' = "accept"
  /\ UNCHANGED <<cancelled, listener, conn, slots, wg, main, errors>>

(* The listener is closed, or Accept fails for good with it still open. *)
AcceptEnds ==
  /\ Alive /\ loop = "accept"
  /\ \/ listener = "closed" /\ UNCHANGED errors
     \/ listener = "open" /\ errors < MaxErrors /\ errors' = errors + 1
  /\ loop' = "wait"
  /\ UNCHANGED <<cancelled, listener, conn, slots, wg, main>>

(* Mutant of Handle: wg.Add is left to the handler's last step. *)
HandleUncounted(c) ==
  /\ loop = "slot"
  /\ MaxConns > 0 => slots < MaxConns
  /\ Move(c, {"hand"}, "reading")
  /\ slots' = IF MaxConns > 0 THEN slots + 1 ELSE slots
  /\ loop' = "accept"
  /\ UNCHANGED <<cancelled, listener, wg, main, errors>>

(* A slot is free: wg.Add and the handler's goroutine. *)
Handle(c) ==
  /\ loop = "slot"
  /\ MaxConns > 0 => slots < MaxConns
  /\ Move(c, {"hand"}, "reading")
  /\ slots' = IF MaxConns > 0 THEN slots + 1 ELSE slots
  /\ wg' = wg + 1
  /\ loop' = "accept"
  /\ UNCHANGED <<cancelled, listener, main, errors>>

(* Cancelled while waiting for a slot, or with one free: select may choose. *)
Refuse(c) ==
  /\ loop = "slot" /\ MaxConns > 0 /\ cancelled
  /\ Move(c, {"hand"}, "closed")
  /\ loop' = "accept"
  /\ UNCHANGED <<cancelled, listener, slots, wg, main, errors>>

WaitDone ==
  /\ Alive /\ loop = "wait" /\ wg = 0
  /\ loop' = "returned"
  /\ main' = "journals"
  /\ UNCHANGED <<cancelled, listener, conn, slots, wg, errors>>

-----------------------------------------------------------------------------
(* handleConn *)

Step(c, from, to) ==
  /\ Move(c, from, to)
  /\ UNCHANGED <<cancelled, listener, loop, slots, wg, main, errors>>

(* What the client does: connect, send a request, take the reply, send     *)
(* something ReadValue rejects, take that reply, hang up.  Nothing of it   *)
(* ever has to happen.                                                     *)
Client(c) ==
  \/ listener = "open" /\ Step(c, {"new"}, "queued")
  \/ Step(c, {"reading"}, "busy")
  \/ Step(c, {"replying"}, "reading")
  \/ Step(c, {"reading"}, "refusing")
  \/ Step(c, {"reading", "replying", "refusing"}, "ending")

(* The service has answered. *)
Answer(c) == Step(c, {"busy"}, "replying")

(* ReadValue or WriteValue returned an error: handleConn closes the socket. *)
Leave(c) == Step(c, {"ending"}, "left")

(* Mutant of ReleaseSlot: the slot is not given back. *)
KeepSlot(c) ==
  /\ Move(c, {"left"}, "done")
  /\ UNCHANGED <<cancelled, listener, loop, slots, wg, main, errors>>

ReleaseSlot(c) ==
  /\ Move(c, {"left"}, "done")
  /\ slots' = IF MaxConns > 0 THEN slots - 1 ELSE slots
  /\ UNCHANGED <<cancelled, listener, loop, wg, main, errors>>

(* Mutant of Done: a handler that is not counted down. *)
DoneUncounted(c) ==
  /\ Move(c, {"done"}, "closed")
  /\ UNCHANGED <<cancelled, listener, loop, slots, wg, main, errors>>

Done(c) ==
  /\ Move(c, {"done"}, "closed")
  /\ wg' = wg - 1
  /\ UNCHANGED <<cancelled, listener, loop, slots, main, errors>>

-----------------------------------------------------------------------------
(* The deferred calls of run. *)

Defer ==
  /\ \/ main = "journals" /\ main' = "backend"
     \/ main = "backend" /\ main' = "exit"
  /\ UNCHANGED <<cancelled, listener, loop, conn, slots, wg, errors>>

Loop ==
  \/ \E c \in Conn : Accept(c) \/ Handle(c) \/ Refuse(c)
  \/ AcceptTemporary \/ Wake \/ AcceptEnds \/ WaitDone

Handler(c) == Answer(c) \/ Leave(c) \/ ReleaseSlot(c) \/ Done(c)

Next ==
  \/ Cancel \/ CloseListener \/ Loop \/ Defer
  \/ \E c \in Conn : Client(c) \/ Handler(c)

Spec == Init /\ [][Next]_vars

(* Goroutines run.  Signals, clients and errors are owed by nobody. *)
FairSpec ==
  /\ Spec
  /\ WF_vars(CloseListener)
  /\ WF_vars(Loop)
  /\ WF_vars(Defer)
  /\ \A c \in Conn : WF_vars(Handler(c))

-----------------------------------------------------------------------------

(* The counters tell the truth on every path a connection can take, errors *)
(* and refusals included: as many slots are taken as there are handlers    *)
(* that have not given theirs back, wg counts every handler, and the loop  *)
(* has a connection in hand exactly while it waits for a slot.             *)
SlotsAndHandlersAgree ==
  /\ MaxConns > 0 => slots = Cardinality(In(Handled \ {"done"}))
  /\ wg = Cardinality(In(Handled))
  /\ Cardinality(In({"hand"})) = IF loop = "slot" THEN 1 ELSE 0

(* No handler is in the service, or can still get there, when the journals *)
(* are closed, or later: a Fetch would otherwise hand back and charge a    *)
(* task, an Ack would fail after it has completed in the backend.          *)
JournalsOutliveRequests == main # "serve" => In({"hand"} \cup Kept) = {}

(* A shutdown completes, unless a client keeps its connection for ever:    *)
(* that is all it waits for, and it does wait for that, since a handler    *)
(* reads and writes without a deadline.                                    *)
ShutdownCompletes ==
  cancelled ~> \/ main = "exit"
               \/ \E c \in Conn : [](conn[c] \in Kept)

(* A client in the queue is taken on, unless the server stops accepting or *)
(* MaxConns others keep their connections for ever: a connection that ends *)
(* makes room for the next.                                                *)
QueueMoves ==
  \A c \in Conn :
    conn[c] \in {"queued", "hand"} ~>
      \/ conn[c] \notin {"queued", "hand"}
      \/ loop \in {"wait", "returned"}
      \/ [](MaxConns > 0 /\ Cardinality(In(Kept)) = MaxConns)

=============================================================================
