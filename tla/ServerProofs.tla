---------------------------- MODULE ServerProofs ----------------------------
(***************************************************************************)
(* The accept loop, the slots and the wait group of server.Server, for any *)
(* number of connections and any limit.  The counters are compared with    *)
(* the connections they count: one lemma says what a handler's step does   *)
(* to such a number, and the rest is a case for every step.                *)
(***************************************************************************)
EXTENDS Server, FiniteSetTheorems, TLAPS

ServerTypeOK ==
  /\ conn \in [Conn -> ConnState]
  /\ loop \in {"accept", "sleep", "slot", "wait", "returned"}
  /\ main \in {"serve", "journals", "backend", "exit"}

(* The deferred calls run after ListenAndServe, and that returns after the *)
(* last handler.                                                           *)
ReturnsLast ==
  /\ main # "serve" => loop = "returned"
  /\ loop = "returned" => In(Handled) = {}

ServerInv == ServerTypeOK /\ SlotsAndHandlersAgree /\ ReturnsLast

(* The connections in some of the states are finitely many. *)
LEMMA InIsFinite ==
  ASSUME NEW S
  PROVE  IsFiniteSet(In(S)) /\ Cardinality(In(S)) \in Nat
<1>1. In(S) \subseteq Conn
  BY DEF In
<1>. QED
  BY <1>1, ServerAssumption, FS_Subset, FS_CardinalityType DEF ServerAssumption

(* A connection that changes its state, but not in or out of S. *)
LEMMA Stays ==
  ASSUME ServerTypeOK, NEW c \in Conn, NEW S, NEW to,
         conn' = [conn EXCEPT ![c] = to], conn[c] \in S <=> to \in S
  PROVE  In(S)' = In(S)
BY DEF In, ServerTypeOK

(* A connection that comes into S adds one to the number there. *)
LEMMA Comes ==
  ASSUME ServerTypeOK, NEW c \in Conn, NEW S, NEW to,
         conn' = [conn EXCEPT ![c] = to], conn[c] \notin S, to \in S
  PROVE  Cardinality(In(S)') = Cardinality(In(S)) + 1
<1>1. In(S)' = In(S) \cup {c} /\ c \notin In(S)
  BY DEF In, ServerTypeOK
<1>. QED
  BY <1>1, InIsFinite, FS_AddElement

(* A connection that goes out of S takes one away. *)
LEMMA Goes ==
  ASSUME ServerTypeOK, NEW c \in Conn, NEW S, NEW to,
         conn' = [conn EXCEPT ![c] = to], conn[c] \in S, to \notin S
  PROVE  Cardinality(In(S)') = Cardinality(In(S)) - 1 /\ In(S)' \subseteq In(S)
<1>1. In(S)' = In(S) \ {c} /\ c \in In(S)
  BY DEF In, ServerTypeOK
<1>. QED
  BY <1>1, InIsFinite, FS_RemoveElement, Zenon

(* A step that moves no connection. *)
LEMMA CountersStay ==
  ASSUME ServerInv, UNCHANGED <<conn, slots, wg>>,
         loop' = "slot" <=> loop = "slot"
  PROVE  SlotsAndHandlersAgree' /\ \A S : In(S)' = In(S)
<1>1. \A S : In(S)' = In(S)
  BY DEF In
<1>. QED
  BY <1>1 DEF ServerInv, SlotsAndHandlersAgree

(* Handlers that have not given their slot back. *)
Busy == Handled \ {"done"}

(* The states of a handler before it gives its slot back. *)
LEMMA States ==
  /\ Busy = Kept \cup {"ending", "left"}
  /\ Handled = Busy \cup {"done"}
  /\ Kept = {"reading", "busy", "replying", "refusing"}
  /\ \A s \in {"new", "queued", "hand", "closed"} : s \notin Handled
BY DEF Busy, Handled, Kept

(* Steps within a connection's life that no counter notices. *)
LEMMA UncountedStep ==
  ASSUME ServerInv, NEW c \in Conn, Client(c) \/ Answer(c) \/ Leave(c)
  PROVE  /\ SlotsAndHandlersAgree'
         /\ In(Handled)' = In(Handled)
         /\ conn' \in [Conn -> ConnState]
         /\ UNCHANGED <<loop, main>>
<1>1. /\ UNCHANGED <<slots, wg, loop, main>>
      /\ \E to \in Kept \cup {"queued", "ending", "left"} :
           /\ conn' = [conn EXCEPT ![c] = to]
           /\ IF to = "queued" THEN conn[c] = "new" ELSE conn[c] \in Kept \cup {"ending"}
  BY DEF Client, Answer, Leave, Step, Move, Kept
<1>2. PICK to \in Kept \cup {"queued", "ending", "left"} :
        /\ conn' = [conn EXCEPT ![c] = to]
        /\ IF to = "queued" THEN conn[c] = "new" ELSE conn[c] \in Kept \cup {"ending"}
  BY <1>1, Zenon
<1>3. /\ conn[c] \in Handled <=> to \in Handled
      /\ conn[c] \in Busy <=> to \in Busy
      /\ conn[c] # "hand" /\ to # "hand"
  BY <1>2, States
<1>4. In(Handled)' = In(Handled) /\ In(Busy)' = In(Busy) /\ In({"hand"})' = In({"hand"})
  BY <1>2, <1>3, Stays, Zenon DEF ServerInv
<1>5. conn' \in [Conn -> ConnState]
  BY <1>2 DEF ServerInv, ServerTypeOK, ConnState, Kept
<1>. QED
  BY <1>1, <1>4, <1>5 DEF ServerInv, SlotsAndHandlersAgree, Busy

(* The steps of the accept loop that take a connection into the hand or    *)
(* out of it.                                                              *)
LEMMA HandStep ==
  ASSUME ServerInv, NEW c \in Conn, Accept(c) \/ Handle(c) \/ Refuse(c)
  PROVE  /\ SlotsAndHandlersAgree'
         /\ conn' \in [Conn -> ConnState]
         /\ loop' \in {"accept", "slot"} /\ main' = main /\ loop # "returned"
<1>. USE DEF ServerInv
<1>1. /\ MaxConns > 0 => slots = Cardinality(In(Busy))
      /\ wg = Cardinality(In(Handled))
      /\ Cardinality(In({"hand"})) = IF loop = "slot" THEN 1 ELSE 0
  BY DEF SlotsAndHandlersAgree, Busy
<1>2. SUFFICES /\ MaxConns > 0 => slots' = Cardinality(In(Busy)')
               /\ wg' = Cardinality(In(Handled)')
               /\ Cardinality(In({"hand"})') = IF loop' = "slot" THEN 1 ELSE 0
  <2>1. /\ conn' \in [Conn -> ConnState] /\ main' = main
        /\ loop' \in {"accept", "slot"} /\ loop # "returned"
    BY DEF Accept, Handle, Refuse, Move, ServerTypeOK, ConnState
  <2>. QED
    BY <2>1 DEF SlotsAndHandlersAgree, Busy
<1>3. CASE Accept(c)
  <2>1. /\ conn[c] = "queued" /\ conn' = [conn EXCEPT ![c] = "hand"]
        /\ loop = "accept" /\ loop' = "slot" /\ UNCHANGED <<slots, wg>>
    BY <1>3 DEF Accept, Move
  <2>2. In(Busy)' = In(Busy) /\ In(Handled)' = In(Handled)
    BY <2>1, Stays, States, Zenon
  <2>3. Cardinality(In({"hand"})') = Cardinality(In({"hand"})) + 1
    BY <2>1, Comes, Zenon
  <2>. QED
    BY <1>1, <2>1, <2>2, <2>3
<1>4. CASE Handle(c)
  <2>1. /\ conn[c] = "hand" /\ conn' = [conn EXCEPT ![c] = "reading"]
        /\ loop = "slot" /\ loop' = "accept" /\ wg' = wg + 1
        /\ MaxConns > 0 => slots' = slots + 1
    BY <1>4 DEF Handle, Move
  <2>2. /\ Cardinality(In(Busy)') = Cardinality(In(Busy)) + 1
        /\ Cardinality(In(Handled)') = Cardinality(In(Handled)) + 1
    BY <2>1, Comes, States, Zenon
  <2>3. Cardinality(In({"hand"})') = Cardinality(In({"hand"})) - 1
    BY <2>1, Goes, Zenon
  <2>. QED
    BY <1>1, <2>1, <2>2, <2>3
<1>5. CASE Refuse(c)
  <2>1. /\ conn[c] = "hand" /\ conn' = [conn EXCEPT ![c] = "closed"]
        /\ loop = "slot" /\ loop' = "accept" /\ UNCHANGED <<slots, wg>>
    BY <1>5 DEF Refuse, Move
  <2>2. In(Busy)' = In(Busy) /\ In(Handled)' = In(Handled)
    BY <2>1, Stays, States, Zenon
  <2>3. Cardinality(In({"hand"})') = Cardinality(In({"hand"})) - 1
    BY <2>1, Goes, Zenon
  <2>. QED
    BY <1>1, <2>1, <2>2, <2>3
<1>. QED
  BY <1>3, <1>4, <1>5

(* The two deferred calls of a handler's goroutine. *)
LEMMA LeavingStep ==
  ASSUME ServerInv, NEW c \in Conn, ReleaseSlot(c) \/ Done(c)
  PROVE  /\ SlotsAndHandlersAgree'
         /\ In(Handled)' \subseteq In(Handled)
         /\ conn' \in [Conn -> ConnState]
         /\ UNCHANGED <<loop, main>>
<1>. USE DEF ServerInv
<1>1. /\ MaxConns > 0 => slots = Cardinality(In(Busy))
      /\ wg = Cardinality(In(Handled))
      /\ Cardinality(In({"hand"})) = IF loop = "slot" THEN 1 ELSE 0
  BY DEF SlotsAndHandlersAgree, Busy
<1>2. SUFFICES /\ MaxConns > 0 => slots' = Cardinality(In(Busy)')
               /\ wg' = Cardinality(In(Handled)')
               /\ In({"hand"})' = In({"hand"})
               /\ In(Handled)' \subseteq In(Handled)
  <2>1. conn' \in [Conn -> ConnState] /\ UNCHANGED <<loop, main>>
    BY DEF ReleaseSlot, Done, Move, ServerTypeOK, ConnState
  <2>. QED
    BY <1>1, <2>1 DEF SlotsAndHandlersAgree, Busy
<1>3. CASE ReleaseSlot(c)
  <2>1. /\ conn[c] = "left" /\ conn' = [conn EXCEPT ![c] = "done"]
        /\ MaxConns > 0 => slots' = slots - 1
        /\ wg' = wg
    BY <1>3 DEF ReleaseSlot, Move
  <2>2. "done" \in Handled \ Busy
    BY DEF Handled, Busy
  <2>3. Cardinality(In(Busy)') = Cardinality(In(Busy)) - 1
    BY <2>1, <2>2, Goes, States, Zenon
  <2>4. In(Handled)' = In(Handled) /\ In({"hand"})' = In({"hand"})
    BY <2>1, <2>2, Stays, States, Zenon
  <2>. QED
    BY <1>1, <2>1, <2>3, <2>4
<1>4. CASE Done(c)
  <2>1. /\ conn[c] = "done" /\ conn' = [conn EXCEPT ![c] = "closed"]
        /\ wg' = wg - 1 /\ slots' = slots
    BY <1>4 DEF Done, Move
  <2>2. "done" \in Handled \ Busy /\ "closed" \notin Handled \cup Busy
    BY DEF Handled, Busy, Kept
  <2>3. /\ Cardinality(In(Handled)') = Cardinality(In(Handled)) - 1
        /\ In(Handled)' \subseteq In(Handled)
    BY <2>1, <2>2, Goes, Zenon
  <2>4. In(Busy)' = In(Busy) /\ In({"hand"})' = In({"hand"})
    BY <2>1, <2>2, Stays, Zenon
  <2>. QED
    BY <1>1, <2>1, <2>3, <2>4
<1>. QED
  BY <1>3, <1>4

(* Closing the listener resets connections that no handler has seen. *)
LEMMA CloseListenerStep ==
  ASSUME ServerInv, CloseListener
  PROVE  ServerInv'
<1>1. /\ conn' = [c \in Conn |-> IF conn[c] = "queued" THEN "closed" ELSE conn[c]]
      /\ UNCHANGED <<loop, slots, wg, main>>
  BY DEF CloseListener
<1>2. conn' \in [Conn -> ConnState]
  BY <1>1 DEF ServerInv, ServerTypeOK, ConnState
<1>3. In(Handled)' = In(Handled) /\ In(Busy)' = In(Busy) /\ In({"hand"})' = In({"hand"})
  BY <1>1, States DEF In
<1>. QED
  BY <1>1, <1>2, <1>3 DEF ServerInv, ServerTypeOK, SlotsAndHandlersAgree, ReturnsLast, Busy

(* The steps that move no connection: the signal, the errors of Accept,    *)
(* the end of the loop and the deferred calls of run.  wg.Wait is where    *)
(* the count of the handlers becomes the absence of handlers.              *)
LEMMA LoopStep ==
  ASSUME ServerInv,
         Cancel \/ AcceptTemporary \/ Wake \/ AcceptEnds \/ WaitDone \/ Defer
  PROVE  ServerInv'
<1>. USE DEF ServerInv
<1>1. UNCHANGED <<conn, slots, wg>> /\ (loop' = "slot" <=> loop = "slot")
  BY DEF Cancel, AcceptTemporary, Wake, AcceptEnds, WaitDone, Defer, ServerTypeOK
<1>2. SlotsAndHandlersAgree' /\ In(Handled)' = In(Handled)
  BY <1>1, CountersStay
<1>3. ServerTypeOK'
  BY <1>1 DEF Cancel, AcceptTemporary, Wake, AcceptEnds, WaitDone, Defer, ServerTypeOK
<1>4. ReturnsLast'
  <2>1. CASE WaitDone
    <3>1. Cardinality(In(Handled)) = 0
      BY <2>1 DEF WaitDone, SlotsAndHandlersAgree
    <3>2. In(Handled) = {}
      BY <3>1, InIsFinite, FS_EmptySet
    <3>. QED
      BY <1>2, <2>1, <3>2 DEF WaitDone, ReturnsLast
  <2>2. CASE Cancel \/ AcceptTemporary \/ Wake \/ AcceptEnds \/ Defer
    BY <1>2, <2>2 DEF Cancel, AcceptTemporary, Wake, AcceptEnds, Defer, ReturnsLast,
                      ServerTypeOK, Alive
  <2>. QED
    BY <2>1, <2>2
<1>. QED
  BY <1>2, <1>3, <1>4

(* The inductive step. *)
LEMMA ServerInvStep ==
  ASSUME ServerInv, [Next]_vars
  PROVE  ServerInv'
<1>1. CASE UNCHANGED vars
  BY <1>1, CountersStay DEF vars, ServerInv, ServerTypeOK, ReturnsLast
<1>2. CASE CloseListener
  BY <1>2, CloseListenerStep
<1>3. CASE Cancel \/ AcceptTemporary \/ Wake \/ AcceptEnds \/ WaitDone \/ Defer
  BY <1>3, LoopStep
<1>4. ASSUME NEW c \in Conn, Accept(c) \/ Handle(c) \/ Refuse(c)
      PROVE  ServerInv'
  <2>1. SlotsAndHandlersAgree' /\ ServerTypeOK' /\ ReturnsLast'
    BY <1>4, HandStep DEF ServerInv, ServerTypeOK, ReturnsLast
  <2>. QED
    BY <2>1 DEF ServerInv
<1>5. ASSUME NEW c \in Conn, Client(c) \/ Answer(c) \/ Leave(c)
      PROVE  ServerInv'
  BY <1>5, UncountedStep DEF ServerInv, ServerTypeOK, ReturnsLast
<1>6. ASSUME NEW c \in Conn, ReleaseSlot(c) \/ Done(c)
      PROVE  ServerInv'
  BY <1>6, LeavingStep DEF ServerInv, ServerTypeOK, ReturnsLast
<1>. QED
  BY <1>1, <1>2, <1>3, <1>4, <1>5, <1>6 DEF Next, Loop, Handler

(* The server starts with no connection. *)
LEMMA ServerInvInitial ==
  ASSUME Init
  PROVE  ServerInv
<1>1. In(Handled) = {} /\ In(Busy) = {} /\ In({"hand"}) = {}
  BY States DEF Init, In
<1>2. Cardinality({}) = 0
  BY FS_EmptySet
<1>. QED
  BY <1>1, <1>2 DEF Init, ServerInv, ServerTypeOK, SlotsAndHandlersAgree, ReturnsLast,
                    Busy, ConnState

(* The inductive invariant of the server holds for ever. *)
THEOREM ServerInvariant == Spec => []ServerInv
<1>1. Init => ServerInv
  BY ServerInvInitial
<1>2. ServerInv /\ [Next]_vars => ServerInv'
  BY ServerInvStep
<1>. QED
  BY <1>1, <1>2, PTL DEF Spec

(* On every path of a connection the slots taken, the wait group and the   *)
(* connection in hand are what the handlers say they are: no path leaks a  *)
(* slot or a count, whatever the limit on connections.                     *)
THEOREM NoSlotIsLost == Spec => []SlotsAndHandlersAgree
<1>1. ServerInv => SlotsAndHandlersAgree
  BY DEF ServerInv
<1>. QED
  BY <1>1, ServerInvariant, PTL

(* When run closes the journals, and after that, no handler is in the      *)
(* service or can get there.                                               *)
THEOREM RequestsEndFirst == Spec => []JournalsOutliveRequests
<1>1. ASSUME ServerInv
      PROVE  JournalsOutliveRequests
  <2>. SUFFICES ASSUME main # "serve"
                PROVE  In({"hand"} \cup Kept) = {}
    BY DEF JournalsOutliveRequests
  <2>1. loop = "returned" /\ In(Handled) = {}
    BY <1>1 DEF ServerInv, ReturnsLast
  <2>2. Cardinality(In({"hand"})) = 0
    BY <1>1, <2>1 DEF ServerInv, SlotsAndHandlersAgree
  <2>3. In({"hand"}) = {}
    BY <2>2, InIsFinite, FS_EmptySet
  <2>. QED
    BY <2>1, <2>3, States DEF In
<1>2. ServerInv => JournalsOutliveRequests
  BY <1>1
<1>. QED
  BY <1>2, ServerInvariant, PTL

=============================================================================
