--------------------------- MODULE ServiceProofs ----------------------------
(***************************************************************************)
(* The map of engines of service.Service, for any number of queues,        *)
(* clients and leases: one engine for a queue under the mutex, an Ack that *)
(* scans a snapshot, and a pass of the reaper over another one, while the  *)
(* engines change under both.                                              *)
(***************************************************************************)
EXTENDS Service, FiniteSetTheorems, TLAPS

(* The reaper's record, and where the leases in a call come from. *)
Shapes ==
  /\ reaper = [on |-> reaper.on, left |-> reaper.left, due |-> reaper.due,
               missed |-> reaper.missed]
  /\ reaper.due \subseteq issued
  /\ faults \in Nat
  /\ \A c \in Client : call[c].op \in {"ack", "scan"} => call[c].lease \in issued

(* Whoever holds Service.mu holds it alone, and makes an engine that is    *)
(* still missing and still has a place.                                    *)
Holder ==
  /\ \A c, d \in mutex : c = d
  /\ \A c \in mutex : engine[call[c].queue] = "absent" /\ ~Full

(* A lease lives in one queue, and a working engine knows every claim. *)
Homes ==
  /\ \A q \in Queue : leases[q] \cup claims[q] \subseteq issued
  /\ \A q \in Queue : engine[q] = "serving" => claims[q] \subseteq leases[q]
  /\ \A p, q \in Queue : \A l \in (leases[p] \cup claims[p]) \cap (leases[q] \cup claims[q]) :
       p = q

(* The lease a scan was begun for is in an engine that the scan has still  *)
(* to visit, or is gone for good.                                          *)
ScanFacts ==
  \A c \in Client :
    call[c].op = "scan" /\ call[c].known =>
      \A q \in Queue :
        /\ call[c].lease \in leases[q] \cup claims[q] => engine[q] = "serving"
        /\ call[c].lease \in leases[q] => q \in call[c].left

(* A queue the pass is done with holds no lease that was over when the     *)
(* pass began, but the missed ones.                                        *)
PassFacts ==
  reaper.on => \A q \in Queue \ reaper.left : DueIn(q) \subseteq reaper.missed

ServiceInv ==
  /\ ServiceTypeOK
  /\ Shapes
  /\ OneEnginePerQueue
  /\ Holder
  /\ Homes
  /\ ScanFacts
  /\ PassFacts

(* What a client's state looks like, by its operation. *)
LEMMA CallForms ==
  ASSUME ServiceTypeOK, NEW c \in Client
  PROVE  /\ call[c].op = "idle" => call[c] = Idle
         /\ call[c].op \in {"find", "make", "use"} => call[c].queue \in Queue
         /\ call[c].op = "ack" => call[c].lease \in Lease
         /\ call[c].op = "scan" =>
              /\ call[c].lease \in Lease /\ call[c].left \subseteq Queue
              /\ call[c].known \in BOOLEAN
              /\ call[c] = Scan(call[c].lease, call[c].left, call[c].known)
<1>1. call[c] \in Calls
  BY DEF ServiceTypeOK
<1>. QED
  BY <1>1 DEF Calls, Idle, Wants, WantsAck, Scan

(* A client moves on; the others stay where they are. *)
LEMMA BecomesFacts ==
  ASSUME ServiceTypeOK, NEW c \in Client, NEW state \in Calls, Becomes(c, state)
  PROVE  /\ call' \in [Client -> Calls]
         /\ call'[c] = state
         /\ \A d \in Client \ {c} : call'[d] = call[d]
BY DEF ServiceTypeOK, Becomes

(* What the states a client moves to look like. *)
LEMMA NewForms ==
  /\ Idle \in Calls /\ Idle.op = "idle"
  /\ \A op \in {"find", "make", "use"}, q \in Queue :
       /\ Wants(op, q) \in Calls /\ Wants(op, q).op = op /\ Wants(op, q).queue = q
  /\ \A l \in Lease :
       /\ WantsAck(l) \in Calls /\ WantsAck(l).op = "ack" /\ WantsAck(l).lease = l
  /\ \A l \in Lease, qs \in SUBSET Queue, k \in BOOLEAN :
       /\ Scan(l, qs, k) \in Calls /\ Scan(l, qs, k).op = "scan"
       /\ Scan(l, qs, k).lease = l /\ Scan(l, qs, k).left = qs
       /\ Scan(l, qs, k).known = k
<1>1. Idle \in Calls /\ Idle.op = "idle"
  BY DEF Calls, Idle
<1>2. ASSUME NEW op \in {"find", "make", "use"}, NEW q \in Queue
      PROVE  Wants(op, q) \in Calls /\ Wants(op, q).op = op /\ Wants(op, q).queue = q
  BY DEF Calls, Wants
<1>3. ASSUME NEW l \in Lease
      PROVE  WantsAck(l) \in Calls /\ WantsAck(l).op = "ack" /\ WantsAck(l).lease = l
  BY DEF Calls, WantsAck
<1>4. ASSUME NEW l \in Lease, NEW qs \in SUBSET Queue, NEW k \in BOOLEAN
      PROVE  /\ Scan(l, qs, k) \in Calls /\ Scan(l, qs, k).op = "scan"
             /\ Scan(l, qs, k).lease = l /\ Scan(l, qs, k).left = qs
             /\ Scan(l, qs, k).known = k
  <2>1. Scan(l, qs, k) \in Calls
    <3>1. Scan(l, qs, k) \in { Scan(m, ps, b) : m \in Lease, ps \in SUBSET Queue, b \in BOOLEAN }
      OBVIOUS
    <3>. QED
      BY <3>1 DEF Calls
  <2>2. Scan(l, qs, k).known = k
    BY Zenon DEF Scan
  <2>. QED
    BY <2>1, <2>2 DEF Scan
<1>. QED
  BY <1>1, <1>2, <1>3, <1>4

(* A step that leaves the engines, and what they hold, alone. *)
LEMMA EnginesStay ==
  ASSUME ServiceInv, UNCHANGED <<queueVars, issued>>
  PROVE  /\ OneEnginePerQueue' /\ Homes'
         /\ Existing' = Existing /\ Leased' = Leased /\ Full' = Full
<1>1. Existing' = Existing /\ Leased' = Leased
  BY DEF queueVars, Existing, Leased
<1>. QED
  BY <1>1 DEF ServiceInv, queueVars, OneEnginePerQueue, Homes, Full

(* Steps in which a client only moves on: it calls, finds the engine or no *)
(* place for one, or returns.                                              *)
LEMMA InvClientMoves ==
  ASSUME ServiceInv, NEW c \in Client, NEW state \in Calls, Becomes(c, state),
         call[c].op # "make", state.op \notin {"make", "scan"},
         state.op = "ack" => state.lease \in issued,
         UNCHANGED <<queueVars, mutex, reaper, lapsed, budgetVars, issued>>
  PROVE  ServiceInv'
<1>. USE DEF ServiceInv, queueVars, budgetVars
<1>1. /\ call' \in [Client -> Calls]
      /\ call'[c] = state
      /\ \A d \in Client \ {c} : call'[d] = call[d]
  BY BecomesFacts
<1>2. OneEnginePerQueue' /\ Homes' /\ Full' = Full
  BY EnginesStay
<1>3. ServiceTypeOK'
  BY <1>1 DEF ServiceTypeOK
<1>4. Shapes'
  BY <1>1 DEF Shapes
<1>5. Holder'
  <2>1. c \notin mutex /\ mutex \subseteq Client
    BY DEF ServiceTypeOK
  <2>. QED
    BY <1>1, <1>2, <2>1 DEF Holder
<1>6. ScanFacts'
  BY <1>1 DEF ScanFacts
<1>7. PassFacts'
  BY DEF PassFacts, DueIn
<1>. QED
  BY <1>2, <1>3, <1>4, <1>5, <1>6, <1>7

(* Call, Return, and a lookup that makes no engine. *)
LEMMA InvCall ==
  ASSUME ServiceInv, NEW c \in Client, Call(c)
  PROVE  ServiceInv'
<1>1. issued \subseteq Lease
  BY DEF ServiceInv, ServiceTypeOK
<1>2. PICK state \in Calls : /\ Becomes(c, state) /\ state.op \notin {"make", "scan"}
                             /\ state.op = "ack" => state.lease \in issued
  <2>1. CASE \E q \in Queue : Becomes(c, Wants("find", q))
    <3>1. PICK q \in Queue : Becomes(c, Wants("find", q))
      BY <2>1
    <3>. QED
      BY <3>1, NewForms
  <2>2. CASE \E l \in issued : Becomes(c, WantsAck(l))
    <3>1. PICK l \in issued : Becomes(c, WantsAck(l))
      BY <2>2
    <3>. QED
      BY <1>1, <3>1, NewForms
  <2>. QED
    BY <2>1, <2>2 DEF Call
<1>. QED
  BY <1>2, InvClientMoves DEF Call

(* engineFor up to the making of an engine. *)
LEMMA InvLookup ==
  ASSUME ServiceInv, NEW c \in Client, Lookup(c)
  PROVE  ServiceInv'
<1>. DEFINE q == call[c].queue
<1>2. call[c].op = "find" /\ mutex = {} /\ q \in Queue
  BY CallForms DEF Lookup, ServiceInv
<1>3. UNCHANGED <<queueVars, reaper, lapsed, budgetVars, issued>>
  BY DEF Lookup
<1>4. CASE Becomes(c, Wants("use", q)) /\ UNCHANGED mutex
  BY <1>2, <1>3, <1>4, NewForms, InvClientMoves
<1>5. CASE Becomes(c, Idle) /\ UNCHANGED mutex
  BY <1>2, <1>3, <1>5, NewForms, InvClientMoves
<1>6. CASE engine[q] = "absent" /\ ~Full /\ Becomes(c, Wants("make", q)) /\ mutex' = {c}
  <2>. USE DEF ServiceInv, queueVars, budgetVars
  <2>1. /\ call' \in [Client -> Calls]
        /\ call'[c].op = "make" /\ call'[c].queue = q
        /\ \A d \in Client \ {c} : call'[d] = call[d]
    BY <1>2, <1>6, NewForms, BecomesFacts
  <2>2. OneEnginePerQueue' /\ Homes' /\ Full' = Full
    BY <1>3, EnginesStay
  <2>3. ServiceTypeOK'
    BY <1>2, <1>3, <1>6, <2>1 DEF ServiceTypeOK
  <2>4. Shapes'
    BY <1>3, <2>1 DEF Shapes
  <2>5. Holder'
    BY <1>3, <1>6, <2>1, <2>2 DEF Holder
  <2>6. ScanFacts'
    BY <1>3, <2>1 DEF ScanFacts
  <2>7. PassFacts'
    BY <1>3 DEF PassFacts, DueIn
  <2>. QED
    BY <2>2, <2>3, <2>4, <2>5, <2>6, <2>7
<1>. QED
  BY <1>4, <1>5, <1>6 DEF Lookup

(* Enqueue, and a Fetch that yields nothing. *)
LEMMA InvReturn ==
  ASSUME ServiceInv, NEW c \in Client, Return(c)
  PROVE  ServiceInv'
BY NewForms, InvClientMoves DEF Return

(* Ack takes its snapshot: if the lease is in an engine, then that engine  *)
(* is in the snapshot, and no other has a claim under the same ID.         *)
LEMMA InvSnapshot ==
  ASSUME ServiceInv, NEW c \in Client, Snapshot(c)
  PROVE  ServiceInv'
<1>. DEFINE l == call[c].lease
            known == l \in Leased
<1>1. /\ call[c].op = "ack" /\ mutex = {} /\ l \in Lease
      /\ Becomes(c, Scan(l, Existing, known))
      /\ UNCHANGED <<queueVars, mutex, reaper, lapsed, budgetVars, issued>>
  BY CallForms DEF Snapshot, ServiceInv
<1>2. Existing \in SUBSET Queue
  BY DEF Existing
<1>. USE DEF ServiceInv, queueVars, budgetVars
<1>3. /\ call' \in [Client -> Calls]
      /\ call'[c] = Scan(l, Existing, known)
      /\ \A d \in Client \ {c} : call'[d] = call[d]
  <2>1. known \in BOOLEAN
    OBVIOUS
  <2>. HIDE DEF known, l
  <2>2. Scan(l, Existing, known) \in Calls
    BY <1>1, <1>2, <2>1, NewForms
  <2>. QED
    BY <1>1, <2>2, BecomesFacts
<1>4. call'[c].op = "scan" /\ call'[c].lease = l /\ call'[c].left = Existing
  BY <1>3 DEF Scan
<1>5. call'[c].known => l \in Leased
  <2>1. known <=> l \in Leased
    OBVIOUS
  <2>. HIDE DEF known, l
  <2>2. Scan(l, Existing, known).known = known
    BY Zenon DEF Scan
  <2>3. call'[c].known = known
    BY <1>3, <2>2, Zenon
  <2>. QED
    BY <2>1, <2>3, Zenon
<1>. HIDE DEF l, known
<1>6. OneEnginePerQueue' /\ Homes' /\ Full' = Full
  BY <1>1, EnginesStay
<1>7. ServiceTypeOK'
  BY <1>1, <1>3, <1>4 DEF ServiceTypeOK
<1>8. Shapes'
  <2>1. l \in issued
    BY <1>1 DEF Shapes, l
  <2>. QED
    BY <1>1, <1>3, <1>4, <2>1 DEF Shapes
<1>9. Holder'
  BY <1>1 DEF Holder
<1>10. ScanFacts'
  <2>1. ASSUME l \in Leased, NEW p \in Queue
        PROVE  /\ l \in leases[p] \cup claims[p] => engine[p] = "serving"
               /\ l \in leases[p] => p \in Existing
    <3>1. PICK q \in Existing : l \in leases[q]
      BY <2>1 DEF Leased
    <3>2. q \in Queue /\ engine[q] = "serving"
      BY <3>1 DEF Existing, ServiceTypeOK
    <3>3. l \in leases[p] \cup claims[p] => p = q
      BY <3>1, <3>2 DEF Homes
    <3>. QED
      BY <3>1, <3>2, <3>3
  <2>. QED
    BY <1>1, <1>3, <1>4, <1>5, <2>1 DEF ScanFacts
<1>11. PassFacts'
  BY <1>1 DEF PassFacts, DueIn
<1>. QED
  BY <1>6, <1>7, <1>8, <1>9, <1>10, <1>11

(* The maker of an engine leaves engineFor, with an engine or without:     *)
(* what is common to both.                                                 *)
LEMMA MakerLeaves ==
  ASSUME ServiceInv, NEW c \in Client, call[c].op = "make",
         NEW state \in Calls, Becomes(c, state), state.op \in {"idle", "use"},
         mutex' = mutex \ {c}
  PROVE  /\ call' \in [Client -> Calls] /\ call'[c] = state
         /\ \A d \in Client \ {c} : call'[d] = call[d]
         /\ mutex' = {}
         /\ \A d \in Client : call'[d].op # "make"
         /\ Holder'
<1>. USE DEF ServiceInv
<1>1. /\ call' \in [Client -> Calls] /\ call'[c] = state
      /\ \A d \in Client \ {c} : call'[d] = call[d]
  BY BecomesFacts
<1>2. mutex = {c}
  BY DEF ServiceTypeOK, Holder
<1>3. mutex' = {} /\ \A d \in Client : call'[d].op # "make"
  BY <1>1, <1>2 DEF ServiceTypeOK
<1>. QED
  BY <1>1, <1>3 DEF Holder

(* The journal could not be opened: nothing was stored. *)
LEMMA InvMakeFails ==
  ASSUME ServiceInv, NEW c \in Client, MakeFails(c)
  PROVE  ServiceInv'
<1>1. /\ call[c].op = "make" /\ Becomes(c, Idle) /\ mutex' = mutex \ {c}
      /\ Fault
      /\ UNCHANGED <<queueVars, reaper, lapsed, issued>>
  BY DEF MakeFails
<1>. USE DEF ServiceInv, queueVars
<1>2. /\ call' \in [Client -> Calls] /\ call'[c].op = "idle"
      /\ \A d \in Client \ {c} : call'[d] = call[d]
      /\ mutex' = {}
      /\ \A d \in Client : call'[d].op # "make"
      /\ Holder'
  BY <1>1, NewForms, MakerLeaves
<1>3. OneEnginePerQueue' /\ Homes'
  BY <1>1, EnginesStay
<1>4. ServiceTypeOK'
  BY <1>1, <1>2 DEF ServiceTypeOK
<1>5. Shapes'
  BY <1>1, <1>2 DEF Shapes, Fault
<1>6. ScanFacts'
  BY <1>1, <1>2 DEF ScanFacts
<1>7. PassFacts'
  BY <1>1 DEF PassFacts, DueIn
<1>. QED
  BY <1>2, <1>3, <1>4, <1>5, <1>6, <1>7

(* A place that is free can be taken. *)
LEMMA OneMoreQueue ==
  ASSUME ServiceInv, NEW q \in Queue, engine[q] = "absent", ~Full,
         NEW state \in {"serving", "broken"}, engine' = [engine EXCEPT ![q] = state]
  PROVE  /\ Existing' = Existing \cup {q} /\ q \notin Existing
         /\ MaxQueues > 0 => Cardinality(Existing') <= MaxQueues
<1>1. Existing' = Existing \cup {q} /\ q \notin Existing
  BY DEF ServiceInv, ServiceTypeOK, Existing
<1>2. IsFiniteSet(Existing) /\ Cardinality(Existing) \in Nat
  <2>1. Existing \subseteq Queue
    BY DEF Existing
  <2>. QED
    BY <2>1, ServiceAssumption, FS_Subset, FS_CardinalityType DEF ServiceAssumption
<1>3. Cardinality(Existing') = Cardinality(Existing) + 1
  BY <1>1, <1>2, FS_AddElement, Zenon
<1>. QED
  BY <1>1, <1>2, <1>3, ServiceAssumption DEF Full, ServiceAssumption

(* An engine is made, recovered from the claims of its queue, and stored,  *)
(* with the error of its recovery if there was one.                        *)
LEMMA InvMake ==
  ASSUME ServiceInv, NEW c \in Client, Make(c)
  PROVE  ServiceInv'
<1>. DEFINE q == call[c].queue
<1>1. /\ call[c].op = "make" /\ q \in Queue
      /\ Becomes(c, Wants("use", q)) /\ mutex' = mutex \ {c}
      /\ journals' = [journals EXCEPT ![q] = @ + 1]
      /\ UNCHANGED <<claims, reaper, lapsed, issued>>
  BY CallForms DEF Make, ServiceInv
<1>2. PICK state \in {"serving", "broken"} :
        /\ engine' = [engine EXCEPT ![q] = state]
        /\ IF state = "serving" THEN leases' = [leases EXCEPT ![q] = claims[q]]
                                ELSE leases' = leases
        /\ faults' \in {faults, faults + 1}
  BY DEF Make, Fault, NoFault, budgetVars
<1>. USE DEF ServiceInv
<1>3. engine[q] = "absent" /\ ~Full /\ leases[q] = {}
  BY <1>1 DEF ServiceTypeOK, Holder
<1>. HIDE DEF q
<1>4. /\ call' \in [Client -> Calls] /\ call'[c].op = "use"
      /\ \A d \in Client \ {c} : call'[d] = call[d]
      /\ mutex' = {}
      /\ \A d \in Client : call'[d].op # "make"
      /\ Holder'
  BY <1>1, NewForms, MakerLeaves
<1>5. /\ Existing' = Existing \cup {q} /\ q \notin Existing
      /\ MaxQueues > 0 => Cardinality(Existing') <= MaxQueues
  BY <1>1, <1>2, <1>3, OneMoreQueue, Zenon
<1>6. OneEnginePerQueue'
  <2>1. ASSUME NEW p \in Queue
        PROVE  journals'[p] = IF p \in Existing' THEN 1 ELSE 0
    BY <1>1, <1>5 DEF OneEnginePerQueue, ServiceTypeOK
  <2>. QED
    BY <1>5, <2>1 DEF OneEnginePerQueue
<1>7. /\ \A p \in Queue \ {q} : leases'[p] = leases[p] /\ engine'[p] = engine[p]
      /\ engine'[q] = state
      /\ leases'[q] = IF state = "serving" THEN claims[q] ELSE {}
      /\ engine' \in [Queue -> {"absent", "serving", "broken"}]
      /\ leases' \in [Queue -> SUBSET Lease]
      /\ journals' \in [Queue -> Nat]
  <2>1. /\ \A p \in Queue \ {q} : engine'[p] = engine[p]
        /\ engine'[q] = state
        /\ engine' \in [Queue -> {"absent", "serving", "broken"}]
    BY <1>1, <1>2 DEF ServiceTypeOK
  <2>2. /\ \A p \in Queue \ {q} : leases'[p] = leases[p]
        /\ leases'[q] = IF state = "serving" THEN claims[q] ELSE {}
        /\ leases' \in [Queue -> SUBSET Lease]
    <3>1. CASE state = "serving"
      BY <1>1, <1>2, <3>1 DEF ServiceTypeOK
    <3>2. CASE state = "broken"
      BY <1>1, <1>2, <1>3, <3>2 DEF ServiceTypeOK
    <3>. QED
      BY <3>1, <3>2
  <2>3. journals' \in [Queue -> Nat]
    BY <1>1 DEF ServiceTypeOK
  <2>. QED
    BY <2>1, <2>2, <2>3
<1>8. ServiceTypeOK'
  BY <1>1, <1>4, <1>7 DEF ServiceTypeOK
<1>9. Shapes'
  BY <1>1, <1>2, <1>4 DEF Shapes
<1>10. Homes'
  <2>1. \A p \in Queue : leases'[p] \cup claims'[p] \subseteq leases[p] \cup claims[p]
    BY <1>1, <1>7
  <2>2. \A p \in Queue : engine'[p] = "serving" => claims'[p] \subseteq leases'[p]
    BY <1>1, <1>7 DEF Homes
  <2>. QED
    BY <1>1, <2>1, <2>2 DEF Homes
<1>11. ScanFacts'
  <2>1. ASSUME NEW d \in Client, call[d].op = "scan", call[d].known
        PROVE  call[d].lease \notin claims[q]
    BY <1>1, <1>3, <2>1 DEF ScanFacts
  <2>. QED
    BY <1>1, <1>4, <1>7, <2>1, SMTT(20) DEF ScanFacts
<1>12. PassFacts'
  BY <1>1 DEF PassFacts, DueIn
<1>. QED
  BY <1>4, <1>6, <1>8, <1>9, <1>10, <1>11, <1>12

(* Fetch puts a lease whose ID is new to everybody into one engine. *)
LEMMA InvFetch ==
  ASSUME ServiceInv, NEW c \in Client, NEW l \in Lease, Fetch(c, l)
  PROVE  ServiceInv'
<1>. DEFINE q == call[c].queue
<1>1. /\ call[c].op = "use" /\ q \in Queue /\ engine[q] = "serving" /\ l \notin issued
      /\ issued' = issued \cup {l} /\ Becomes(c, Idle)
      /\ UNCHANGED <<engine, journals, mutex, reaper, lapsed, budgetVars>>
  BY CallForms DEF Fetch, ServiceInv
<1>. USE DEF ServiceInv
<1>2. /\ leases' \in [Queue -> SUBSET Lease] /\ claims' \in [Queue -> SUBSET Lease]
      /\ \A p \in Queue \ {q} : leases'[p] = leases[p] /\ claims'[p] = claims[p]
      /\ leases'[q] = leases[q] \cup {l} /\ claims'[q] = claims[q] \cup {l}
  BY <1>1 DEF Fetch, ServiceTypeOK
<1>. HIDE DEF q
<1>3. /\ call' \in [Client -> Calls]
      /\ call'[c].op = "idle"
      /\ \A d \in Client \ {c} : call'[d] = call[d]
  BY <1>1, NewForms, BecomesFacts
<1>4. Existing' = Existing /\ Full' = Full
  BY <1>1 DEF Existing, Full
<1>5. OneEnginePerQueue'
  BY <1>1, <1>4 DEF OneEnginePerQueue
<1>6. ServiceTypeOK'
  BY <1>1, <1>2, <1>3 DEF ServiceTypeOK
<1>7. Shapes'
  BY <1>1, <1>3 DEF Shapes, budgetVars
<1>8. Holder'
  <2>1. c \notin mutex /\ mutex \subseteq Client
    BY <1>1 DEF ServiceTypeOK
  <2>. QED
    BY <1>1, <1>3, <1>4, <2>1 DEF Holder
<1>9. Homes'
  <2>1. \A p \in Queue : l \notin leases[p] \cup claims[p]
    BY <1>1 DEF Homes
  <2>2. \A p \in Queue : leases'[p] \cup claims'[p] \subseteq issued'
    BY <1>1, <1>2 DEF Homes
  <2>3. \A p \in Queue : engine'[p] = "serving" => claims'[p] \subseteq leases'[p]
    BY <1>1, <1>2 DEF Homes
  <2>4. ASSUME NEW p \in Queue, NEW r \in Queue,
               NEW m \in (leases'[p] \cup claims'[p]) \cap (leases'[r] \cup claims'[r])
        PROVE  p = r
    <3>1. CASE m = l
      BY <1>2, <2>1, <3>1
    <3>2. CASE m # l
      BY <1>2, <3>2 DEF Homes
    <3>. QED
      BY <3>1, <3>2
  <2>. QED
    BY <2>2, <2>3, <2>4 DEF Homes
<1>10. ScanFacts'
  <2>1. ASSUME NEW d \in Client, call'[d].op = "scan", call'[d].known, NEW p \in Queue
        PROVE  /\ call'[d].lease \in leases'[p] \cup claims'[p] => engine'[p] = "serving"
               /\ call'[d].lease \in leases'[p] => p \in call'[d].left
    <3>1. d # c /\ call'[d] = call[d] /\ call[d].lease \in issued
      BY <1>3, <2>1 DEF Shapes
    <3>2. call[d].lease # l
      BY <1>1, <3>1
    <3>. QED
      BY <1>1, <1>2, <2>1, <3>1, <3>2 DEF ScanFacts
  <2>. QED
    BY <2>1 DEF ScanFacts
<1>11. PassFacts'
  <2>1. l \notin reaper.due
    BY <1>1 DEF Shapes
  <2>2. \A p \in Queue : DueIn(p)' = DueIn(p)
    BY <1>1, <1>2, <2>1 DEF DueIn
  <2>. QED
    BY <1>1, <2>2 DEF PassFacts
<1>. QED
  BY <1>5, <1>6, <1>7, <1>8, <1>9, <1>10, <1>11

(* A step in which the engines lose leases, and the queues claims: what is *)
(* common to Ack and to the reaper.                                        *)
LEMMA LeasesGo ==
  ASSUME ServiceInv, UNCHANGED <<engine, journals, issued>>,
         leases' \in [Queue -> SUBSET Lease], claims' \in [Queue -> SUBSET Lease],
         \A q \in Queue : leases'[q] \subseteq leases[q] /\ claims'[q] \subseteq claims[q],
         \A q \in Queue : engine[q] = "serving" => claims'[q] \subseteq leases'[q]
  PROVE  /\ OneEnginePerQueue' /\ Homes' /\ Full' = Full /\ Existing' = Existing
         /\ \A q \in Queue : engine'[q] # "serving" => leases'[q] = {}
<1>. USE DEF ServiceInv
<1>1. Existing' = Existing /\ Full' = Full
  BY DEF Existing, Full
<1>2. OneEnginePerQueue'
  BY <1>1 DEF OneEnginePerQueue
<1>3. Homes'
  <2>1. \A q \in Queue : leases'[q] \cup claims'[q] \subseteq leases[q] \cup claims[q]
    OBVIOUS
  <2>. QED
    BY <2>1 DEF Homes
<1>4. \A q \in Queue : engine'[q] # "serving" => leases'[q] = {}
  BY DEF ServiceTypeOK
<1>. QED
  BY <1>1, <1>2, <1>3, <1>4

(* A scan that goes on behind the engine of q. *)
LEMMA ScanGoesOn ==
  ASSUME ServiceInv, NEW c \in Client, call[c].op = "scan", NEW q \in Queue,
         NEW state, state = [call[c] EXCEPT !.left = @ \ {q}]
  PROVE  /\ state \in Calls
         /\ state.op = "scan" /\ state.lease = call[c].lease
         /\ state.left = call[c].left \ {q}
         /\ state.known => call[c].known
<1>. DEFINE k == call[c].known
            rest == call[c].left \ {q}
<1>1. /\ call[c].lease \in Lease /\ call[c].left \subseteq Queue /\ k \in BOOLEAN
      /\ call[c] = Scan(call[c].lease, call[c].left, k)
  BY CallForms DEF ServiceInv
<1>. HIDE DEF k
<1>2. state = Scan(call[c].lease, rest, k)
  BY <1>1 DEF Scan
<1>3. rest \in SUBSET Queue
  BY <1>1
<1>. HIDE DEF rest
<1>4. /\ state \in Calls /\ state.op = "scan" /\ state.lease = call[c].lease
      /\ state.left = rest
  <2>1. call[c].lease \in Lease /\ k \in BOOLEAN
    BY <1>1
  <2>2. Scan(call[c].lease, rest, k) \in Calls
    BY <1>3, <2>1, NewForms, Zenon
  <2>. QED
    BY <1>2, <2>2 DEF Scan
<1>5. state.known = k
  <2>1. Scan(call[c].lease, rest, k).known = k
    BY Zenon DEF Scan
  <2>. QED
    BY <1>2, <2>1, Zenon
<1>6. state.known => call[c].known
  BY <1>5, Zenon DEF k
<1>. QED
  BY <1>4, <1>6 DEF rest

(* One step of a scan: the engines lose no lease but the one acked, and    *)
(* the scan ends, or goes on behind an engine that no longer has the lease.*)
LEMMA AckScanFacts ==
  ASSUME ServiceInv, NEW c \in Client, AckScan(c)
  PROVE  /\ leases' \in [Queue -> SUBSET Lease] /\ claims' \in [Queue -> SUBSET Lease]
         /\ \A q \in Queue : leases'[q] \subseteq leases[q] /\ claims'[q] \subseteq claims[q]
         /\ \A q \in Queue : engine[q] = "serving" => claims'[q] \subseteq leases'[q]
         /\ faults' \in {faults, faults + 1}
         /\ \/ Becomes(c, Idle)
            \/ \E q \in Queue :
                 /\ Becomes(c, [call[c] EXCEPT !.left = @ \ {q}])
                 /\ call[c].lease \notin leases'[q]
<1>. DEFINE l == call[c].lease
<1>. USE DEF ServiceInv
<1>1. call[c].left \subseteq Queue
  BY CallForms DEF AckScan
<1>2. \A q \in Queue : engine[q] = "serving" => claims[q] \subseteq leases[q]
  BY DEF Homes
<1>3. leases \in [Queue -> SUBSET Lease] /\ claims \in [Queue -> SUBSET Lease]
  BY DEF ServiceTypeOK
<1>4. ASSUME NEW q \in Queue, AckNotHere(c, q) \/ AckBroken(c, q)
      PROVE  /\ UNCHANGED <<leases, claims, faults>>
             /\ \/ Becomes(c, Idle)
                \/ /\ Becomes(c, [call[c] EXCEPT !.left = @ \ {q}])
                   /\ l \notin leases'[q]
  BY <1>4 DEF AckNotHere, AckBroken, NoFault, budgetVars
<1>5. ASSUME NEW q \in Queue, l \in leases[q],
             NoFault, Drop(q, {l}),
             Becomes(c, IF l \in claims[q] THEN Idle ELSE [call[c] EXCEPT !.left = @ \ {q}])
      PROVE  /\ leases' \in [Queue -> SUBSET Lease] /\ claims' \in [Queue -> SUBSET Lease]
             /\ \A p \in Queue : leases'[p] \subseteq leases[p] /\ claims'[p] \subseteq claims[p]
             /\ \A p \in Queue : engine[p] = "serving" => claims'[p] \subseteq leases'[p]
             /\ faults' = faults
             /\ \/ Becomes(c, Idle)
                \/ /\ Becomes(c, [call[c] EXCEPT !.left = @ \ {q}])
                   /\ l \notin leases'[q]
  <2>1. /\ \A p \in Queue \ {q} : leases'[p] = leases[p] /\ claims'[p] = claims[p]
        /\ leases'[q] = leases[q] \ {l} /\ claims'[q] = claims[q] \ {l}
        /\ leases' \in [Queue -> SUBSET Lease] /\ claims' \in [Queue -> SUBSET Lease]
    BY <1>3, <1>5 DEF Drop
  <2>2. \A p \in Queue : leases'[p] \subseteq leases[p] /\ claims'[p] \subseteq claims[p]
    BY <2>1
  <2>3. \A p \in Queue : engine[p] = "serving" => claims'[p] \subseteq leases'[p]
    BY <1>2, <2>1
  <2>. QED
    BY <1>5, <2>1, <2>2, <2>3 DEF NoFault, budgetVars
<1>6. ASSUME NEW q \in Queue, Fault, Becomes(c, Idle), UNCHANGED leases,
             claims' \in {claims, [claims EXCEPT ![q] = @ \ {l}]}
      PROVE  /\ claims' \in [Queue -> SUBSET Lease] /\ faults' = faults + 1
             /\ \A p \in Queue : leases'[p] \subseteq leases[p] /\ claims'[p] \subseteq claims[p]
             /\ \A p \in Queue : engine[p] = "serving" => claims'[p] \subseteq leases'[p]
  <2>1. claims' \in [Queue -> SUBSET Lease] /\ \A p \in Queue : claims'[p] \subseteq claims[p]
    BY <1>3, <1>6
  <2>. QED
    BY <1>2, <1>6, <2>1 DEF Fault
<1>7. CASE \E q \in call[c].left : AckDone(c, q)
  <2>1. PICK q \in Queue : AckDone(c, q)
    BY <1>1, <1>7
  <2>. HIDE DEF l
  <2>2. \/ /\ l \in leases[q] /\ NoFault /\ Drop(q, {l})
           /\ Becomes(c, IF l \in claims[q] THEN Idle ELSE [call[c] EXCEPT !.left = @ \ {q}])
        \/ /\ Fault /\ Becomes(c, Idle) /\ UNCHANGED leases
           /\ claims' \in {claims, [claims EXCEPT ![q] = @ \ {l}]}
    BY <2>1 DEF AckDone, l
  <2>. QED
    BY <1>3, <1>5, <1>6, <2>2, Zenon DEF l
<1>8. CASE \E q \in call[c].left : AckNotHere(c, q) \/ AckBroken(c, q)
  <2>1. PICK q \in Queue : AckNotHere(c, q) \/ AckBroken(c, q)
    BY <1>1, <1>8
  <2>. QED
    BY <1>2, <1>3, <1>4, <2>1, Zenon
<1>9. CASE Becomes(c, Idle) /\ UNCHANGED <<leases, claims, budgetVars>>
  BY <1>2, <1>3, <1>9 DEF budgetVars
<1>. QED
  BY <1>7, <1>8, <1>9, Zenon DEF AckScan

(* A step of a scan keeps the invariant. *)
LEMMA InvAckScan ==
  ASSUME ServiceInv, NEW c \in Client, AckScan(c)
  PROVE  ServiceInv'
<1>1. /\ leases' \in [Queue -> SUBSET Lease] /\ claims' \in [Queue -> SUBSET Lease]
      /\ \A q \in Queue : leases'[q] \subseteq leases[q] /\ claims'[q] \subseteq claims[q]
      /\ \A q \in Queue : engine[q] = "serving" => claims'[q] \subseteq leases'[q]
      /\ faults' \in {faults, faults + 1}
  BY AckScanFacts
<1>2. /\ call[c].op = "scan"
      /\ UNCHANGED <<engine, journals, mutex, reaper, lapsed, issued>>
  BY DEF AckScan
<1>3. PICK state \in Calls :
        /\ Becomes(c, state)
        /\ \/ state.op = "idle"
           \/ /\ state.op = "scan" /\ state.lease = call[c].lease
              /\ state.known => call[c].known
              /\ \A p \in call[c].left \ state.left : call[c].lease \notin leases'[p]
  <2>1. CASE Becomes(c, Idle)
    BY <2>1, NewForms
  <2>2. ASSUME NEW q \in Queue, Becomes(c, [call[c] EXCEPT !.left = @ \ {q}]),
               call[c].lease \notin leases'[q]
        PROVE  \E state \in Calls :
                 /\ Becomes(c, state)
                 /\ state.op = "scan" /\ state.lease = call[c].lease
                 /\ state.known => call[c].known
                 /\ \A p \in call[c].left \ state.left : call[c].lease \notin leases'[p]
    <3>. DEFINE state == [call[c] EXCEPT !.left = @ \ {q}]
    <3>1. /\ state \in Calls /\ state.op = "scan" /\ state.lease = call[c].lease
          /\ state.left = call[c].left \ {q}
          /\ state.known => call[c].known
      BY <1>2, ScanGoesOn
    <3>2. Becomes(c, state)
      BY <2>2
    <3>. HIDE DEF state
    <3>. QED
      BY <2>2, <3>1, <3>2
  <2>. QED
    BY <2>1, <2>2, AckScanFacts, Zenon
<1>. USE DEF ServiceInv
<1>4. /\ call' \in [Client -> Calls] /\ call'[c] = state
      /\ \A d \in Client \ {c} : call'[d] = call[d]
  BY <1>3, BecomesFacts
<1>5. /\ OneEnginePerQueue' /\ Homes' /\ Full' = Full
      /\ \A q \in Queue : engine'[q] # "serving" => leases'[q] = {}
  BY <1>1, <1>2, LeasesGo, Zenon
<1>6. ServiceTypeOK'
  BY <1>1, <1>2, <1>3, <1>4, <1>5 DEF ServiceTypeOK
<1>7. Shapes'
  BY <1>1, <1>2, <1>3, <1>4 DEF Shapes
<1>8. Holder'
  <2>1. c \notin mutex /\ mutex \subseteq Client
    BY <1>2 DEF ServiceTypeOK
  <2>. QED
    BY <1>2, <1>4, <1>5, <2>1, Zenon DEF Holder
<1>9. ScanFacts'
  <2>1. ASSUME NEW d \in Client, call'[d].op = "scan", call'[d].known, NEW p \in Queue
        PROVE  /\ call'[d].lease \in leases'[p] \cup claims'[p] => engine'[p] = "serving"
               /\ call'[d].lease \in leases'[p] => p \in call'[d].left
    <3>1. /\ call[d].op = "scan" /\ call[d].known /\ call'[d].lease = call[d].lease
          /\ \A q \in call[d].left \ call'[d].left : call[d].lease \notin leases'[q]
      BY <1>2, <1>3, <1>4, <2>1
    <3>2. /\ call[d].lease \in leases[p] \cup claims[p] => engine[p] = "serving"
          /\ call[d].lease \in leases[p] => p \in call[d].left
      BY <3>1 DEF ScanFacts
    <3>. QED
      BY <1>1, <1>2, <3>1, <3>2
  <2>. QED
    BY <2>1 DEF ScanFacts
<1>10. PassFacts'
  BY <1>1, <1>2 DEF PassFacts, DueIn
<1>. QED
  BY <1>5, <1>6, <1>7, <1>8, <1>9, <1>10

(* The reaper takes its snapshot, or ends a pass. *)
LEMMA InvReapBounds ==
  ASSUME ServiceInv, ReapBegin \/ ReapEnd
  PROVE  ServiceInv'
<1>. USE DEF ServiceInv
<1>1. UNCHANGED <<queueVars, mutex, call, lapsed, budgetVars, issued>>
  BY DEF ReapBegin, ReapEnd
<1>2. /\ reaper'.left \subseteq Queue /\ reaper'.missed \subseteq reaper'.due
      /\ reaper'.due \subseteq lapsed
      /\ reaper' = [on |-> reaper'.on, left |-> reaper'.left, due |-> reaper'.due,
                    missed |-> reaper'.missed]
      /\ reaper'.on => \A q \in Queue \ reaper'.left :
                         claims[q] \cap reaper'.due \subseteq reaper'.missed
  <2>1. CASE ReapBegin
    <3>1. reaper' = [on |-> TRUE, left |-> Existing, due |-> lapsed,
                     missed |-> lapsed \cap UNION { claims[q] : q \in Queue \ Existing }]
      BY <2>1 DEF ReapBegin
    <3>2. Existing \subseteq Queue
      BY DEF Existing
    <3>. QED
      BY <3>1, <3>2
  <2>2. CASE ReapEnd
    BY <2>2 DEF ReapEnd, AtRest
  <2>. QED
    BY <2>1, <2>2
<1>3. OneEnginePerQueue' /\ Homes' /\ Full' = Full
  BY <1>1, EnginesStay
<1>4. ServiceTypeOK'
  BY <1>1, <1>2 DEF ServiceTypeOK, queueVars
<1>5. Shapes'
  BY <1>1, <1>2, Zenon DEF Shapes, ServiceTypeOK, budgetVars
<1>6. Holder' /\ ScanFacts'
  BY <1>1, <1>3 DEF Holder, ScanFacts, queueVars
<1>7. PassFacts'
  BY <1>1, <1>2 DEF PassFacts, DueIn, queueVars
<1>. QED
  BY <1>3, <1>4, <1>5, <1>6, <1>7

(* One engine's part of a pass: it loses leases that were over, and what   *)
(* it keeps of them it reports.                                            *)
LEMMA ReapFacts ==
  ASSUME ServiceInv, NEW q \in reaper.left, ReapEngine(q) \/ ReapError(q)
  PROVE  /\ leases' \in [Queue -> SUBSET Lease] /\ claims' \in [Queue -> SUBSET Lease]
         /\ \A p \in Queue : leases'[p] \subseteq leases[p] /\ claims'[p] \subseteq claims[p]
         /\ \A p \in Queue : engine[p] = "serving" => claims'[p] \subseteq leases'[p]
         /\ faults' \in {faults, faults + 1}
         /\ \E more \in SUBSET reaper.due :
              /\ reaper' = [reaper EXCEPT !.left = @ \ {q}, !.missed = @ \cup more]
              /\ claims'[q] \cap reaper.due \subseteq more
<1>. DEFINE ls == leases[q] \cap reaper.due
<1>. USE DEF ServiceInv
<1>1. /\ q \in Queue
      /\ leases \in [Queue -> SUBSET Lease] /\ claims \in [Queue -> SUBSET Lease]
      /\ \A p \in Queue : engine[p] = "serving" => claims[p] \subseteq leases[p]
  BY DEF ServiceTypeOK, Homes
<1>2. DueIn(q) \in SUBSET reaper.due
  BY DEF DueIn
<1>3. ASSUME NEW out \in SUBSET ls, NEW gone \in SUBSET ls,
             leases' = [leases EXCEPT ![q] = @ \ out],
             claims' = [claims EXCEPT ![q] = @ \ (out \cup gone)]
      PROVE  /\ leases' \in [Queue -> SUBSET Lease] /\ claims' \in [Queue -> SUBSET Lease]
             /\ \A p \in Queue : leases'[p] \subseteq leases[p] /\ claims'[p] \subseteq claims[p]
             /\ \A p \in Queue : engine[p] = "serving" => claims'[p] \subseteq leases'[p]
             /\ claims'[q] \cap reaper.due \subseteq DueIn(q)
  <2>1. /\ leases' \in [Queue -> SUBSET Lease] /\ claims' \in [Queue -> SUBSET Lease]
        /\ \A p \in Queue \ {q} : leases'[p] = leases[p] /\ claims'[p] = claims[p]
        /\ leases'[q] = leases[q] \ out /\ claims'[q] = claims[q] \ (out \cup gone)
    BY <1>1, <1>3
  <2>2. \A p \in Queue : leases'[p] \subseteq leases[p] /\ claims'[p] \subseteq claims[p]
    BY <2>1
  <2>3. \A p \in Queue : engine[p] = "serving" => claims'[p] \subseteq leases'[p]
    BY <1>1, <2>1
  <2>4. claims'[q] \cap reaper.due \subseteq DueIn(q)
    BY <2>1 DEF DueIn
  <2>. QED
    BY <2>1, <2>2, <2>3, <2>4
<1>4. CASE /\ engine[q] = "serving" /\ NoFault /\ Drop(q, ls)
           /\ reaper' = [reaper EXCEPT !.left = @ \ {q}]
  <2>1. /\ leases' = [leases EXCEPT ![q] = @ \ ls]
        /\ claims' = [claims EXCEPT ![q] = @ \ (ls \cup {})]
    BY <1>4 DEF Drop
  <2>2. reaper' = [reaper EXCEPT !.left = @ \ {q}, !.missed = @ \cup {}]
    BY <1>4, Zenon DEF Shapes
  <2>3. faults' = faults
    BY <1>4 DEF NoFault, budgetVars
  <2>4. claims'[q] \cap reaper.due \subseteq {}
    <3>1. claims'[q] = claims[q] \ ls /\ claims[q] \subseteq leases[q]
      BY <1>1, <1>4, <2>1
    <3>. QED
      BY <3>1
  <2>. HIDE DEF ls
  <2>5. ls \in SUBSET ls /\ {} \in SUBSET ls /\ {} \in SUBSET reaper.due
    OBVIOUS
  <2>6. /\ leases' \in [Queue -> SUBSET Lease] /\ claims' \in [Queue -> SUBSET Lease]
        /\ \A p \in Queue : leases'[p] \subseteq leases[p] /\ claims'[p] \subseteq claims[p]
        /\ \A p \in Queue : engine[p] = "serving" => claims'[p] \subseteq leases'[p]
    BY <1>3, <2>1, <2>5, Zenon
  <2>. QED
    BY <2>2, <2>3, <2>4, <2>5, <2>6, Zenon
<1>5. CASE /\ Fault
           /\ \E done \in SUBSET ls : \E l \in ls \ done : \E gone \in SUBSET {l} :
                /\ leases' = [leases EXCEPT ![q] = @ \ done]
                /\ claims' = [claims EXCEPT ![q] = @ \ (done \cup gone)]
           /\ reaper' = [reaper EXCEPT !.left = @ \ {q}, !.missed = @ \cup DueIn(q)]
  <2>1. PICK done \in SUBSET ls, gone \in SUBSET ls :
          /\ leases' = [leases EXCEPT ![q] = @ \ done]
          /\ claims' = [claims EXCEPT ![q] = @ \ (done \cup gone)]
    BY <1>5, Zenon
  <2>2. faults' = faults + 1
    BY <1>5 DEF Fault
  <2>. HIDE DEF ls
  <2>. QED
    BY <1>2, <1>3, <1>5, <2>1, <2>2, Zenon
<1>6. CASE ReapError(q)
  <2>1. claims'[q] \cap reaper.due \subseteq DueIn(q)
    BY <1>6 DEF ReapError, DueIn
  <2>. QED
    BY <1>1, <1>2, <1>6, <2>1, Zenon DEF ReapError, budgetVars
<1>. QED
  BY <1>4, <1>5, <1>6, Zenon DEF ReapEngine

(* A step of a pass keeps the invariant. *)
LEMMA InvReap ==
  ASSUME ServiceInv, Reap
  PROVE  ServiceInv'
<1>1. /\ reaper.on
      /\ UNCHANGED <<engine, journals, mutex, call, lapsed, issued>>
  BY DEF Reap
<1>2. PICK q \in reaper.left : ReapEngine(q) \/ ReapError(q)
  BY DEF Reap
<1>3. /\ leases' \in [Queue -> SUBSET Lease] /\ claims' \in [Queue -> SUBSET Lease]
      /\ \A p \in Queue : leases'[p] \subseteq leases[p] /\ claims'[p] \subseteq claims[p]
      /\ \A p \in Queue : engine[p] = "serving" => claims'[p] \subseteq leases'[p]
      /\ faults' \in {faults, faults + 1}
  BY <1>2, ReapFacts, Zenon
<1>4. PICK more \in SUBSET reaper.due :
        /\ reaper' = [reaper EXCEPT !.left = @ \ {q}, !.missed = @ \cup more]
        /\ claims'[q] \cap reaper.due \subseteq more
  BY <1>2, ReapFacts, Zenon
<1>. USE DEF ServiceInv
<1>5. /\ reaper'.left = reaper.left \ {q} /\ reaper'.due = reaper.due
      /\ reaper'.missed = reaper.missed \cup more
      /\ reaper' = [on |-> reaper'.on, left |-> reaper'.left, due |-> reaper'.due,
                    missed |-> reaper'.missed]
  BY <1>4, Zenon DEF Shapes
<1>6. /\ OneEnginePerQueue' /\ Homes' /\ Full' = Full
      /\ \A p \in Queue : engine'[p] # "serving" => leases'[p] = {}
  BY <1>1, <1>3, LeasesGo
<1>7. ServiceTypeOK'
  BY <1>1, <1>3, <1>5, <1>6 DEF ServiceTypeOK
<1>8. Shapes'
  BY <1>1, <1>3, <1>5 DEF Shapes
<1>9. Holder'
  BY <1>1, <1>6 DEF Holder
<1>10. ScanFacts'
  BY <1>1, <1>3 DEF ScanFacts
<1>11. PassFacts'
  <2>1. ASSUME NEW p \in Queue \ reaper'.left
        PROVE  claims'[p] \cap reaper'.due \subseteq reaper'.missed
    <3>1. CASE p = q
      BY <1>4, <1>5, <3>1
    <3>2. CASE p # q
      <4>1. claims[p] \cap reaper.due \subseteq reaper.missed
        BY <1>1, <1>5, <3>2 DEF PassFacts, DueIn
      <4>. QED
        BY <1>3, <1>5, <4>1
    <3>. QED
      BY <3>1, <3>2
  <2>. QED
    BY <2>1 DEF PassFacts, DueIn
<1>. QED
  BY <1>6, <1>7, <1>8, <1>9, <1>10, <1>11

(* A deadline passes. *)
LEMMA InvLapse ==
  ASSUME ServiceInv, NEW l \in Lease, Lapse(l)
  PROVE  ServiceInv'
<1>. USE DEF ServiceInv, Lapse, callVars, queueVars, budgetVars
<1>1. OneEnginePerQueue' /\ Homes' /\ Full' = Full
  BY EnginesStay
<1>2. ServiceTypeOK' /\ Shapes'
  BY DEF ServiceTypeOK, Shapes
<1>3. Holder' /\ ScanFacts' /\ PassFacts'
  BY <1>1 DEF Holder, ScanFacts, PassFacts, DueIn
<1>. QED
  BY <1>1, <1>2, <1>3

(* A process that has just started: no engine, nobody calling, and in the  *)
(* queues whatever claims there are.                                       *)
Anew ==
  /\ engine = [q \in Queue |-> "absent"] /\ leases = [q \in Queue |-> {}]
  /\ journals = [q \in Queue |-> 0] /\ mutex = {} /\ reaper = AtRest
  /\ call = [c \in Client |-> Idle]
  /\ claims \in [Queue -> SUBSET Lease] /\ issued \subseteq Lease
  /\ lapsed \subseteq issued /\ faults \in Nat
  /\ \A q \in Queue : claims[q] \subseteq issued
  /\ \A p, q \in Queue : \A l \in claims[p] \cap claims[q] : p = q

(* Such a process satisfies the invariant. *)
LEMMA InvAnew == Anew => ServiceInv
<1>. SUFFICES ASSUME Anew
              PROVE  ServiceInv
  OBVIOUS
<1>. USE DEF Anew
<1>1. Idle \in Calls /\ Idle.op = "idle"
  BY NewForms
<1>2. ServiceTypeOK
  BY <1>1 DEF ServiceTypeOK, AtRest
<1>3. Shapes
  BY <1>1 DEF Shapes, AtRest
<1>4. OneEnginePerQueue
  <2>1. Existing = {}
    BY DEF Existing
  <2>2. Cardinality(Existing) = 0
    BY <2>1, FS_EmptySet
  <2>. QED
    BY <2>1, <2>2, ServiceAssumption DEF OneEnginePerQueue, ServiceAssumption
<1>5. Holder /\ Homes
  BY DEF Holder, Homes
<1>6. ScanFacts
  BY <1>1 DEF ScanFacts
<1>7. PassFacts
  BY DEF PassFacts, AtRest
<1>. QED
  BY <1>2, <1>3, <1>4, <1>5, <1>6, <1>7 DEF ServiceInv

(* A restart leaves the queues their claims and nothing else. *)
LEMMA InvRestart ==
  ASSUME ServiceInv, Restart
  PROVE  ServiceInv'
<1>1. /\ claims' \in [Queue -> SUBSET Lease] /\ issued' \subseteq Lease
      /\ lapsed' \subseteq issued' /\ faults' \in Nat
      /\ \A q \in Queue : claims'[q] \subseteq issued'
      /\ \A p, q \in Queue : \A l \in claims'[p] \cap claims'[q] : p = q
  BY DEF Restart, ServiceInv, ServiceTypeOK, Shapes, Homes
<1>2. Anew'
  BY <1>1 DEF Restart, Anew
<1>. QED
  BY <1>2, InvAnew, PTL

(* The inductive step. *)
LEMMA ServiceInvStep ==
  ASSUME ServiceInv, [Next]_vars
  PROVE  ServiceInv'
<1>1. CASE UNCHANGED vars
  <2>1. UNCHANGED <<engine, leases, claims, journals, mutex, call, reaper, lapsed,
                    faults, issued>>
    BY <1>1 DEF vars, queueVars, callVars, budgetVars
  <2>2. OneEnginePerQueue' /\ Homes' /\ Full' = Full
    BY <2>1, EnginesStay DEF queueVars
  <2>. QED
    BY <2>1, <2>2 DEF ServiceInv, ServiceTypeOK, Shapes, Holder, ScanFacts, PassFacts, DueIn
<1>2. ASSUME NEW c \in Client, Call(c) \/ Lock(c) \/ Continue(c)
      PROVE  ServiceInv'
  BY <1>2, InvCall, InvLookup, InvSnapshot, InvMake, InvMakeFails, InvAckScan, InvReturn,
     InvFetch DEF Lock, Continue
<1>3. CASE Reaping
  BY <1>3, InvReapBounds, InvReap DEF Reaping
<1>4. CASE \E l \in Lease : Lapse(l)
  BY <1>4, InvLapse
<1>5. CASE Restart
  BY <1>5, InvRestart, Zenon
<1>. QED
  BY <1>1, <1>2, <1>3, <1>4, <1>5, Zenon DEF Next

(* A scan that ends leaves its lease in an engine only after an error. *)
LEMMA ScanEnds ==
  ASSUME ServiceInv, [Next]_vars, NEW c \in Client,
         call[c].op = "scan", call[c].known, call'[c] = Idle,
         call[c].lease \in Leased'
  PROVE  faults' # faults \/ \E q \in call[c].left : engine[q] = "broken"
<1>. DEFINE l == call[c].lease
<1>. USE DEF ServiceInv
<1>1. call'[c] # call[c]
  BY DEF Idle
<1>2. PICK p \in Queue : l \in leases'[p]
  BY DEF Leased, Existing
<1>3. call[c].left \subseteq Queue
  BY CallForms
<1>4. AckScan(c)
  <2>1. CASE UNCHANGED vars
    BY <1>1, <2>1, Zenon DEF vars, callVars
  <2>2. CASE Reaping \/ \E m \in Lease : Lapse(m)
    BY <1>1, <2>2 DEF Reaping, ReapBegin, Reap, ReapEnd, Lapse, callVars
  <2>3. CASE Restart
    BY <1>2, <2>3 DEF Restart
  <2>4. ASSUME NEW d \in Client, Call(d) \/ Lock(d) \/ Continue(d)
        PROVE  AckScan(c)
    <3>1. \/ AckScan(d)
          \/ call[d].op # "scan" /\ \E state : Becomes(d, state)
      BY <2>4, Zenon DEF Call, Lock, Lookup, Snapshot, Continue, Make, MakeFails, Return, Fetch
    <3>2. ASSUME call[d].op # "scan", NEW state, Becomes(d, state)
          PROVE  call'[c] = call[c]
      BY <3>2 DEF Becomes, ServiceTypeOK
    <3>3. d # c /\ AckScan(d) => call'[c] = call[c]
      BY DEF AckScan, AckDone, AckNotHere, AckBroken, Becomes, ServiceTypeOK
    <3>. QED
      BY <1>1, <3>1, <3>2, <3>3
  <2>. QED
    BY <2>1, <2>2, <2>3, <2>4 DEF Next
<1>5. CASE call[c].left = {} /\ UNCHANGED leases
  BY <1>2, <1>5 DEF ScanFacts
<1>6. CASE \E q \in call[c].left : AckBroken(c, q)
  BY <1>6 DEF AckBroken
<1>7. CASE \E q \in call[c].left : AckNotHere(c, q)
  <2>1. PICK q \in Queue : AckNotHere(c, q)
    BY <1>3, <1>7
  <2>2. call'[c] = [call[c] EXCEPT !.left = @ \ {q}]
    BY <2>1 DEF AckNotHere, Becomes, ServiceTypeOK
  <2>3. call'[c].op = "scan"
    BY <2>2, ScanGoesOn
  <2>. QED
    BY <2>3 DEF Idle
<1>8. ASSUME NEW q \in call[c].left, AckDone(c, q)
      PROVE  faults' # faults
  <2>1. q \in Queue
    BY <1>3
  <2>2. CASE Drop(q, {l})
    <3>1. /\ l \in leases[q] /\ l \notin leases'[q]
          /\ \A r \in Queue \ {q} : leases'[r] = leases[r]
      BY <1>8, <2>1, <2>2 DEF AckDone, Drop, ServiceTypeOK
    <3>2. p # q /\ l \in leases[p]
      BY <1>2, <3>1
    <3>. QED
      BY <2>1, <3>1, <3>2, Zenon DEF Homes
  <2>3. CASE Fault
    BY <2>3 DEF Fault, Shapes
  <2>. QED
    BY <1>8, <2>2, <2>3 DEF AckDone
<1>. QED
  BY <1>4, <1>5, <1>6, <1>7, <1>8 DEF AckScan

(* The inductive invariant of the service holds for ever. *)
THEOREM ServiceInvariant == Spec => []ServiceInv
<1>1. Init => ServiceInv
  <2>1. Init => Anew
    BY DEF Init, Anew
  <2>. QED
    BY <2>1, InvAnew
<1>2. ServiceInv /\ [Next]_vars => ServiceInv'
  BY ServiceInvStep
<1>. QED
  BY <1>1, <1>2, PTL DEF Spec

(* The types; and the mutex is held by whoever makes an engine, and by     *)
(* nobody else.                                                            *)
THEOREM ServiceTypeCorrect == Spec => []ServiceTypeOK
<1>1. ServiceInv => ServiceTypeOK
  BY DEF ServiceInv
<1>. QED
  BY <1>1, ServiceInvariant, PTL

(* However the first uses of the queues interleave, engineFor makes one    *)
(* engine for a queue, opens its journal once, and keeps to MaxQueues.     *)
THEOREM EngineIsMadeOnce == Spec => []OneEnginePerQueue
<1>1. ServiceInv => OneEnginePerQueue
  BY DEF ServiceInv
<1>. QED
  BY <1>1, ServiceInvariant, PTL

(* Ack never answers ErrLeaseNotFound for a lease that was in an engine    *)
(* when its scan began and still is, whatever other clients and the reaper *)
(* do to the engines during the scan.                                      *)
THEOREM AckIsNotMisled == Spec => AckFindsItsLease
<1>1. ServiceInv /\ [Next]_vars =>
        \A c \in Client :
          /\ call[c].op = "scan" /\ call[c].known
          /\ call'[c] = Idle
          /\ call[c].lease \in Leased'
          => faults' # faults \/ \E q \in call[c].left : engine[q] = "broken"
  BY ScanEnds
<1>. QED
  BY <1>1, ServiceInvariant, PTL DEF Spec, AckFindsItsLease

(* A pass of the reaper that ends leaves, of the leases that were over     *)
(* when it began, only those it reports or whose queue it did not see.     *)
THEOREM PassIsThorough == Spec => PassReapsAllButMissed
<1>1. ASSUME ServiceInv, [Next]_vars, reaper.on, ~reaper'.on, UNCHANGED crashes
      PROVE  \A q \in Queue : DueIn(q) \subseteq reaper.missed
  <2>1. ReapEnd
    <3>1. CASE Reap
      <4>1. reaper'.on = reaper.on
        BY <1>1, <3>1, Zenon DEF Reap, ReapEngine, ReapError, ServiceInv, Shapes
      <4>. QED
        BY <1>1, <4>1, Zenon
    <3>2. CASE Restart
      BY <1>1, <3>2 DEF Restart
    <3>. QED
      BY <1>1, <3>1, <3>2, Zenon DEF Next, vars, callVars, Call, Lock, Lookup, Snapshot, Continue, Make,
                            MakeFails, AckScan, Return, Fetch, Reaping, ReapBegin, Lapse
  <2>. QED
    BY <1>1, <2>1 DEF ReapEnd, ServiceInv, PassFacts
<1>2. ServiceInv /\ [Next]_vars =>
        (reaper.on /\ ~reaper'.on /\ UNCHANGED crashes =>
           \A q \in Queue : DueIn(q) \subseteq reaper.missed)
  BY <1>1
<1>. QED
  BY <1>2, ServiceInvariant, PTL DEF Spec, PassReapsAllButMissed

=============================================================================
