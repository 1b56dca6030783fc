----------------------------- MODULE WalProofs -----------------------------
(***************************************************************************)
(* The write-ahead log keeps what it acknowledged, and a restart reads     *)
(* from it what an abstract journal would hold.                            *)
(*                                                                         *)
(* The argument runs over the frames of one lease: what the file must say  *)
(* of a lease in each of its statuses (Keeps), within the reach of Replay  *)
(* and, for what was acknowledged, within the synced prefix.  A written    *)
(* frame, a torn one, a sync, a compaction, a replay at opening and the    *)
(* loss of what was not synced each keep that (Kept), which is the         *)
(* inductive invariant WalInv.  What Live computes by a loop over the      *)
(* frames is characterised by its last opening and closing frame of a      *)
(* lease (LoopMeans, by least counterexample), which is what the           *)
(* properties and the refinement of Journal are read off from.             *)
(***************************************************************************)
EXTENDS Wal, FiniteSetTheorems, WellFoundedInduction, TLAPS

(* Replay reaches place i of f. *)
Reached(f, i) == \A k \in 1 .. i : f[k] # Torn

(* Place i of f opens lease r, or closes it. *)
Opens(f, i, r) == f[i].op = "fetch" /\ f[i].lease = r

Closes(f, i, r) == f[i].op \in CloseOp /\ f[i].id = r.id

(* What a journal f of which n frames are on stable storage says of lease  *)
(* r, for each status of the lease: nothing of a new lease, no close of    *)
(* one that nobody tried to close, the fetch of an acknowledged one on     *)
(* stable storage and within reach, and the close of a closed one too.     *)
Keeps(st, f, n, r) ==
  /\ st = "new" => \A i \in 1 .. Len(f) : ~Opens(f, i, r)
  /\ st \in {"new", "fetching", "open"} => \A i \in 1 .. Len(f) : ~Closes(f, i, r)
  /\ st = "open" => \E i \in 1 .. n : Opens(f, i, r) /\ Reached(f, i)
  /\ st = "closed" =>
       \A i \in 1 .. Len(f) : Opens(f, i, r) =>
         \E j \in i + 1 .. n : Closes(f, j, r) /\ Reached(f, j)
  /\ \A i, j \in 1 .. Len(f) : Opens(f, i, r) /\ Closes(f, j, r) => i < j

(* The statuses that an attempt to append a record leaves. *)
Tried(x, st) == IF x.op = "fetch" THEN st = "new" ELSE st \in {"fetching", "open", "closing"}

After(x, fetch, close) == IF x.op = "fetch" THEN fetch ELSE close

Kept(f, n) == \A r \in Fetched : Keeps(status[r.id], f, n, r)

(* A record that waits for its fsync is the last of the file. *)
PendingIsLast ==
  \E frame \in Frame :
    /\ pending = {frame}
    /\ file # <<>> /\ file[Len(file)] = frame
    /\ status[LeaseOf(frame)] = After(frame, "fetching", "closing")

(* The invariant of the journal file.  Next to the types it says that each *)
(* journal that can be at the path keeps what its records promise, that a  *)
(* file which is open has no torn frame unless a Write failed, and where   *)
(* an Append and a compaction stand.                                       *)
WalInv ==
  /\ WalTypeOK
  /\ stage \in {"rename", "reopen"} => handle = "shut"
  /\ Kept(file, synced)
  /\ \A old \in replaced : Kept(old.file, old.synced)
  /\ handle # "none" /\ ~poisoned => Reached(file, Len(file))
  /\ stage = "sync" => PendingIsLast
  /\ stage \in {"close", "rename"} =>
       Range(temp) = { FetchFrame(r) : r \in LiveOf(file) }

-----------------------------------------------------------------------------
(* Reading a journal *)

(* A set of naturals that is not empty has a least element. *)
LEMMA LeastNat ==
  ASSUME NEW T, T \subseteq Nat, T # {}
  PROVE  \E x \in T : \A y \in T : x <= y
<1> DEFINE R == OpToRel(<, Nat)
<1>0. IsWellFoundedOn(R, Nat)
  BY NatLessThanWellFounded, Zenon
<1> HIDE DEF R
<1>1. PICK x \in T : \A y \in T : ~(<<y, x>> \in R)
  BY <1>0, WFMin, Zenon
<1>2. ASSUME NEW y \in T, y < x PROVE <<y, x>> \in R
  <2>1. <<y, x>> \in Nat \X Nat
    BY Zenon
  <2> DEFINE p == <<y, x>>
  <2>2. p[1] < p[2]
    BY <1>2, Zenon
  <2>3. p \in { q \in Nat \X Nat : q[1] < q[2] }
    BY <2>1, <2>2, Zenon
  <2> QED
    BY <2>3, Zenon DEF OpToRel, R
<1>3. \A y \in T : ~(y < x)
  BY <1>1, <1>2, Zenon
<1> QED
  BY <1>3

(* replay: the frames it returns are the ones in front of the first torn   *)
(* frame.                                                                  *)
LEMMA ReplayFacts ==
  ASSUME NEW S, NEW f \in Seq(S)
  PROVE  /\ Replay(f) \in Seq(S)
         /\ Len(Replay(f)) <= Len(f)
         /\ \A i \in 1 .. Len(Replay(f)) : Replay(f)[i] = f[i] /\ f[i] # Torn
         /\ Len(Replay(f)) < Len(f) => f[Len(Replay(f)) + 1] = Torn
         /\ Len(Replay(f)) < Len(f) <=> Torn \in Range(f)
<1>0. DOMAIN f = 1 .. Len(f)
  OBVIOUS
<1> DEFINE I == { i \in DOMAIN f : f[i] = Torn }
<1>1. CASE Torn \in Range(f)
  <2>1. I # {} /\ I \subseteq Nat
    BY <1>1 DEF Range
  <2>2. PICK x \in I : \A y \in I : x <= y
    BY <2>1, LeastNat, Zenon
  <2>3. Min(I) \in I /\ \A y \in I : Min(I) <= y
    BY <2>2, Zenon DEF Min
  <2>4. Replay(f) = SubSeq(f, 1, Min(I) - 1)
    BY <1>1, <2>1, Zenon DEF Replay
  <2> DEFINE m == Min(I)
  <2>5. m \in 1 .. Len(f) /\ f[m] = Torn
    BY <1>0, <2>3, Zenon
  <2>6. Replay(f) = SubSeq(f, 1, m - 1) /\ \A i \in 1 .. Len(f) : f[i] = Torn => m <= i
    BY <1>0, <2>3, <2>4, Zenon
  <2> HIDE DEF I, m
  <2>7. \A i \in 1 .. m - 1 : f[i] # Torn
    BY <2>5, <2>6
  <2>8. Len(Replay(f)) = m - 1 /\ Replay(f) \in Seq(S)
    BY <2>5, <2>6
  <2>9. \A i \in 1 .. m - 1 : Replay(f)[i] = f[i]
    BY <2>5, <2>6
  <2> QED
    BY <1>1, <2>5, <2>7, <2>8, <2>9
<1>2. CASE Torn \notin Range(f)
  BY <1>2 DEF Replay, Range
<1> QED
  BY <1>1, <1>2, Zenon

(* The loop of Live has a result after every turn. *)
LEMMA LoopRuns ==
  ASSUME NEW s, NEW N \in Nat
  PROVE  \E g : g = [n \in 0 .. N |-> IF n = 0 THEN {} ELSE Fold(g[n - 1], s[n])]
<1> DEFINE Run(g, m) ==
      g = [n \in 0 .. m |-> IF n = 0 THEN {} ELSE Fold(g[n - 1], s[n])]
<1> DEFINE Stuck == { m \in Nat : ~\E g : Run(g, m) }
<1> SUFFICES Stuck = {}
  BY Zenon
<1> SUFFICES ASSUME Stuck # {} PROVE FALSE
  BY Zenon
<1>0. Stuck \subseteq Nat
  BY Zenon
<1>1. PICK m \in Stuck : \A y \in Stuck : m <= y
  BY <1>0, LeastNat, Zenon
<1>2. m # 0
  <2> SUFFICES Run([n \in 0 .. 0 |-> {}], 0)
    BY Zenon
  <2> QED
    OBVIOUS
<1>3. m - 1 \in Nat /\ m - 1 \notin Stuck
  <2> HIDE DEF Stuck
  <2> QED
    BY <1>0, <1>1, <1>2
<1>4. PICK g : Run(g, m - 1)
  BY <1>3, Zenon
<1> DEFINE h == [n \in 0 .. m |-> IF n = m THEN Fold(g[m - 1], s[m]) ELSE g[n]]
<1>5. \A n \in 0 .. m - 1 : g[n] = IF n = 0 THEN {} ELSE Fold(g[n - 1], s[n])
  BY <1>4, Zenon
<1>6. \A n \in 0 .. m : n # 0 => h[n - 1] = g[n - 1]
  BY <1>3
<1>7. ASSUME NEW n \in 0 .. m
      PROVE  h[n] = IF n = 0 THEN {} ELSE Fold(h[n - 1], s[n])
  <2>1. CASE n = m
    BY <1>2, <1>6, <2>1, Zenon
  <2>2. CASE n # m
    <3>1. n \in 0 .. m - 1 /\ h[n] = g[n]
      BY <1>3, <2>2
    <3> QED
      BY <1>5, <1>6, <3>1, Zenon
  <2> QED
    BY <2>1, <2>2, Zenon
<1>8. Run(h, m)
  BY <1>7, Zenon
<1> QED
  BY <1>8, Zenon

(* Live: the set it returns is the last of its turns. *)
LEMMA LiveRun ==
  ASSUME NEW S, NEW f \in Seq(S)
  PROVE  \E g : /\ g = [n \in 0 .. Len(Replay(f)) |->
                          IF n = 0 THEN {} ELSE Fold(g[n - 1], Replay(f)[n])]
                /\ LiveOf(f) = g[Len(Replay(f))]
<1>1. Len(Replay(f)) \in Nat
  BY ReplayFacts
<1> QED
  BY <1>1, LoopRuns, Zenon DEF LiveOf

(* What a record of the journal may be. *)
LEMMA FrameFacts ==
  ASSUME NEW x \in Frame
  PROVE  /\ x # Torn
         /\ LeaseOf(x) \in Lease
         /\ x.op = "fetch" => x.lease \in Fetched /\ x = FetchFrame(x.lease)
         /\ x.op # "fetch" => x.op \in CloseOp /\ x.id \in Lease /\ x.id = LeaseOf(x)
<1>1. CASE x \in [op : ClosedBy, id : Lease]
  <2>1. x.op \in CloseOp /\ x.id \in Lease
    BY <1>1, WalAssumption, Zenon
  <2>2. x.op # "torn" /\ x.op # "fetch"
    BY <2>1, Zenon DEF CloseOp
  <2> QED
    BY <2>1, <2>2 DEF LeaseOf, Torn
<1>2. ASSUME NEW r \in Fetched, x = FetchFrame(r) PROVE x.op = "fetch" /\ x.lease = r
  BY <1>2, Zenon DEF FetchFrame
<1>3. ASSUME NEW r \in Fetched, x = FetchFrame(r) PROVE x # Torn /\ r.id \in Lease
  BY <1>2, <1>3, WalAssumption DEF Torn, LeaseRecord
<1> QED
  BY <1>1, <1>2, <1>3, Zenon DEF Frame, LeaseOf

(* One turn of the loop of Live, for a lease. *)
LEMMA FoldStep ==
  ASSUME NEW live, NEW x \in Frame, NEW r \in Fetched
  PROVE  r \in Fold(live, x) <=>
           \/ x.op = "fetch" /\ x.lease = r
           \/ r \in live /\ ~(x.op \in CloseOp /\ x.id = r.id)
<1>1. r \in Fold(live, x) <=>
        \/ r \in live /\ r.id # LeaseOf(x)
        \/ x.op = "fetch" /\ x.lease = r
  BY Zenon DEF Fold
<1>2. CASE x.op = "fetch"
  <2>1. x.lease \in Fetched /\ LeaseOf(x) = x.lease.id /\ x.op \notin CloseOp
    BY <1>2, FrameFacts, Zenon DEF LeaseOf, CloseOp
  <2> QED
    BY <1>1, <1>2, <2>1, WalAssumption, Zenon
<1>3. CASE x.op # "fetch"
  BY <1>1, <1>3, FrameFacts, Zenon
<1> QED
  BY <1>2, <1>3, Zenon

(* Live by the places of the journal: a lease is open after n turns when   *)
(* a fetch record opens it and no record behind that one closes it.        *)
LEMMA LoopMeans ==
  ASSUME NEW s \in Seq(Frame), NEW g, NEW r \in Fetched,
         g = [n \in 0 .. Len(s) |-> IF n = 0 THEN {} ELSE Fold(g[n - 1], s[n])]
  PROVE  r \in g[Len(s)] <=>
           \E i \in 1 .. Len(s) : /\ Opens(s, i, r)
                                  /\ \A j \in i + 1 .. Len(s) : ~Closes(s, j, r)
<1> DEFINE OpenAt(n) ==
      \E i \in 1 .. n : Opens(s, i, r) /\ \A j \in i + 1 .. n : ~Closes(s, j, r)
           Wrong == { n \in 0 .. Len(s) : ~(r \in g[n] <=> OpenAt(n)) }
<1>a. Len(s) \in 0 .. Len(s)
  OBVIOUS
<1> SUFFICES ASSUME Wrong # {} PROVE FALSE
  BY <1>a, Zenon
<1>0. Wrong \subseteq Nat
  OBVIOUS
<1>1. PICK n \in Wrong : \A y \in Wrong : n <= y
  BY <1>0, LeastNat, Zenon
<1>2. n \in 0 .. Len(s) /\ ~(r \in g[n] <=> OpenAt(n))
  BY Zenon
<1>3. n # 0
  BY <1>2
<1>4. n - 1 \in 0 .. Len(s) /\ n - 1 \notin Wrong
  <2> HIDE DEF Wrong
  <2> QED
    BY <1>1, <1>2, <1>3
<1>5. r \in g[n - 1] <=> OpenAt(n - 1)
  BY <1>4, Zenon
<1>6. g[n] = Fold(g[n - 1], s[n])
  BY <1>2, <1>3, Zenon
<1>7. r \in g[n] <=> Opens(s, n, r) \/ (r \in g[n - 1] /\ ~Closes(s, n, r))
  BY <1>2, <1>3, <1>6, FoldStep DEF Opens, Closes
<1>8. OpenAt(n) <=> Opens(s, n, r) \/ (OpenAt(n - 1) /\ ~Closes(s, n, r))
  <2>1. CASE Opens(s, n, r)
    BY <1>2, <1>3, <2>1
  <2>2. ASSUME ~Opens(s, n, r), OpenAt(n) PROVE OpenAt(n - 1) /\ ~Closes(s, n, r)
    BY <1>2, <1>3, <2>2
  <2>3. ASSUME OpenAt(n - 1), ~Closes(s, n, r) PROVE OpenAt(n)
    <3>1. PICK i \in 1 .. n - 1 : Opens(s, i, r) /\ \A j \in i + 1 .. n - 1 : ~Closes(s, j, r)
      BY <2>3, Zenon
    <3>2. i \in 1 .. n /\ \A j \in i + 1 .. n : j = n \/ j \in i + 1 .. n - 1
      BY <1>2, <1>3
    <3> QED
      BY <2>3, <3>1, <3>2, Zenon
  <2> QED
    BY <2>1, <2>2, <2>3, Zenon
<1> QED
  BY <1>2, <1>5, <1>7, <1>8, Zenon

(* The lease r is open at the end of f: a record within reach opens it and *)
(* none behind that one, within reach, closes it.                          *)
LastWordOpens(f, r) ==
  \E i \in 1 .. Len(f) :
    /\ Reached(f, i) /\ Opens(f, i, r)
    /\ \A j \in i + 1 .. Len(f) : Reached(f, j) => ~Closes(f, j, r)

(* Live of a replay is what the last record of each lease says. *)
LEMMA LiveMeans ==
  ASSUME NEW f \in Seq(Frame \cup {Torn}), NEW r \in Fetched
  PROVE  r \in LiveOf(f) <=> LastWordOpens(f, r)
<1> DEFINE s == Replay(f)
<1>1. /\ s \in Seq(Frame)
      /\ Len(s) <= Len(f)
      /\ \A i \in 1 .. Len(s) : s[i] = f[i] /\ f[i] # Torn
      /\ Len(s) < Len(f) => f[Len(s) + 1] = Torn
  BY ReplayFacts
<1>2. PICK g : /\ g = [n \in 0 .. Len(s) |-> IF n = 0 THEN {} ELSE Fold(g[n - 1], s[n])]
               /\ LiveOf(f) = g[Len(s)]
  BY LiveRun, Zenon
<1> HIDE DEF s
<1>3. r \in LiveOf(f) <=>
        \E i \in 1 .. Len(s) : /\ Opens(s, i, r)
                               /\ \A j \in i + 1 .. Len(s) : ~Closes(s, j, r)
  BY <1>1, <1>2, LoopMeans, Zenon
<1>4. \A i \in 1 .. Len(f) : Reached(f, i) <=> i <= Len(s)
  BY <1>1 DEF Reached
<1>5. \A i \in 1 .. Len(s) : /\ Opens(s, i, r) <=> Opens(f, i, r)
                             /\ Closes(s, i, r) <=> Closes(f, i, r)
  BY <1>1, Zenon DEF Opens, Closes
<1>6. LastWordOpens(f, r) <=>
        \E i \in 1 .. Len(s) : /\ Opens(f, i, r)
                               /\ \A j \in i + 1 .. Len(s) : ~Closes(f, j, r)
  <2>1. Len(s) \in Nat /\ Len(f) \in Nat
    BY <1>1
  <2> QED
    BY <1>1, <1>4, <2>1 DEF LastWordOpens
<1> QED
  BY <1>3, <1>5, <1>6

(* Live returns leases that were fetched, and finitely many. *)
LEMMA LiveType ==
  ASSUME NEW f \in Seq(Frame \cup {Torn})
  PROVE  LiveOf(f) \subseteq Fetched /\ IsFiniteSet(LiveOf(f))
<1> DEFINE s == Replay(f)
<1>1. s \in Seq(Frame)
  BY ReplayFacts
<1>2. PICK g : /\ g = [n \in 0 .. Len(s) |-> IF n = 0 THEN {} ELSE Fold(g[n - 1], s[n])]
               /\ LiveOf(f) = g[Len(s)]
  BY LiveRun, Zenon
<1> HIDE DEF s
<1> DEFINE Fine(n) == g[n] \subseteq Fetched /\ IsFiniteSet(g[n])
           Wrong == { n \in 0 .. Len(s) : ~Fine(n) }
<1>3. Len(s) \in 0 .. Len(s)
  BY <1>1
<1> SUFFICES ASSUME Wrong # {} PROVE FALSE
  BY <1>2, <1>3, Zenon
<1>4. Wrong \subseteq Nat
  OBVIOUS
<1>5. PICK n \in Wrong : \A y \in Wrong : n <= y
  BY <1>4, LeastNat, Zenon
<1>6. n \in 0 .. Len(s) /\ ~Fine(n)
  BY Zenon
<1>7. n # 0
  <2>1. g[0] = {}
    BY <1>1, <1>2
  <2> QED
    BY <1>6, <2>1, FS_EmptySet, Zenon
<1>8. n - 1 \in 0 .. Len(s) /\ n - 1 \notin Wrong
  <2> HIDE DEF Wrong
  <2> QED
    BY <1>1, <1>5, <1>6, <1>7
<1>9. Fine(n - 1)
  BY <1>8, Zenon
<1>10. g[n] = Fold(g[n - 1], s[n]) /\ s[n] \in Frame
  <2> HIDE DEF Fine, Wrong
  <2>1. n \in 1 .. Len(s)
    BY <1>1, <1>6, <1>7
  <2>2. s[n] \in Frame
    BY <1>1, <2>1
  <2>3. n \in 0 .. Len(s) /\ n # 0
    BY <1>6, <1>7, Zenon
  <2> QED
    BY <1>2, <2>2, <2>3, Zenon
<1> DEFINE live == g[n - 1]
           x == s[n]
<1> HIDE DEF live, x
<1>11. live \subseteq Fetched /\ IsFiniteSet(live) /\ x \in Frame
  BY <1>9, <1>10, Zenon DEF live, x
<1>12. Fold(live, x) \subseteq live \cup {x.lease}
  BY Zenon DEF Fold
<1>13. Fold(live, x) \subseteq Fetched
  BY <1>11, FrameFacts, Zenon DEF Fold
<1>14. IsFiniteSet(Fold(live, x))
  BY <1>11, <1>12, FS_AddElement, FS_Subset, Zenon
<1> QED
  BY <1>6, <1>10, <1>13, <1>14, Zenon DEF live, x

-----------------------------------------------------------------------------
(* What a journal keeps of a lease *)

(* A journal that says no more of the lease than another, and has at the   *)
(* same place whatever the other had on stable storage and within reach,   *)
(* keeps what that one kept.                                               *)
LEMMA KeptLike ==
  ASSUME NEW st, NEW r, NEW f, NEW n \in Nat, NEW e, NEW m \in Nat,
         Len(f) \in Nat, Len(e) \in Nat, n <= Len(f), m <= Len(e),
         Keeps(st, f, n, r),
         \A i \in 1 .. Len(e) : Opens(e, i, r) \/ Closes(e, i, r) =>
                                  i \in 1 .. Len(f) /\ e[i] = f[i],
         \A i \in 1 .. n : Reached(f, i) =>
                             i \in 1 .. m /\ e[i] = f[i] /\ Reached(e, i)
  PROVE  Keeps(st, e, m, r)
<1>1. \A i \in 1 .. Len(e) : /\ Opens(e, i, r) => i \in 1 .. Len(f) /\ Opens(f, i, r)
                             /\ Closes(e, i, r) => i \in 1 .. Len(f) /\ Closes(f, i, r)
  BY Zenon DEF Opens, Closes
<1>2. \A i \in 1 .. n : Reached(f, i) =>
        /\ i \in 1 .. m /\ Reached(e, i)
        /\ Opens(f, i, r) => Opens(e, i, r)
        /\ Closes(f, i, r) => Closes(e, i, r)
  BY Zenon DEF Opens, Closes
<1>3. st = "open" => \E i \in 1 .. m : Opens(e, i, r) /\ Reached(e, i)
  BY <1>2, Zenon DEF Keeps
<1>4. ASSUME st = "closed", NEW i \in 1 .. Len(e), Opens(e, i, r)
      PROVE  \E j \in i + 1 .. m : Closes(e, j, r) /\ Reached(e, j)
  <2>1. PICK j \in i + 1 .. n : Closes(f, j, r) /\ Reached(f, j)
    BY <1>1, <1>4, Zenon DEF Keeps
  <2>2. j \in 1 .. n
    OBVIOUS
  <2> QED
    BY <1>2, <2>1, <2>2
<1>5. \A i, j \in 1 .. Len(e) : Opens(e, i, r) /\ Closes(e, j, r) => i < j
  BY <1>1, Zenon DEF Keeps
<1> QED
  BY <1>1, <1>3, <1>4, <1>5, Zenon DEF Keeps

(* Half a frame at the end says nothing of any lease. *)
LEMMA TornSays ==
  ASSUME NEW f, NEW i, NEW r, f[i] = Torn
  PROVE  ~Opens(f, i, r) /\ ~Closes(f, i, r)
BY DEF Torn, Opens, Closes, CloseOp

(* A Write that stops half way adds nothing to what is kept. *)
LEMMA KeptBehindTorn ==
  ASSUME NEW S, NEW f \in Seq(S), NEW n \in 0 .. Len(f), NEW st, NEW r,
         Keeps(st, f, n, r)
  PROVE  Keeps(st, Append(f, Torn), n, r)
<1> DEFINE e == Append(f, Torn)
<1>1. /\ Len(e) = Len(f) + 1 /\ Len(f) \in Nat /\ e[Len(f) + 1] = Torn
      /\ \A i \in 1 .. Len(f) : e[i] = f[i]
  OBVIOUS
<1> HIDE DEF e
<1>2. \A i \in 1 .. Len(e) : Opens(e, i, r) \/ Closes(e, i, r) =>
                                  i \in 1 .. Len(f) /\ e[i] = f[i]
  BY <1>1, TornSays
<1>3. \A i \in 1 .. n : Reached(f, i) =>
                             i \in 1 .. n /\ e[i] = f[i] /\ Reached(e, i)
  BY <1>1 DEF Reached
<1>4. Keeps(st, e, n, r)
  BY <1>1, <1>2, <1>3, KeptLike
<1> QED
  BY <1>4, Zenon DEF e

(* A prefix that holds what was on stable storage and within reach. *)
LEMMA KeptByPrefix ==
  ASSUME NEW S, NEW f \in Seq(S), NEW n \in 0 .. Len(f), NEW st, NEW r,
         NEW k \in 0 .. Len(f), NEW m \in 0 .. k,
         Keeps(st, f, n, r),
         \A i \in 1 .. n : Reached(f, i) => i <= m
  PROVE  Keeps(st, SubSeq(f, 1, k), m, r)
<1> DEFINE e == SubSeq(f, 1, k)
<1>1. Len(e) = k /\ Len(f) \in Nat /\ \A i \in 1 .. k : e[i] = f[i]
  OBVIOUS
<1> HIDE DEF e
<1>2. \A i \in 1 .. Len(e) : Opens(e, i, r) \/ Closes(e, i, r) =>
                                  i \in 1 .. Len(f) /\ e[i] = f[i]
  BY <1>1
<1>3. \A i \in 1 .. n : Reached(f, i) =>
                             i \in 1 .. m /\ e[i] = f[i] /\ Reached(e, i)
  BY <1>1 DEF Reached
<1>4. Keeps(st, e, m, r)
  BY <1>1, <1>2, <1>3, KeptLike
<1> QED
  BY <1>4, Zenon DEF e

(* A record of another lease is appended. *)
LEMMA KeptBehindOthers ==
  ASSUME NEW f \in Seq(Frame \cup {Torn}), NEW n \in 0 .. Len(f), NEW st,
         NEW r \in Fetched, NEW x \in Frame, LeaseOf(x) # r.id,
         Keeps(st, f, n, r)
  PROVE  Keeps(st, Append(f, x), n, r)
<1> DEFINE e == Append(f, x)
<1>1. /\ Len(e) = Len(f) + 1 /\ Len(f) \in Nat /\ e[Len(f) + 1] = x
      /\ \A i \in 1 .. Len(f) : e[i] = f[i]
  OBVIOUS
<1> HIDE DEF e
<1>2. ~Opens(e, Len(f) + 1, r) /\ ~Closes(e, Len(f) + 1, r)
  BY <1>1, FrameFacts, Zenon DEF Opens, Closes, LeaseOf, CloseOp
<1>3. \A i \in 1 .. Len(e) : Opens(e, i, r) \/ Closes(e, i, r) =>
                                  i \in 1 .. Len(f) /\ e[i] = f[i]
  BY <1>1, <1>2
<1>4. \A i \in 1 .. n : Reached(f, i) =>
                             i \in 1 .. n /\ e[i] = f[i] /\ Reached(e, i)
  BY <1>1 DEF Reached
<1>5. Keeps(st, e, n, r)
  BY <1>1, <1>3, <1>4, KeptLike
<1> QED
  BY <1>5, Zenon DEF e

(* The record of the lease is appended. *)
LEMMA KeptByWrite ==
  ASSUME NEW f \in Seq(Frame \cup {Torn}), NEW n \in 0 .. Len(f), NEW st,
         NEW r \in Fetched, NEW x \in Frame, LeaseOf(x) = r.id, Tried(x, st),
         Keeps(st, f, n, r)
  PROVE  Keeps(After(x, "fetching", "closing"), Append(f, x), n, r)
<1> DEFINE e == Append(f, x)
<1>1. /\ Len(e) = Len(f) + 1 /\ Len(f) \in Nat /\ e[Len(f) + 1] = x
      /\ \A i \in 1 .. Len(f) : e[i] = f[i]
  OBVIOUS
<1> HIDE DEF e
<1>2. \A i \in 1 .. Len(f) : /\ Opens(e, i, r) <=> Opens(f, i, r)
                             /\ Closes(e, i, r) <=> Closes(f, i, r)
  BY <1>1, Zenon DEF Opens, Closes
<1>3. \A i \in 1 .. Len(e) : i \in 1 .. Len(f) \/ i = Len(f) + 1
  BY <1>1
<1>4. CASE x.op = "fetch"
  <2>1. st = "new" /\ After(x, "fetching", "closing") = "fetching"
    BY <1>4, Zenon DEF Tried, After
  <2>2. ~Closes(e, Len(f) + 1, r)
    BY <1>1, <1>4, Zenon DEF Closes, CloseOp
  <2>3. \A i \in 1 .. Len(e) : ~Closes(e, i, r)
    BY <1>2, <1>3, <2>1, <2>2, Zenon DEF Keeps
  <2> QED
    BY <2>1, <2>3, Zenon DEF Keeps, e
<1>5. CASE x.op # "fetch"
  <2>1. After(x, "fetching", "closing") = "closing"
    BY <1>5, Zenon DEF After
  <2>2. ~Opens(e, Len(f) + 1, r)
    BY <1>1, <1>5, Zenon DEF Opens
  <2>3. \A i, j \in 1 .. Len(e) : Opens(e, i, r) /\ Closes(e, j, r) => i < j
    BY <1>1, <1>2, <1>3, <2>2 DEF Keeps
  <2> QED
    BY <2>1, <2>3, Zenon DEF Keeps, e
<1> QED
  BY <1>4, <1>5, Zenon

(* The append was tried and left nothing of the record. *)
LEMMA KeptByTrying ==
  ASSUME NEW st, NEW f, NEW n, NEW r, NEW x, Tried(x, st), Keeps(st, f, n, r)
  PROVE  Keeps(After(x, "fetching", "closing"), f, n, r)
<1>1. CASE x.op = "fetch"
  BY <1>1, Zenon DEF Tried, After, Keeps
<1>2. CASE x.op # "fetch"
  BY <1>2, Zenon DEF Tried, After, Keeps
<1> QED
  BY <1>1, <1>2, Zenon

(* The fsync behind the record of the lease succeeds. *)
LEMMA KeptBySync ==
  ASSUME NEW f \in Seq(Frame \cup {Torn}), NEW n \in 0 .. Len(f), NEW st,
         NEW r \in Fetched, NEW x \in Frame, LeaseOf(x) = r.id,
         f # <<>>, f[Len(f)] = x, Reached(f, Len(f)),
         st = After(x, "fetching", "closing"), Keeps(st, f, n, r)
  PROVE  Keeps(After(x, "open", "closed"), f, Len(f), r)
<1>1. Len(f) \in Nat /\ Len(f) # 0
  OBVIOUS
<1>2. CASE x.op = "fetch"
  <2>1. Opens(f, Len(f), r)
    BY <1>2, FrameFacts, WalAssumption, Zenon DEF Opens, LeaseOf
  <2>2. st = "fetching" /\ After(x, "open", "closed") = "open"
    BY <1>2, Zenon DEF After
  <2>3. \E i \in 1 .. Len(f) : Opens(f, i, r) /\ Reached(f, i)
    BY <1>1, <2>1
  <2> QED
    BY <2>2, <2>3, Zenon DEF Keeps
<1>3. CASE x.op # "fetch"
  <2>1. Closes(f, Len(f), r)
    BY <1>3, FrameFacts, Zenon DEF Closes
  <2>2. st = "closing" /\ After(x, "open", "closed") = "closed"
    BY <1>3, Zenon DEF After
  <2>3. \A i \in 1 .. Len(f) : Opens(f, i, r) => i < Len(f)
    BY <1>1, <2>1 DEF Keeps
  <2>4. \A i \in 1 .. Len(f) : Opens(f, i, r) => Len(f) \in i + 1 .. Len(f)
    BY <1>1, <2>3
  <2>5. \A i \in 1 .. Len(f) : Opens(f, i, r) =>
          \E j \in i + 1 .. Len(f) : Closes(f, j, r) /\ Reached(f, j)
    BY <2>1, <2>4, Zenon
  <2> QED
    BY <2>2, <2>5, Zenon DEF Keeps
<1> QED
  BY <1>2, <1>3, Zenon

(* What is kept decides what Live of the whole journal says. *)
LEMMA KeptIsLive ==
  ASSUME NEW f \in Seq(Frame \cup {Torn}), NEW n \in 0 .. Len(f), NEW st,
         NEW r \in Fetched, Keeps(st, f, n, r)
  PROVE  /\ st = "open" => r \in LiveOf(f)
         /\ st \in {"new", "closed"} => r \notin LiveOf(f)
<1>1. r \in LiveOf(f) <=> LastWordOpens(f, r)
  BY LiveMeans, Zenon
<1>2. ASSUME st = "open" PROVE LastWordOpens(f, r)
  <2>1. PICK i \in 1 .. n : Opens(f, i, r) /\ Reached(f, i)
    BY <1>2, Zenon DEF Keeps
  <2>2. i \in 1 .. Len(f) /\ \A j \in i + 1 .. Len(f) : j \in 1 .. Len(f)
    OBVIOUS
  <2> QED
    BY <1>2, <2>1, <2>2, Zenon DEF Keeps, LastWordOpens
<1>3. ASSUME st = "new" PROVE ~LastWordOpens(f, r)
  BY <1>3, Zenon DEF Keeps, LastWordOpens
<1>4. ASSUME st = "closed", LastWordOpens(f, r) PROVE FALSE
  <2>1. PICK i \in 1 .. Len(f) :
           /\ Reached(f, i) /\ Opens(f, i, r)
           /\ \A j \in i + 1 .. Len(f) : Reached(f, j) => ~Closes(f, j, r)
    BY <1>4, Zenon DEF LastWordOpens
  <2>2. PICK j \in i + 1 .. n : Closes(f, j, r) /\ Reached(f, j)
    BY <1>4, <2>1, Zenon DEF Keeps
  <2>3. j \in i + 1 .. Len(f)
    OBVIOUS
  <2> QED
    BY <2>1, <2>2, <2>3, Zenon
<1> QED
  BY <1>1, <1>2, <1>3, <1>4, Zenon

(* More of the journal is put on stable storage. *)
LEMMA KeptBySyncing ==
  ASSUME NEW S, NEW f \in Seq(S), NEW n \in 0 .. Len(f), NEW m \in n .. Len(f),
         NEW st, NEW r, Keeps(st, f, n, r)
  PROVE  Keeps(st, f, m, r)
<1>1. Len(f) \in Nat /\ n \in Nat /\ m \in Nat /\ n <= Len(f) /\ m <= Len(f)
  OBVIOUS
<1>2. \A i \in 1 .. n : i \in 1 .. m
  OBVIOUS
<1> QED
  BY <1>1, <1>2, KeptLike, Zenon

(* Open: the journal is cut at the first torn frame. *)
LEMMA KeptByReplay ==
  ASSUME NEW S, NEW f \in Seq(S), NEW n \in 0 .. Len(f), NEW st, NEW r,
         Keeps(st, f, n, r)
  PROVE  /\ Min({n, Len(Replay(f))}) \in 0 .. Len(Replay(f))
         /\ Keeps(st, Replay(f), Min({n, Len(Replay(f))}), r)
<1> DEFINE e == Replay(f)
           m == Min({n, Len(e)})
<1>1. /\ e \in Seq(S) /\ Len(e) <= Len(f)
      /\ \A i \in 1 .. Len(e) : e[i] = f[i] /\ f[i] # Torn
      /\ Len(e) < Len(f) => f[Len(e) + 1] = Torn
  BY ReplayFacts, Zenon
<1> HIDE DEF e
<1>2. m \in {n, Len(e)} /\ m <= n /\ m <= Len(e)
  BY <1>1 DEF Min
<1> HIDE DEF m
<1>3. Len(e) \in Nat /\ Len(f) \in Nat /\ m \in Nat /\ n \in Nat /\ n <= Len(f)
  BY <1>1, <1>2
<1>4. \A i \in 1 .. n : Reached(f, i) => i \in 1 .. m /\ e[i] = f[i] /\ Reached(e, i)
  BY <1>1, <1>2, <1>3 DEF Reached
<1>5. \A i \in 1 .. Len(e) : i \in 1 .. Len(f) /\ e[i] = f[i]
  BY <1>1, <1>3
<1>6. Keeps(st, e, m, r)
  BY <1>2, <1>3, <1>4, <1>5, KeptLike, Zenon
<1> QED
  BY <1>2, <1>3, <1>6 DEF e, m

(* A loss of power: what it leaves of a journal keeps what that one kept. *)
LEMMA KeptByPowerLoss ==
  ASSUME NEW f \in Seq(Frame \cup {Torn}), NEW n \in 0 .. Len(f), NEW e \in Left(f, n)
  PROVE  /\ e \in Seq(Frame \cup {Torn})
         /\ \A st, r : Keeps(st, f, n, r) => Keeps(st, e, Len(e), r)
<1>1. PICK k \in n .. Len(f), rest \in {<<>>, <<Torn>>} : e = SubSeq(f, 1, k) \o rest
  BY DEF Left
<1> DEFINE p == SubSeq(f, 1, k)
<1>2. p \in Seq(Frame \cup {Torn}) /\ Len(p) = k /\ k \in 0 .. Len(f)
  OBVIOUS
<1>3. \A st, r : Keeps(st, f, n, r) => Keeps(st, p, k, r)
  <2>1. k \in 0 .. k /\ \A i \in 1 .. n : i <= k
    BY <1>2
  <2> QED
    BY <1>2, <2>1, KeptByPrefix, Zenon
<1> HIDE DEF p
<1>4. CASE rest = <<>>
  <2>1. e = p
    BY <1>1, <1>2, <1>4 DEF p
  <2> QED
    BY <1>2, <1>3, <2>1, Zenon
<1>5. CASE rest = <<Torn>>
  <2>1. e = Append(p, Torn)
    BY <1>1, <1>2, <1>5 DEF p
  <2>2. e \in Seq(Frame \cup {Torn}) /\ Len(e) = k + 1
    BY <1>2, <2>1
  <2>3. ASSUME NEW st, NEW r, Keeps(st, f, n, r) PROVE Keeps(st, e, Len(e), r)
    <3>1. Keeps(st, e, k, r)
      BY <1>2, <1>3, <2>1, <2>3, KeptBehindTorn
    <3>2. k \in 0 .. Len(e) /\ Len(e) \in k .. Len(e)
      BY <1>2, <2>2
    <3> QED
      BY <2>2, <3>1, <3>2, KeptBySyncing, Zenon
  <2> QED
    BY <2>2, <2>3, Zenon
<1> QED
  BY <1>1, <1>4, <1>5, Zenon

(* Compact: the journal of open leases keeps what the old one kept. *)
LEMMA KeptByCompact ==
  ASSUME NEW f \in Seq(Frame \cup {Torn}), NEW n \in 0 .. Len(f),
         NEW e \in Seq(Frame), Range(e) = { FetchFrame(r) : r \in LiveOf(f) },
         NEW st, NEW r \in Fetched, Keeps(st, f, n, r)
  PROVE  Keeps(st, e, Len(e), r)
<1>1. ASSUME NEW i \in 1 .. Len(e)
      PROVE  \E s \in LiveOf(f) : e[i] = FetchFrame(s)
  <2>1. e[i] \in Range(e)
    BY DEF Range
  <2> QED
    BY <2>1, Zenon
<1>2. ASSUME NEW i \in 1 .. Len(e)
      PROVE  ~Closes(e, i, r) /\ (Opens(e, i, r) => r \in LiveOf(f))
  <2>1. PICK s \in LiveOf(f) : e[i] = FetchFrame(s)
    BY <1>1, Zenon
  <2>2. e[i].op = "fetch" /\ e[i].lease = s
    BY <2>1 DEF FetchFrame
  <2> QED
    BY <2>2, Zenon DEF Opens, Closes, CloseOp
<1>3. \A i \in 1 .. Len(e) : Reached(e, i)
  BY FrameFacts DEF Reached
<1>4. ASSUME r \in LiveOf(f) PROVE \E i \in 1 .. Len(e) : Opens(e, i, r)
  <2>1. FetchFrame(r) \in Range(e)
    BY <1>4, Zenon
  <2>2. PICK i \in 1 .. Len(e) : e[i] = FetchFrame(r)
    BY <2>1 DEF Range
  <2> QED
    BY <2>2 DEF Opens, FetchFrame
<1>5. /\ st = "open" => r \in LiveOf(f)
      /\ st \in {"new", "closed"} => r \notin LiveOf(f)
  BY KeptIsLive, Zenon
<1> QED
  BY <1>2, <1>3, <1>4, <1>5, Zenon DEF Keeps

-----------------------------------------------------------------------------
(* The steps of the log *)

(* The steps that leave the journals and the statuses alone. *)
LEMMA JournalsStay ==
  ASSUME WalInv, UNCHANGED <<file, synced, replaced, status>>
  PROVE  /\ Kept(file, synced)'
         /\ (\A old \in replaced : Kept(old.file, old.synced))'
         /\ file' \in Seq(Frame \cup {Torn}) /\ synced' \in 0 .. Len(file')
         /\ (\A old \in replaced : /\ old.file \in Seq(Frame \cup {Torn})
                                   /\ old.synced \in 0 .. Len(old.file))'
         /\ status' \in [Lease -> Status]
BY Zenon DEF WalInv, WalTypeOK, Kept

(* Open cuts the file behind the last whole frame. *)
LEMMA InvOpen ==
  ASSUME WalInv, Open
  PROVE  WalInv'
<1> DEFINE J == Seq(Frame \cup {Torn})
<1>1. file \in J /\ synced \in 0 .. Len(file) /\ stage \in Stage /\ handle \in {"none", "nil"}
  BY Zenon DEF WalInv, WalTypeOK, Open
<1>2. stage = "idle"
  BY <1>1, Zenon DEF WalInv, WalTypeOK, Stage
<1>3. file' = Replay(file) /\ synced' = Min({synced, Len(Replay(file))})
  BY Zenon DEF Open
<1>4. Kept(file, synced)'
  BY <1>1, <1>3, KeptByReplay, Zenon DEF WalInv, Open, Kept
<1>5. synced' \in 0 .. Len(file')
  <2>1. Len(Replay(file)) \in Nat
    BY <1>1, ReplayFacts
  <2> QED
    BY <1>1, <1>3, <2>1 DEF Min
<1>6. /\ file' \in J
      /\ \A i \in 1 .. Len(file') : file'[i] # Torn
  BY <1>1, <1>3, ReplayFacts, Zenon
<1>7. Reached(file, Len(file))'
  BY <1>6, Zenon DEF Reached
<1>8. WalTypeOK'
  BY <1>2, <1>5, <1>6, Zenon DEF WalInv, WalTypeOK, Open
<1>9. (\A old \in replaced : Kept(old.file, old.synced))'
  BY Zenon DEF WalInv, Open, Kept
<1> QED
  BY <1>2, <1>4, <1>7, <1>8, <1>9, Zenon DEF WalInv, Open

(* Close, and the end of a compaction. *)
LEMMA InvHandle ==
  ASSUME WalInv, Close \/ CompactReopen \/ CompactStrands
  PROVE  WalInv'
<1>1. UNCHANGED fileVars /\ UNCHANGED <<status, poisoned, pending>> /\ stage' = "idle"
  BY Zenon DEF Close, CompactReopen, CompactStrands
<1>2. handle # "none" /\ handle' \in {"open", "shut", "nil"}
  BY Zenon DEF Close, CompactReopen, CompactStrands, WalInv, WalTypeOK
<1>3. WalTypeOK'
  BY <1>1, <1>2, JournalsStay, Zenon DEF WalInv, WalTypeOK, fileVars, Stage
<1>4. handle' # "none" /\ ~poisoned' => Reached(file, Len(file))'
  BY <1>1, <1>2, Zenon DEF WalInv, fileVars, Reached
<1> QED
  BY <1>1, <1>3, <1>4, JournalsStay, Zenon DEF WalInv, fileVars

(* CompactClose: the old handle goes. *)
LEMMA InvCompactClose ==
  ASSUME WalInv, CompactClose
  PROVE  WalInv'
<1>1. /\ UNCHANGED <<file, synced, replaced, status, poisoned, pending>>
      /\ handle = "open" /\ handle' = "shut"
  BY Zenon DEF CompactClose, WalInv, WalTypeOK
<1>2. \/ stage' = "rename" /\ temp' = temp
      \/ stage' = "idle" /\ temp' = <<>>
  BY Zenon DEF CompactClose
<1>3. temp' \in Seq(Frame)
  <2>1. temp \in Seq(Frame) /\ <<>> \in Seq(Frame)
    BY DEF WalInv, WalTypeOK
  <2> QED
    BY <1>2, <2>1, Zenon
<1>4. WalTypeOK'
  BY <1>1, <1>2, <1>3, JournalsStay, Zenon DEF WalInv, WalTypeOK, Stage
<1>5. stage' = "rename" => (Range(temp) = { FetchFrame(r) : r \in LiveOf(file) })'
  BY <1>1, <1>2, Zenon DEF WalInv, CompactClose
<1>6. ~poisoned' => Reached(file, Len(file))'
  BY <1>1, Zenon DEF WalInv, Reached
<1> QED
  BY <1>1, <1>2, <1>4, <1>5, <1>6, JournalsStay, Zenon DEF WalInv

(* CompactCopy: the temporary file holds each open lease. *)
LEMMA InvCompactCopy ==
  ASSUME WalInv, CompactCopy
  PROVE  WalInv'
<1> DEFINE L == { FetchFrame(r) : r \in LiveOf(file) }
<1>1. /\ UNCHANGED <<file, synced, replaced, status, poisoned, pending, handle>>
      /\ handle = "open" /\ stage' = "close" /\ temp' \in Bijection(1 .. Cardinality(L), L)
  BY Zenon DEF CompactCopy
<1>2. file \in Seq(Frame \cup {Torn})
  BY Zenon DEF WalInv, WalTypeOK
<1>3. LiveOf(file) \subseteq Fetched /\ IsFiniteSet(LiveOf(file))
  BY <1>2, LiveType, Zenon
<1>4. L \subseteq Frame /\ IsFiniteSet(L)
  <2>1. L \subseteq Frame
    BY <1>3, Zenon DEF Frame
  <2>2. [r \in LiveOf(file) |-> FetchFrame(r)] \in Surjection(LiveOf(file), L)
    BY Zenon DEF Surjection
  <2>3. IsFiniteSet(L)
    BY <1>3, <2>2, FS_Surjection, Zenon
  <2> QED
    BY <2>1, <2>3, Zenon
<1> HIDE DEF L
<1>5. Range(temp') = L /\ temp' \in Seq(Frame)
  <2>1. /\ temp' \in [1 .. Cardinality(L) -> L] /\ Cardinality(L) \in Nat
        /\ \A x \in L : \E i \in 1 .. Cardinality(L) : temp'[i] = x
    BY <1>1, <1>4, FS_CardinalityType, Zenon DEF Bijection, Surjection
  <2>2. temp' \in Seq(Frame)
    BY <1>4, <2>1
  <2>3. Range(temp') = L
    BY <2>1, Zenon DEF Range
  <2> QED
    BY <2>2, <2>3, Zenon
<1>6. WalTypeOK'
  BY <1>1, <1>5, JournalsStay, Zenon DEF WalInv, WalTypeOK, Stage
<1>7. (Range(temp) = { FetchFrame(r) : r \in LiveOf(file) })'
  BY <1>1, <1>5, Zenon DEF L
<1>8. ~poisoned' => Reached(file, Len(file))'
  BY <1>1, Zenon DEF WalInv, Reached
<1> QED
  BY <1>1, <1>6, <1>7, <1>8, JournalsStay, Zenon DEF WalInv

(* CompactRename: the journal of the open leases takes the path, and the   *)
(* old one comes back if power is lost before the next fsync.              *)
LEMMA InvCompactRename ==
  ASSUME WalInv, CompactRename
  PROVE  WalInv'
<1> DEFINE J == Seq(Frame \cup {Torn})
<1>1. /\ UNCHANGED <<status, pending, handle>>
      /\ file' = temp /\ synced' = Len(temp) /\ temp' = <<>> /\ stage' = "reopen"
      /\ poisoned' = FALSE /\ stage = "rename"
      /\ replaced' = replaced \cup {[file |-> file, synced |-> synced]}
  BY Zenon DEF CompactRename
<1>2. /\ file \in J /\ synced \in 0 .. Len(file) /\ temp \in Seq(Frame)
      /\ Range(temp) = { FetchFrame(r) : r \in LiveOf(file) }
      /\ handle = "shut"
  BY <1>1, Zenon DEF WalInv, WalTypeOK
<1>3. temp \in J /\ Len(temp) \in 0 .. Len(temp) /\ <<>> \in Seq(Frame)
  BY <1>2
<1>4. WalTypeOK'
  <2>1. \A old \in replaced' : old.file \in J /\ old.synced \in 0 .. Len(old.file)
    BY <1>1, <1>2 DEF WalInv, WalTypeOK
  <2>2. pending' \subseteq Frame /\ status' \in [Lease -> Status]
    BY <1>1, Zenon DEF WalInv, WalTypeOK
  <2>3. file' \in J /\ temp' \in Seq(Frame) /\ synced' \in 0 .. Len(file')
    BY <1>1, <1>3, Zenon
  <2> QED
    BY <1>1, <1>2, <2>1, <2>2, <2>3, Zenon DEF WalTypeOK, Stage
<1>5. Kept(file, synced)'
  BY <1>1, <1>2, KeptByCompact, Zenon DEF WalInv, Kept
<1>6. ASSUME NEW old \in replaced', NEW r \in Fetched
      PROVE  Keeps(status'[r.id], old.file, old.synced, r)
  BY <1>1 DEF WalInv, Kept
<1>7. (\A old \in replaced : Kept(old.file, old.synced))'
  BY <1>6, Zenon DEF Kept
<1>8. Reached(file, Len(file))'
  BY <1>1, <1>2, FrameFacts DEF Reached
<1> QED
  BY <1>1, <1>2, <1>4, <1>5, <1>7, <1>8, Zenon DEF WalInv

(* Note: the status of one lease changes. *)
LEMMA NoteFacts ==
  ASSUME WalTypeOK, NEW frame \in Frame, NEW a \in Status, NEW b \in Status,
         Note(frame, a, b)
  PROVE  /\ status' \in [Lease -> Status]
         /\ \A r \in Fetched : r.id = LeaseOf(frame) => status'[r.id] = After(frame, a, b)
         /\ \A r \in Fetched : r.id # LeaseOf(frame) => status'[r.id] = status[r.id]
<1>1. LeaseOf(frame) \in Lease /\ status \in [Lease -> Status]
  BY FrameFacts, Zenon DEF WalTypeOK
<1>2. status' = [status EXCEPT ![LeaseOf(frame)] = After(frame, a, b)]
  BY Zenon DEF Note, After
<1>3. After(frame, a, b) \in Status
  BY Zenon DEF After
<1>4. \A r \in Fetched : r.id \in Lease
  BY WalAssumption, Zenon DEF LeaseRecord
<1> QED
  BY <1>1, <1>2, <1>3, <1>4, Zenon

(* Due: the callers fetch a lease once and close it afterwards. *)
LEMMA DueFacts ==
  ASSUME NEW frame \in Frame, Due(frame)
  PROVE  Tried(frame, status[LeaseOf(frame)])
BY FrameFacts, Zenon DEF Due, Tried, LeaseOf

(* A record that was tried: every journal, with the record at the end or   *)
(* without, keeps what is promised of each lease.                          *)
LEMMA KeptByAppend ==
  ASSUME WalTypeOK, NEW frame \in Frame, Due(frame), Note(frame, "fetching", "closing"),
         NEW f \in Seq(Frame \cup {Torn}), NEW n \in 0 .. Len(f), Kept(f, n)
  PROVE  /\ \A r \in Fetched : Keeps(status'[r.id], f, n, r)
         /\ \A r \in Fetched : Keeps(status'[r.id], Append(f, Torn), n, r)
         /\ \A r \in Fetched : Keeps(status'[r.id], Append(f, frame), n, r)
<1>1. "fetching" \in Status /\ "closing" \in Status
  BY Zenon DEF Status
<1>2. /\ \A r \in Fetched : r.id = LeaseOf(frame) =>
           status'[r.id] = After(frame, "fetching", "closing")
      /\ \A r \in Fetched : r.id # LeaseOf(frame) => status'[r.id] = status[r.id]
  BY <1>1, NoteFacts, Zenon
<1>3. ASSUME NEW r \in Fetched, r.id = LeaseOf(frame)
      PROVE  /\ Keeps(status'[r.id], f, n, r)
             /\ Keeps(status'[r.id], Append(f, frame), n, r)
  <2>1. Tried(frame, status[r.id]) /\ Keeps(status[r.id], f, n, r)
    BY <1>3, DueFacts, Zenon DEF Kept
  <2>2. Keeps(After(frame, "fetching", "closing"), f, n, r)
    BY <2>1, KeptByTrying, Zenon
  <2>3. Keeps(After(frame, "fetching", "closing"), Append(f, frame), n, r)
    BY <1>3, <2>1, KeptByWrite, Zenon
  <2> QED
    BY <1>2, <1>3, <2>2, <2>3, Zenon
<1>4. ASSUME NEW r \in Fetched, r.id # LeaseOf(frame)
      PROVE  /\ Keeps(status'[r.id], f, n, r)
             /\ Keeps(status'[r.id], Append(f, frame), n, r)
  <2>1. Keeps(status[r.id], f, n, r)
    BY Zenon DEF Kept
  <2>2. Keeps(status[r.id], Append(f, frame), n, r)
    BY <1>4, <2>1, KeptBehindOthers, Zenon
  <2> QED
    BY <1>2, <1>4, <2>1, <2>2, Zenon
<1>5. \A r \in Fetched : Keeps(status'[r.id], f, n, r)
  BY <1>3, <1>4, Zenon
<1>6. \A r \in Fetched : Keeps(status'[r.id], Append(f, Torn), n, r)
  BY <1>5, KeptBehindTorn, Zenon
<1> QED
  BY <1>3, <1>4, <1>5, <1>6, Zenon

(* Append's Write, its failure, and a death of the process in it. *)
LEMMA InvWrite ==
  ASSUME WalInv, NEW frame \in Frame,
         AppendWrite(frame) \/ AppendWriteFails(frame) \/ CrashInWrite(frame)
  PROVE  WalInv'
<1> DEFINE J == Seq(Frame \cup {Torn})
<1>1. /\ Due(frame) /\ Note(frame, "fetching", "closing")
      /\ UNCHANGED <<temp, synced, replaced>>
      /\ stage = "idle" /\ handle = "open"
  BY Zenon DEF AppendWrite, AppendWriteFails, CrashInWrite, Die
<1>2. \/ /\ file' = Append(file, frame) /\ stage' = "sync" /\ pending' = {frame}
         /\ handle' = handle /\ poisoned' = poisoned
      \/ /\ file' = file /\ stage' = "idle" /\ pending' = pending
         /\ handle' = handle /\ poisoned' = poisoned
      \/ /\ file' = Append(file, Torn) /\ stage' = "idle" /\ pending' = pending
         /\ handle' = handle /\ poisoned' = TRUE
      \/ /\ file' = Append(file, Torn) /\ stage' = "idle" /\ pending' = {}
         /\ handle' = "none" /\ poisoned' = FALSE
  BY Zenon DEF AppendWrite, AppendWriteFails, CrashInWrite, Die
<1>3. /\ WalTypeOK /\ file \in J /\ synced \in 0 .. Len(file) /\ Kept(file, synced)
      /\ \A old \in replaced : /\ old.file \in J /\ old.synced \in 0 .. Len(old.file)
                               /\ Kept(old.file, old.synced)
  BY Zenon DEF WalInv, WalTypeOK
<1>4. Kept(file, synced)'
  BY <1>1, <1>2, <1>3, KeptByAppend, Zenon DEF Kept
<1>5. (\A old \in replaced : Kept(old.file, old.synced))'
  BY <1>1, <1>3, KeptByAppend, Zenon DEF Kept
<1>6. file' \in J /\ synced' \in 0 .. Len(file')
  BY <1>1, <1>2, <1>3
<1>7. status' \in [Lease -> Status]
  BY <1>1, <1>3, NoteFacts, Zenon DEF Status
<1>8. WalTypeOK'
  BY <1>1, <1>2, <1>6, <1>7, Zenon DEF WalInv, WalTypeOK, Stage
<1>9. handle' # "none" /\ ~poisoned' => Reached(file, Len(file))'
  <2>1. CASE poisoned \/ handle' = "none" \/ poisoned'
    BY <1>2, <2>1
  <2>2. CASE ~poisoned /\ handle' # "none" /\ ~poisoned'
    <3>1. Reached(file, Len(file)) /\ file' \in {file, Append(file, frame)}
      BY <1>1, <1>2, <2>2, Zenon DEF WalInv
    <3>2. frame # Torn
      BY FrameFacts, Zenon
    <3> QED
      BY <1>3, <3>1, <3>2 DEF Reached
  <2> QED
    BY <2>1, <2>2, Zenon
<1>10. stage' = "sync" => PendingIsLast'
  <2>1. ASSUME stage' = "sync"
        PROVE  /\ file' = Append(file, frame) /\ pending' = {frame}
               /\ file' # <<>> /\ file'[Len(file')] = frame
    BY <1>2, <1>3, <2>1
  <2>2. PICK r \in Fetched : r.id = LeaseOf(frame)
    BY FrameFacts, WalAssumption, Zenon
  <2>3. status'[LeaseOf(frame)] = After(frame, "fetching", "closing")
    BY <1>1, <1>3, <2>2, NoteFacts DEF Status
  <2> QED
    BY <2>1, <2>3, Zenon DEF PendingIsLast
<1> QED
  BY <1>1, <1>2, <1>4, <1>5, <1>8, <1>9, <1>10, Zenon DEF WalInv

(* Append's fsync: all of the file is on stable storage, no other journal  *)
(* can come back, and the record is acknowledged.                          *)
LEMMA InvAppendSync ==
  ASSUME WalInv, AppendSync
  PROVE  WalInv'
<1> DEFINE J == Seq(Frame \cup {Torn})
<1>1. /\ UNCHANGED <<file, temp, handle, poisoned>>
      /\ synced' = Len(file) /\ replaced' = {} /\ stage' = "idle" /\ pending' = {}
      /\ stage = "sync" /\ Acknowledge
  BY Zenon DEF AppendSync
<1>2. /\ WalTypeOK /\ file \in J /\ synced \in 0 .. Len(file) /\ handle = "open"
      /\ Kept(file, synced) /\ PendingIsLast
      /\ ~poisoned => Reached(file, Len(file))
  BY <1>1, Zenon DEF WalInv, WalTypeOK
<1>3. \A r \in Fetched : Keeps(status[r.id], file, Len(file), r)
  <2>1. Len(file) \in synced .. Len(file)
    BY <1>2
  <2> QED
    BY <1>2, <2>1, KeptBySyncing, Zenon DEF Kept
<1>4. CASE poisoned
  <2>1. status' = status
    BY <1>1, <1>4, Zenon DEF Acknowledge
  <2>2. Kept(file, synced)'
    BY <1>1, <1>3, <2>1, Zenon DEF Kept
  <2>3. synced' \in 0 .. Len(file')
    BY <1>1, <1>2
  <2>4. WalTypeOK'
    BY <1>1, <1>2, <2>1, <2>3, Zenon DEF WalTypeOK, Stage
  <2> QED
    BY <1>1, <1>2, <1>4, <2>2, <2>4, Zenon DEF WalInv
<1>5. CASE ~poisoned
  <2>1. PICK frame \in Frame :
           /\ pending = {frame}
           /\ file # <<>> /\ file[Len(file)] = frame
           /\ status[LeaseOf(frame)] = After(frame, "fetching", "closing")
    BY <1>2, Zenon DEF PendingIsLast
  <2>2. Note(frame, "open", "closed")
    BY <1>1, <1>5, <2>1, Zenon DEF Acknowledge
  <2>3. "open" \in Status /\ "closed" \in Status
    BY Zenon DEF Status
  <2>4. /\ status' \in [Lease -> Status]
        /\ \A r \in Fetched : r.id = LeaseOf(frame) =>
             status'[r.id] = After(frame, "open", "closed")
        /\ \A r \in Fetched : r.id # LeaseOf(frame) => status'[r.id] = status[r.id]
    BY <1>2, <2>2, <2>3, NoteFacts, Zenon
  <2>5. ASSUME NEW r \in Fetched PROVE Keeps(status'[r.id], file, Len(file), r)
    <3>1. CASE r.id = LeaseOf(frame)
      <4>1. Keeps(status[r.id], file, synced, r) /\ Reached(file, Len(file))
        BY <1>2, <1>5, Zenon DEF Kept
      <4>2. status[r.id] = After(frame, "fetching", "closing")
        BY <2>1, <3>1, Zenon
      <4> QED
        BY <1>2, <2>1, <2>4, <3>1, <4>1, <4>2, KeptBySync
    <3>2. CASE r.id # LeaseOf(frame)
      BY <1>3, <2>4, <3>2, Zenon
    <3> QED
      BY <3>1, <3>2, Zenon
  <2>6. Kept(file, synced)'
    BY <1>1, <2>5, Zenon DEF Kept
  <2>7. WalTypeOK'
    BY <1>1, <1>2, <2>4 DEF WalTypeOK, Stage
  <2>8. Reached(file, Len(file))'
    BY <1>1, <1>2, <1>5, Zenon DEF Reached
  <2> QED
    BY <1>1, <1>2, <2>6, <2>7, <2>8, Zenon DEF WalInv
<1> QED
  BY <1>4, <1>5, Zenon

(* The fsync fails, or the process dies: the journals are as they were. *)
LEMMA InvSyncFailsOrCrash ==
  ASSUME WalInv, AppendSyncFails \/ Crash
  PROVE  WalInv'
<1>1. /\ UNCHANGED <<file, synced, replaced, status, temp>>
      /\ stage' = "idle" /\ pending' = {}
  BY Zenon DEF AppendSyncFails, Crash, Die, fileVars
<1>2. \/ handle' = "none" /\ poisoned' = FALSE
      \/ handle' = handle /\ poisoned' = poisoned
  BY Zenon DEF AppendSyncFails, Crash, Die, fileVars
<1>3. WalTypeOK'
  BY <1>1, <1>2, JournalsStay, Zenon DEF WalInv, WalTypeOK, Stage
<1>4. handle' # "none" /\ ~poisoned' => Reached(file, Len(file))'
  BY <1>1, <1>2, Zenon DEF WalInv, Reached
<1> QED
  BY <1>1, <1>3, <1>4, JournalsStay, Zenon DEF WalInv

(* What a loss of power can leave keeps what is promised of each lease. *)
LEMMA SurvivorsKeep ==
  ASSUME WalInv, NEW f \in Survivors
  PROVE  f \in Seq(Frame \cup {Torn}) /\ Kept(f, Len(f))
<1>1. CASE f \in Left(file, synced)
  BY <1>1, KeptByPowerLoss, Zenon DEF WalInv, WalTypeOK, Kept
<1>2. CASE f \notin Left(file, synced)
  <2>1. PICK old \in replaced : f \in Left(old.file, old.synced)
    BY <1>2, Zenon DEF Survivors
  <2>2. /\ old.file \in Seq(Frame \cup {Torn}) /\ old.synced \in 0 .. Len(old.file)
        /\ Kept(old.file, old.synced)
    BY Zenon DEF WalInv, WalTypeOK
  <2> QED
    BY <2>1, <2>2, KeptByPowerLoss, Zenon DEF Kept
<1> QED
  BY <1>1, <1>2, Zenon

(* A loss of power: the journal it leaves is the one at the path. *)
LEMMA InvPowerLoss ==
  ASSUME WalInv, PowerLoss
  PROVE  WalInv'
<1>1. /\ UNCHANGED <<status, temp>> /\ handle' = "none" /\ stage' = "idle"
      /\ pending' = {} /\ poisoned' = FALSE /\ replaced' = {}
      /\ synced' = Len(file') /\ file' \in Survivors
  BY Zenon DEF PowerLoss, Die
<1>2. file' \in Seq(Frame \cup {Torn}) /\ Kept(file', Len(file'))
  BY <1>1, SurvivorsKeep, Zenon
<1>3. Len(file') \in 0 .. Len(file')
  BY <1>2
<1>4. WalTypeOK'
  BY <1>1, <1>2, <1>3, Zenon DEF WalInv, WalTypeOK, Stage
<1>5. Kept(file, synced)'
  BY <1>1, <1>2, Zenon DEF Kept
<1> QED
  BY <1>1, <1>4, <1>5, Zenon DEF WalInv

(* The invariant of the journal file holds in every reachable state. *)
THEOREM WalInvariant == WalSpec => []WalInv
<1>1. WalInit => WalInv
  <2> SUFFICES ASSUME WalInit PROVE WalInv
    BY Zenon
  <2>1. file = <<>> /\ temp = <<>> /\ synced = 0 /\ replaced = {} /\ stage = "idle"
    BY Zenon DEF WalInit
  <2>2. Len(file) = 0 /\ file \in Seq(Frame \cup {Torn}) /\ temp \in Seq(Frame)
    BY <2>1
  <2>3. \A r \in Fetched : r.id \in Lease
    BY WalAssumption, Zenon DEF LeaseRecord
  <2>4. \A r \in Fetched : status[r.id] = "new"
    BY <2>3, Zenon DEF WalInit
  <2>5. Kept(file, synced)
    <3>1. 1 .. Len(file) = {}
      BY <2>2
    <3> QED
      BY <2>4, <3>1, Zenon DEF Kept, Keeps
  <2>6. WalTypeOK
    <3>1. status \in [Lease -> Status]
      BY Zenon DEF WalInit, Status
    <3>2. synced \in 0 .. Len(file) /\ pending \subseteq Frame
      BY <2>1, <2>2 DEF WalInit
    <3> QED
      BY <2>1, <2>2, <3>1, <3>2, Zenon DEF WalInit, WalTypeOK, Stage
  <2> QED
    BY <2>1, <2>5, <2>6, Zenon DEF WalInit, WalInv
<1>2. WalInv /\ [WalNext]_vars => WalInv'
  <2> SUFFICES ASSUME WalInv, [WalNext]_vars PROVE WalInv'
    BY Zenon
  <2>1. CASE UNCHANGED vars
    BY <2>1, Zenon DEF vars, fileVars, callVars, WalInv, WalTypeOK, Kept, PendingIsLast
  <2>2. CASE Open
    BY <2>2, InvOpen, Zenon
  <2>3. CASE Close \/ CompactReopen \/ CompactStrands
    BY <2>3, InvHandle, Zenon
  <2>4. ASSUME NEW frame \in Frame,
               AppendWrite(frame) \/ AppendWriteFails(frame) \/ CrashInWrite(frame)
        PROVE  WalInv'
    BY <2>4, InvWrite, Zenon
  <2>5. CASE AppendSync
    BY <2>5, InvAppendSync, Zenon
  <2>6. CASE AppendSyncFails \/ Crash
    BY <2>6, InvSyncFailsOrCrash, Zenon
  <2>7. CASE CompactCopy
    BY <2>7, InvCompactCopy, Zenon
  <2>8. CASE CompactClose
    BY <2>8, InvCompactClose, Zenon
  <2>9. CASE CompactRename
    BY <2>9, InvCompactRename, Zenon
  <2>10. CASE PowerLoss
    BY <2>10, InvPowerLoss, Zenon
  <2> QED
    BY <2>1, <2>2, <2>3, <2>4, <2>5, <2>6, <2>7, <2>8, <2>9, <2>10, Zenon DEF WalNext, Compact
<1> QED
  BY <1>1, <1>2, PTL DEF WalSpec

(* The file, its temporary copy and every handle keep their types, and the *)
(* part on stable storage never ends behind the file.                      *)
THEOREM WalTypeCorrect == WalSpec => []WalTypeOK
<1>1. WalInv => WalTypeOK
  BY Zenon DEF WalInv
<1> QED
  BY <1>1, WalInvariant, PTL

(* What Append acknowledged survives a loss of power at any step. *)
THEOREM AcknowledgedIsKept == WalSpec => []AcknowledgedSurvives
<1>1. WalInv => AcknowledgedSurvives
  <2> SUFFICES ASSUME WalInv, NEW f \in Survivors, NEW r \in Fetched
               PROVE  /\ status[r.id] = "open" => r \in LiveOf(f)
                      /\ status[r.id] \in {"new", "closed"} => r \notin LiveOf(f)
    BY Zenon DEF AcknowledgedSurvives
  <2>1. f \in Seq(Frame \cup {Torn}) /\ Keeps(status[r.id], f, Len(f), r)
    BY SurvivorsKeep, Zenon DEF Kept
  <2>2. Len(f) \in 0 .. Len(f)
    BY <2>1
  <2> QED
    BY <2>1, <2>2, KeptIsLive, Zenon
<1> QED
  BY <1>1, WalInvariant, PTL

-----------------------------------------------------------------------------
(* The file implements the journal of the engine *)

(* What a replay of f returns, as the engine's journal has it. *)
OpenedIn(f) == { x.lease : x \in { y \in Range(Replay(f)) : y.op = "fetch" } }

ClosedIn(f) == { y \in Range(Replay(f)) : y.op \in CloseOp }

(* A replay stops for good at the first torn frame. *)
LEMMA ReplayIsPrefix ==
  ASSUME NEW f \in Seq(Frame \cup {Torn}), NEW e \in Seq(Frame \cup {Torn}),
         Len(e) >= Len(Replay(f)),
         \A i \in 1 .. Len(Replay(f)) : e[i] = f[i],
         Len(e) > Len(Replay(f)) => e[Len(Replay(f)) + 1] = Torn
  PROVE  Replay(e) = Replay(f)
<1> DEFINE p == Replay(f)
           q == Replay(e)
<1>1. /\ p \in Seq(Frame \cup {Torn}) /\ Len(p) <= Len(f)
      /\ \A i \in 1 .. Len(p) : p[i] = f[i] /\ f[i] # Torn
  BY ReplayFacts, Zenon
<1>2. /\ q \in Seq(Frame \cup {Torn}) /\ Len(q) <= Len(e)
      /\ \A i \in 1 .. Len(q) : q[i] = e[i] /\ e[i] # Torn
      /\ Len(q) < Len(e) => e[Len(q) + 1] = Torn
  BY ReplayFacts, Zenon
<1>3. Len(e) >= Len(p) /\ \A i \in 1 .. Len(p) : e[i] = f[i]
  BY Zenon
<1>4. Len(e) > Len(p) => e[Len(p) + 1] = Torn
  BY Zenon
<1> HIDE DEF p, q
<1>5. Len(p) \in Nat /\ Len(q) \in Nat /\ Len(e) \in Nat
  BY <1>1, <1>2
<1>6. ASSUME Len(q) < Len(p) PROVE FALSE
  <2>1. e[Len(q) + 1] = Torn
    BY <1>2, <1>3, <1>5, <1>6
  <2>2. Len(q) + 1 \in 1 .. Len(p)
    BY <1>5, <1>6
  <2> QED
    BY <1>1, <1>3, <2>1, <2>2, Zenon
<1>7. ~(Len(q) > Len(p))
  BY <1>2, <1>4, <1>5
<1>8. Len(q) = Len(p) /\ \A i \in 1 .. Len(p) : q[i] = p[i]
  BY <1>1, <1>2, <1>3, <1>5, <1>6, <1>7
<1>9. p = q
  BY <1>1, <1>2, <1>8
<1> QED
  BY <1>9, Zenon DEF p, q

(* Append, to a file that a replay reads to the end and to one it does not.*)
LEMMA ReplayAppend ==
  ASSUME NEW f \in Seq(Frame \cup {Torn}), NEW x \in Frame \cup {Torn}
  PROVE  /\ Torn \in Range(f) => Torn \in Range(Append(f, x))
         /\ Torn \in Range(f) \/ x = Torn => Replay(Append(f, x)) = Replay(f)
         /\ Torn \notin Range(f) /\ x # Torn =>
              Replay(f) = f /\ Replay(Append(f, x)) = Append(f, x)
         /\ x = Torn => Torn \in Range(Append(f, x))
         /\ Torn \notin Range(f) /\ x # Torn => Torn \notin Range(Append(f, x))
<1> DEFINE e == Append(f, x)
<1>1. /\ Len(e) = Len(f) + 1 /\ Len(f) \in Nat /\ e[Len(f) + 1] = x
      /\ \A i \in 1 .. Len(f) : e[i] = f[i]
      /\ e \in Seq(Frame \cup {Torn})
  OBVIOUS
<1> HIDE DEF e
<1>2. Torn \in Range(f) => Torn \in Range(e)
  BY <1>1 DEF Range
<1>3. x = Torn => Torn \in Range(e)
  BY <1>1 DEF Range
<1>4. Torn \notin Range(f) /\ x # Torn => Torn \notin Range(e)
  BY <1>1 DEF Range
<1>5. Torn \notin Range(f) /\ x # Torn => Replay(f) = f /\ Replay(e) = e
  BY <1>4, Zenon DEF Replay
<1>6. ASSUME Torn \in Range(f) \/ x = Torn PROVE Replay(e) = Replay(f)
  <2>1. /\ Len(Replay(f)) \in Nat /\ Len(Replay(f)) <= Len(f)
        /\ Len(Replay(f)) < Len(f) => f[Len(Replay(f)) + 1] = Torn
        /\ Len(Replay(f)) < Len(f) <=> Torn \in Range(f)
    BY ReplayFacts
  <2>2. e[Len(Replay(f)) + 1] = Torn
    BY <1>1, <1>6, <2>1
  <2>3. Len(e) >= Len(Replay(f)) /\ \A i \in 1 .. Len(Replay(f)) : e[i] = f[i]
    BY <1>1, <2>1
  <2> QED
    BY <1>1, <2>2, <2>3, ReplayIsPrefix, Zenon
<1> QED
  BY <1>2, <1>3, <1>4, <1>5, <1>6, Zenon DEF e

(* Append of a whole frame to a journal that a replay reads to the end. *)
LEMMA SaysAppended ==
  ASSUME NEW f \in Seq(Frame \cup {Torn}), NEW x \in Frame, Torn \notin Range(f)
  PROVE  /\ x.op = "fetch" => /\ OpenedIn(Append(f, x)) = OpenedIn(f) \cup {x.lease}
                              /\ ClosedIn(Append(f, x)) = ClosedIn(f)
         /\ x.op # "fetch" => /\ OpenedIn(Append(f, x)) = OpenedIn(f)
                              /\ ClosedIn(Append(f, x)) = ClosedIn(f) \cup {x}
<1>1. Range(Append(f, x)) = Range(f) \cup {x}
  <2>1. Len(f) \in Nat /\ DOMAIN f = 1 .. Len(f)
    OBVIOUS
  <2>2. DOMAIN Append(f, x) = 1 .. Len(f) + 1 /\ Append(f, x)[Len(f) + 1] = x
    OBVIOUS
  <2>3. \A i \in 1 .. Len(f) : Append(f, x)[i] = f[i]
    OBVIOUS
  <2>4. \A i : i \in 1 .. Len(f) + 1 <=> i \in 1 .. Len(f) \/ i = Len(f) + 1
    BY <2>1
  <2> QED
    BY <2>1, <2>2, <2>3, <2>4, Zenon DEF Range
<1>2. x # Torn
  BY FrameFacts, Zenon
<1>3. Replay(f) = f /\ Replay(Append(f, x)) = Append(f, x)
  BY <1>2, ReplayAppend, Zenon
<1>4. CASE x.op = "fetch"
  <2>1. x.op \notin CloseOp
    BY <1>4, Zenon DEF CloseOp
  <2>2. ClosedIn(Append(f, x)) = ClosedIn(f)
    BY <1>1, <1>3, <2>1, Zenon DEF ClosedIn
  <2>3. OpenedIn(Append(f, x)) = OpenedIn(f) \cup {x.lease}
    BY <1>1, <1>3, <1>4 DEF OpenedIn
  <2> QED
    BY <1>4, <2>2, <2>3, Zenon
<1>5. CASE x.op # "fetch"
  <2>1. x.op \in CloseOp
    BY <1>5, FrameFacts, Zenon
  <2>2. ClosedIn(Append(f, x)) = ClosedIn(f) \cup {x}
    BY <1>1, <1>3, <2>1, Zenon DEF ClosedIn
  <2>3. OpenedIn(Append(f, x)) = OpenedIn(f)
    BY <1>1, <1>3, <1>5, Zenon DEF OpenedIn
  <2> QED
    BY <1>5, <2>2, <2>3, Zenon
<1> QED
  BY <1>4, <1>5, Zenon

(* The loop of Live is the difference of two sets, as the engine has it. *)
LEMMA LiveIsDifference ==
  ASSUME NEW f \in Seq(Frame \cup {Torn}),
         \A r \in Fetched : \E st, n : Keeps(st, f, n, r)
  PROVE  LiveOf(f) = { r \in OpenedIn(f) : r.id \notin Ids(ClosedIn(f)) }
<1>1. /\ Len(Replay(f)) \in Nat /\ Len(f) \in Nat
      /\ Replay(f) \in Seq(Frame)
      /\ Len(Replay(f)) <= Len(f)
      /\ \A i \in 1 .. Len(Replay(f)) : Replay(f)[i] = f[i] /\ f[i] # Torn
      /\ Len(Replay(f)) < Len(f) => f[Len(Replay(f)) + 1] = Torn
  BY ReplayFacts
<1>2. \A i \in 1 .. Len(f) : Reached(f, i) <=> i <= Len(Replay(f))
  BY <1>1 DEF Reached
<1>3. Range(Replay(f)) = { f[i] : i \in 1 .. Len(Replay(f)) }
  BY <1>1 DEF Range
<1>4. Range(Replay(f)) \subseteq Frame
  BY <1>1 DEF Range
<1>5. OpenedIn(f) \subseteq Fetched
  BY <1>4, FrameFacts, Zenon DEF OpenedIn
<1>6. ASSUME NEW r \in Fetched
      PROVE  /\ r \in OpenedIn(f) <=> \E i \in 1 .. Len(Replay(f)) : Opens(f, i, r)
             /\ r.id \in Ids(ClosedIn(f)) <=> \E i \in 1 .. Len(Replay(f)) : Closes(f, i, r)
  <2>1. r \in OpenedIn(f) <=> \E i \in 1 .. Len(Replay(f)) : Opens(f, i, r)
    BY <1>3, Zenon DEF OpenedIn, Opens
  <2>2. r.id \in Ids(ClosedIn(f)) <=> \E i \in 1 .. Len(Replay(f)) : Closes(f, i, r)
    BY <1>3, Zenon DEF ClosedIn, Closes, Ids
  <2> QED
    BY <2>1, <2>2, Zenon
<1>7. ASSUME NEW r \in Fetched
      PROVE  r \in LiveOf(f) <=> r \in OpenedIn(f) /\ r.id \notin Ids(ClosedIn(f))
  <2>1. \A i, j \in 1 .. Len(f) : Opens(f, i, r) /\ Closes(f, j, r) => i < j
    BY Zenon DEF Keeps
  <2>2. r \in LiveOf(f) <=> LastWordOpens(f, r)
    BY LiveMeans, Zenon
  <2>3. ASSUME LastWordOpens(f, r)
        PROVE  /\ \E i \in 1 .. Len(Replay(f)) : Opens(f, i, r)
               /\ \A j \in 1 .. Len(Replay(f)) : ~Closes(f, j, r)
    <3>1. PICK i \in 1 .. Len(f) :
            /\ Reached(f, i) /\ Opens(f, i, r)
            /\ \A j \in i + 1 .. Len(f) : Reached(f, j) => ~Closes(f, j, r)
      BY <2>3, Zenon DEF LastWordOpens
    <3>2. i \in 1 .. Len(Replay(f))
      BY <1>1, <1>2, <3>1
    <3>3. ASSUME NEW j \in 1 .. Len(Replay(f)), Closes(f, j, r) PROVE FALSE
      <4>1. j \in 1 .. Len(f) /\ Reached(f, j)
        BY <1>1, <1>2
      <4>2. i < j
        BY <2>1, <3>1, <3>3, <4>1, Zenon
      <4>3. j \in i + 1 .. Len(f)
        BY <4>1, <4>2
      <4> QED
        BY <3>1, <3>3, <4>1, <4>3, Zenon
    <3> QED
      BY <3>1, <3>2, <3>3, Zenon
  <2>4. ASSUME NEW i \in 1 .. Len(Replay(f)), Opens(f, i, r),
               \A j \in 1 .. Len(Replay(f)) : ~Closes(f, j, r)
        PROVE  LastWordOpens(f, r)
    <3>1. i \in 1 .. Len(f) /\ Reached(f, i)
      BY <1>1, <1>2
    <3>2. \A j \in i + 1 .. Len(f) : Reached(f, j) => j \in 1 .. Len(Replay(f))
      BY <1>1, <1>2
    <3> QED
      BY <2>4, <3>1, <3>2, Zenon DEF LastWordOpens
  <2> QED
    BY <1>6, <2>2, <2>3, <2>4, Zenon
<1>8. LiveOf(f) \subseteq Fetched
  BY LiveType, Zenon
<1> QED
  BY <1>5, <1>7, <1>8, Zenon

(* Compact: the new journal opens the leases that were live, and no more. *)
LEMMA SaysCompacted ==
  ASSUME NEW e \in Seq(Frame), NEW L, Range(e) = { FetchFrame(r) : r \in L }
  PROVE  OpenedIn(e) = L /\ ClosedIn(e) = {} /\ Torn \notin Range(e)
<1>1. Torn \notin Range(e)
  BY FrameFacts DEF Range
<1>2. Replay(e) = e
  BY <1>1, Zenon DEF Replay
<1>3. \A r : FetchFrame(r).op = "fetch" /\ FetchFrame(r).lease = r
  BY Zenon DEF FetchFrame
<1>4. ClosedIn(e) = {}
  <2>1. "fetch" \notin CloseOp
    BY Zenon DEF CloseOp
  <2> QED
    BY <1>2, <1>3, <2>1 DEF ClosedIn
<1>5. OpenedIn(e) = L
  BY <1>2, <1>3 DEF OpenedIn
<1> QED
  BY <1>1, <1>4, <1>5, Zenon

(* The variables of the engine's journal, read off the file. *)
LEMMA JournalReads ==
  /\ LeaseJournal!JournalInit <=>
       OpenedIn(file) = {} /\ ClosedIn(file) = {} /\ Torn \notin Range(file)
  /\ UNCHANGED LeaseJournal!journalVars <=>
       /\ OpenedIn(file') = OpenedIn(file) /\ ClosedIn(file') = ClosedIn(file)
       /\ Torn \in Range(file') <=> Torn \in Range(file)
BY Zenon DEF LeaseJournal!JournalInit, LeaseJournal!journalVars, OpenedIn, ClosedIn

(* Steps of the engine's journal: the append of a fetch record. *)
LEMMA StepFetch ==
  ASSUME NEW r \in OpenedIn(file'),
         Torn \notin Range(file), OpenedIn(file') = OpenedIn(file) \cup {r},
         ClosedIn(file') = ClosedIn(file), Torn \notin Range(file')
  PROVE  LeaseJournal!JournalNext
<1>1. LeaseJournal!AppendFetch(r)
  BY Zenon DEF LeaseJournal!AppendFetch, LeaseJournal!Replayable, OpenedIn, ClosedIn
<1> QED
  BY <1>1, Zenon DEF LeaseJournal!JournalNext, OpenedIn

(* Append of a closing record. *)
LEMMA StepClose ==
  ASSUME NEW c \in ClosedIn(file'),
         Torn \notin Range(file), OpenedIn(file') = OpenedIn(file),
         ClosedIn(file') = ClosedIn(file) \cup {[op |-> c.op, id |-> c.id]},
         Torn \notin Range(file')
  PROVE  LeaseJournal!JournalNext
<1>1. LeaseJournal!AppendClose(c.op, c.id)
  BY Zenon DEF LeaseJournal!AppendClose, LeaseJournal!Replayable, OpenedIn, ClosedIn
<1> QED
  BY <1>1, Zenon DEF LeaseJournal!JournalNext, ClosedIn

(* Half a frame at the end, or the cut that removes it. *)
LEMMA StepTail ==
  ASSUME OpenedIn(file') = OpenedIn(file), ClosedIn(file') = ClosedIn(file)
  PROVE  LeaseJournal!JournalNext
BY Zenon DEF LeaseJournal!JournalNext, LeaseJournal!AppendHalf, LeaseJournal!OpenJournal,
       OpenedIn, ClosedIn

(* Compaction. *)
LEMMA StepCompact ==
  ASSUME OpenedIn(file') = { r \in OpenedIn(file) : r.id \notin Ids(ClosedIn(file)) },
         ClosedIn(file') = {}, Torn \notin Range(file')
  PROVE  LeaseJournal!JournalNext
BY Zenon DEF LeaseJournal!JournalNext, LeaseJournal!CompactJournal, LeaseJournal!Live,
       LeaseJournal!Ids, Ids, OpenedIn, ClosedIn

(* Each step of the log that is no loss of power is a step of the engine's *)
(* journal.                                                                *)
LEMMA WalStepRefines ==
  ASSUME WalInv, [WalNext]_vars
  PROVE  [PowerLoss \/ LeaseJournal!JournalNext]_(LeaseJournal!journalVars)
<1> DEFINE J == Seq(Frame \cup {Torn})
<1>0. file \in J
  BY Zenon DEF WalInv, WalTypeOK
<1> SUFFICES PowerLoss \/ LeaseJournal!JournalNext
  BY Zenon
<1>1. CASE file' = file
  BY <1>1, StepTail, Zenon
<1>2. CASE Open
  <2>1. file' = Replay(file)
    BY <1>2, Zenon DEF Open
  <2>2. Replay(Replay(file)) = Replay(file)
    <3>1. /\ Replay(file) \in J
          /\ \A i \in 1 .. Len(Replay(file)) : Replay(file)[i] # Torn
      BY <1>0, ReplayFacts, Zenon
    <3> QED
      BY <3>1 DEF Range, Replay
  <2>3. OpenedIn(file') = OpenedIn(file) /\ ClosedIn(file') = ClosedIn(file)
    BY <2>1, <2>2, Zenon DEF OpenedIn, ClosedIn
  <2> QED
    BY <2>3, StepTail, Zenon
<1>3. CASE file' = Append(file, Torn)
  <2>1. Replay(file') = Replay(file)
    BY <1>0, <1>3, ReplayAppend, Zenon
  <2> QED
    BY <2>1, StepTail, Zenon DEF OpenedIn, ClosedIn
<1>4. ASSUME NEW frame \in Frame, file' = Append(file, frame), Torn \in Range(file)
      PROVE  LeaseJournal!JournalNext
  <2>1. Replay(file') = Replay(file)
    BY <1>0, <1>4, ReplayAppend, Zenon
  <2> QED
    BY <2>1, StepTail, Zenon DEF OpenedIn, ClosedIn
<1>5. ASSUME NEW frame \in Frame, file' = Append(file, frame), Torn \notin Range(file)
      PROVE  LeaseJournal!JournalNext
  <2>1. Torn \notin Range(file')
    BY <1>0, <1>5, ReplayAppend, FrameFacts, Zenon
  <2>2. CASE frame.op = "fetch"
    <3>1. OpenedIn(file') = OpenedIn(file) \cup {frame.lease} /\ ClosedIn(file') = ClosedIn(file)
      BY <1>0, <1>5, <2>2, SaysAppended, Zenon
    <3> QED
      BY <1>5, <2>1, <3>1, StepFetch, Zenon
  <2>3. CASE frame.op # "fetch"
    <3>1. OpenedIn(file') = OpenedIn(file) /\ ClosedIn(file') = ClosedIn(file) \cup {frame}
      BY <1>0, <1>5, <2>3, SaysAppended, Zenon
    <3>2. frame = [op |-> frame.op, id |-> frame.id]
      BY <2>3 DEF Frame, FetchFrame
    <3> QED
      BY <1>5, <2>1, <3>1, <3>2, StepClose, Zenon
  <2> QED
    BY <2>2, <2>3, Zenon
<1>6. CASE CompactRename
  <2>1. file' = temp /\ temp \in Seq(Frame) /\ Range(temp) = { FetchFrame(r) : r \in LiveOf(file) }
    BY <1>6, Zenon DEF CompactRename, WalInv, WalTypeOK
  <2>2. OpenedIn(file') = LiveOf(file) /\ ClosedIn(file') = {} /\ Torn \notin Range(file')
    BY <2>1, SaysCompacted, Zenon
  <2>3. LiveOf(file) = { r \in OpenedIn(file) : r.id \notin Ids(ClosedIn(file)) }
    BY <1>0, LiveIsDifference, Zenon DEF WalInv, Kept
  <2> QED
    BY <2>2, <2>3, StepCompact, Zenon
<1>7. \/ file' = file \/ Open \/ CompactRename \/ PowerLoss \/ file' = Append(file, Torn)
      \/ \E frame \in Frame : file' = Append(file, frame)
  BY Zenon DEF WalNext, Compact, Close, AppendWrite, AppendWriteFails, AppendSync, AppendSyncFails,
         CompactCopy, CompactClose, CompactReopen, CompactStrands, Crash, CrashInWrite,
         vars, fileVars
<1> QED
  BY <1>1, <1>2, <1>3, <1>4, <1>5, <1>6, <1>7, Zenon

(* The journal the engine was checked against is what the file implements. *)
THEOREM FileIsJournal == WalSpec => ImplementsJournal
<1>1. WalInit => LeaseJournal!JournalInit
  <2> SUFFICES ASSUME WalInit PROVE LeaseJournal!JournalInit
    BY Zenon
  <2>1. file = <<>>
    BY Zenon DEF WalInit
  <2>2. Torn \notin Range(file) /\ Range(file) = {}
    BY <2>1 DEF Range
  <2>3. OpenedIn(file) = {} /\ ClosedIn(file) = {}
    BY <2>2, Zenon DEF OpenedIn, ClosedIn, Replay
  <2> QED
    BY <2>2, <2>3, JournalReads, Zenon
<1>2. WalInv /\ [WalNext]_vars =>
        [PowerLoss \/ LeaseJournal!JournalNext]_(LeaseJournal!journalVars)
  BY WalStepRefines, Zenon
<1> QED
  BY <1>1, <1>2, WalInvariant, PTL DEF WalSpec, ImplementsJournal

=============================================================================
