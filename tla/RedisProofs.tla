---------------------------- MODULE RedisProofs ----------------------------
(***************************************************************************)
(* The Lua scripts of RedisQueue, for any number of tasks and leases: they *)
(* keep the keys well formed, lose no task, and implement Backend.         *)
(*                                                                         *)
(* The first half needs of the keys no more than KeysOK, so that it holds  *)
(* for scripts that a client repeats as well (RetryProofs).  In the second *)
(* half every task is pushed once, and has one value in one place          *)
(* (OneCopy): that is what lets the attempt counter of MemoryQueue be read *)
(* off the keys, and each script be one operation of Backend.              *)
(***************************************************************************)
EXTENDS RedisQueue, FiniteSetTheorems, TLAPS

(* The keys are well formed. *)
KeysOK == RedisTypeOK /\ HashesAgree

-----------------------------------------------------------------------------
(* Lists *)

(* LPUSH puts one value in front of the others. *)
LEMMA PushFacts ==
  ASSUME NEW S, NEW s \in Seq(S), NEW v \in S
  PROVE  /\ Len(s) \in Nat /\ DOMAIN s = 1 .. Len(s)
         /\ LPush(s, v) \in Seq(S)
         /\ Len(LPush(s, v)) = Len(s) + 1
         /\ DOMAIN LPush(s, v) = 1 .. (Len(s) + 1)
         /\ LPush(s, v)[1] = v
         /\ \A i \in 1 .. Len(s) : LPush(s, v)[i + 1] = s[i]
BY DEF LPush

(* An interval, without its first or its last number. *)
LEMMA Intervals ==
  ASSUME NEW n \in Nat
  PROVE  /\ \A i \in 1 .. n : i + 1 \in 1 .. (n + 1)
         /\ 1 \in 1 .. (n + 1)
         /\ \A i \in 1 .. (n + 1) : i = 1 \/ (i - 1 \in 1 .. n /\ (i - 1) + 1 = i)
         /\ \A i \in 1 .. n : i \in 1 .. (n - 1) \/ i = n
         /\ \A i \in 1 .. (n - 1) : i \in 1 .. n
         /\ \A i \in 1 .. n : (n + 1) - i \in 1 .. n /\ (n + 1) - ((n + 1) - i) = i
OBVIOUS

(* LPUSH adds one value. *)
LEMMA PushRange ==
  ASSUME NEW S, NEW s \in Seq(S), NEW v \in S
  PROVE  Range(LPush(s, v)) = Range(s) \cup {v}
<1> DEFINE p == LPush(s, v)
           n == Len(s)
<1>1. /\ n \in Nat /\ DOMAIN s = 1 .. n /\ DOMAIN p = 1 .. (n + 1)
      /\ p[1] = v /\ \A i \in 1 .. n : p[i + 1] = s[i]
  BY PushFacts
<1> HIDE DEF p, n
<1>2. /\ 1 \in 1 .. (n + 1) /\ \A i \in 1 .. n : i + 1 \in 1 .. (n + 1)
      /\ \A i \in 1 .. (n + 1) : i = 1 \/ (i - 1 \in 1 .. n /\ (i - 1) + 1 = i)
  BY <1>1, Intervals, Zenon
<1>3. ASSUME NEW e \in Range(p) PROVE e \in Range(s) \cup {v}
  <2>1. PICK i \in 1 .. (n + 1) : e = p[i]
    BY <1>1, <1>3, Zenon DEF Range
  <2>2. CASE i = 1
    BY <1>1, <2>1, <2>2, Zenon
  <2>3. CASE i - 1 \in 1 .. n /\ (i - 1) + 1 = i
    <3>1. p[i] = s[i - 1]
      BY <1>1, <2>3, Zenon
    <3> QED
      BY <1>1, <2>1, <2>3, <3>1, Zenon DEF Range
  <2> QED
    BY <1>2, <2>2, <2>3, Zenon
<1>4. ASSUME NEW e \in Range(s) \cup {v} PROVE e \in Range(p)
  <2>1. CASE e = v
    BY <1>1, <1>2, <2>1, Zenon DEF Range
  <2>2. CASE e \in Range(s)
    <3>1. PICK i \in 1 .. n : e = s[i]
      BY <1>1, <2>2, Zenon DEF Range
    <3>2. i + 1 \in DOMAIN p /\ e = p[i + 1]
      BY <1>1, <1>2, <3>1, Zenon
    <3> QED
      BY <3>2, Zenon DEF Range
  <2> QED
    BY <1>4, <2>1, <2>2, Zenon
<1> QED
  BY <1>3, <1>4, Zenon DEF p

(* What RPOP returns and what it leaves, place by place. *)
LEMMA PopFacts ==
  ASSUME NEW S, NEW s \in Seq(S), s # <<>>
  PROVE  /\ Len(s) \in Nat /\ Len(s) >= 1 /\ DOMAIN s = 1 .. Len(s)
         /\ RPop(s) \in Seq(S)
         /\ Len(RPop(s)) = Len(s) - 1
         /\ DOMAIN RPop(s) = 1 .. (Len(s) - 1)
         /\ \A i \in 1 .. (Len(s) - 1) : RPop(s)[i] = s[i]
         /\ RightEnd(s) = s[Len(s)]
         /\ RightEnd(s) \in S
<1>1. Len(s) \in Nat /\ Len(s) >= 1 /\ DOMAIN s = 1 .. Len(s) /\ s \in [1 .. Len(s) -> S]
  OBVIOUS
<1>2. /\ RPop(s) \in Seq(S)
      /\ Len(RPop(s)) = Len(s) - 1
      /\ DOMAIN RPop(s) = 1 .. (Len(s) - 1)
      /\ \A i \in 1 .. (Len(s) - 1) : RPop(s)[i] = s[i]
  BY <1>1 DEF RPop
<1> QED
  BY <1>1, <1>2 DEF RightEnd

(* RPOP takes one value and leaves the others. *)
LEMMA PopRange ==
  ASSUME NEW S, NEW s \in Seq(S), s # <<>>
  PROVE  Range(s) = Range(RPop(s)) \cup {RightEnd(s)}
<1>1. /\ Len(s) \in Nat /\ Len(s) >= 1 /\ DOMAIN s = 1 .. Len(s)
      /\ DOMAIN RPop(s) = 1 .. (Len(s) - 1)
      /\ \A i \in 1 .. (Len(s) - 1) : RPop(s)[i] = s[i]
      /\ RightEnd(s) = s[Len(s)]
  BY PopFacts, Zenon
<1>2. Len(s) \in 1 .. Len(s)
  BY <1>1
<1>3. ASSUME NEW e \in Range(s) PROVE e \in Range(RPop(s)) \cup {RightEnd(s)}
  <2>1. PICK i \in 1 .. Len(s) : e = s[i]
    BY <1>1, <1>3, Zenon DEF Range
  <2>2. i \in 1 .. (Len(s) - 1) \/ i = Len(s)
    BY <1>1, Intervals, Zenon
  <2> QED
    BY <1>1, <2>1, <2>2, Zenon DEF Range
<1>4. ASSUME NEW e \in Range(RPop(s)) \cup {RightEnd(s)} PROVE e \in Range(s)
  <2>1. \A i \in 1 .. (Len(s) - 1) : i \in 1 .. Len(s)
    BY <1>1, Intervals, Zenon
  <2> QED
    BY <1>1, <1>2, <1>4, <2>1, Zenon DEF Range
<1> QED
  BY <1>3, <1>4, Zenon

(* The values of two lists, one behind the other, are those of both. *)
LEMMA JoinRange ==
  ASSUME NEW S, NEW s \in Seq(S), NEW t \in Seq(S)
  PROVE  Range(s \o t) = Range(s) \cup Range(t)
<1>1. /\ DOMAIN s = 1 .. Len(s) /\ DOMAIN t = 1 .. Len(t)
      /\ DOMAIN (s \o t) = 1 .. (Len(s) + Len(t))
      /\ Len(s) \in Nat /\ Len(t) \in Nat
  OBVIOUS
<1>2. \A i \in 1 .. Len(s) : i \in DOMAIN (s \o t) /\ (s \o t)[i] = s[i]
  OBVIOUS
<1>3. \A i \in 1 .. Len(t) :
        Len(s) + i \in DOMAIN (s \o t) /\ (s \o t)[Len(s) + i] = t[i]
  OBVIOUS
<1>4. \A k \in DOMAIN (s \o t) :
        k \in 1 .. Len(s) \/ \E i \in 1 .. Len(t) : k = Len(s) + i
  <2>1. SUFFICES ASSUME NEW k \in 1 .. (Len(s) + Len(t)), k \notin 1 .. Len(s)
                 PROVE  \E i \in 1 .. Len(t) : k = Len(s) + i
    BY <1>1, Zenon
  <2>2. k - Len(s) \in 1 .. Len(t) /\ k = Len(s) + (k - Len(s))
    BY <1>1, <2>1
  <2>. QED
    BY <2>2, Zenon
<1>5. ASSUME NEW e \in Range(s) \cup Range(t) PROVE e \in Range(s \o t)
  BY <1>1, <1>2, <1>3, <1>5, Zenon DEF Range
<1>6. ASSUME NEW e \in Range(s \o t) PROVE e \in Range(s) \cup Range(t)
  <2>1. PICK k \in DOMAIN (s \o t) : e = (s \o t)[k]
    BY <1>6, Zenon DEF Range
  <2>2. CASE k \in 1 .. Len(s)
    BY <1>1, <1>2, <2>1, <2>2, Zenon DEF Range
  <2>3. ASSUME NEW i \in 1 .. Len(t), k = Len(s) + i PROVE e \in Range(t)
    BY <1>1, <1>3, <2>1, <2>3, Zenon DEF Range
  <2>. QED
    BY <1>4, <2>1, <2>2, <2>3, Zenon
<1>. QED
  BY <1>5, <1>6, Zenon

(* Listing a finite set leaves out none of its members and repeats none. *)
LEMMA ListingFacts ==
  ASSUME NEW S, IsFiniteSet(S), NEW f \in Listings(S)
  PROVE  /\ Cardinality(S) \in Nat
         /\ f \in [1 .. Cardinality(S) -> S]
         /\ \A x \in S : \E i \in 1 .. Cardinality(S) : f[i] = x
         /\ \A i, j \in 1 .. Cardinality(S) : f[i] = f[j] => i = j
<1>1. Cardinality(S) \in Nat
  BY FS_CardinalityType
<1> QED
  BY <1>1 DEF Listings, Bijection, Injection, Surjection, IsInjective

-----------------------------------------------------------------------------
(* Scripts *)

(* If every stored value has its ID stored after a step, no ID is lost. *)
LEMMA IdsKept ==
  ASSUME \A e \in Stored : \E d \in Stored' : d.id = e.id
  PROVE  Ids(Stored) \subseteq Ids(Stored)'
BY DEF Ids

(* The HDELs remove the same fields from both hashes. *)
LEMMA DropStep ==
  ASSUME KeysOK, NEW S, DropEntries(S)
  PROVE  /\ DOMAIN processingHash' = DOMAIN processingHash \ S
         /\ DOMAIN leaseHash' = DOMAIN leaseHash \ S
         /\ \A t \in DOMAIN processingHash' : processingHash'[t] = processingHash[t]
         /\ \A t \in DOMAIN leaseHash' : leaseHash'[t] = leaseHash[t]
         /\ HashesAgree'
<1>1. /\ processingHash' = [t \in DOMAIN processingHash \ S |-> processingHash[t]]
      /\ leaseHash' = [t \in DOMAIN leaseHash \ S |-> leaseHash[t]]
  BY Zenon DEF DropEntries, HDel, Restrict
<1>2. /\ DOMAIN processingHash' = DOMAIN processingHash \ S
      /\ DOMAIN leaseHash' = DOMAIN leaseHash \ S
      /\ \A t \in DOMAIN processingHash' : processingHash'[t] = processingHash[t]
      /\ \A t \in DOMAIN leaseHash' : leaseHash'[t] = leaseHash[t]
  BY <1>1, Zenon
<1>3. HashesAgree'
  BY <1>2, Zenon DEF KeysOK, HashesAgree
<1> QED
  BY <1>2, <1>3, Zenon

(* A step that only deletes from the hashes keeps their types. *)
LEMMA DropTypes ==
  ASSUME KeysOK, NEW S, DropEntries(S),
         readyList' \in Seq(Encoded), deadList' \in Seq(Encoded), finished' \subseteq Encoded
  PROVE  KeysOK'
BY DropStep, Zenon DEF KeysOK, RedisTypeOK

(* Enqueue's LPUSH. *)
LEMMA PushStep ==
  ASSUME KeysOK, NEW t \in Task, PushTask(t)
  PROVE  /\ KeysOK'
         /\ Stored' = Stored \cup {[id |-> t, attempts |-> 0]}
<1> DEFINE v == [id |-> t, attempts |-> 0]
<1>1. v \in Encoded
  BY DEF Encoded
<1> HIDE DEF v
<1>2. readyList' \in Seq(Encoded) /\ Range(readyList)' = Range(readyList) \cup {v}
  <2>1. readyList' = LPush(readyList, v) /\ readyList \in Seq(Encoded)
    BY Zenon DEF KeysOK, RedisTypeOK, PushTask, v
  <2>2. LPush(readyList, v) \in Seq(Encoded)
    BY <1>1, <2>1, PushFacts
  <2>3. Range(LPush(readyList, v)) = Range(readyList) \cup {v}
    BY <1>1, <2>1, PushRange
  <2> QED
    BY <2>1, <2>2, <2>3, Zenon
<1>3. KeysOK'
  BY <1>2, Zenon DEF KeysOK, RedisTypeOK, HashesAgree, PushTask
<1>4. Stored' = Stored \cup {v}
  BY <1>2, Zenon DEF Stored, PushTask
<1> QED
  BY <1>3, <1>4, Zenon DEF v

(* The acquire script. *)
LEMMA AcquireStep ==
  ASSUME KeysOK, NEW l \in Lease, AcquireScript(l)
  PROVE  /\ KeysOK'
         /\ readyList # <<>> /\ readyList' = RPop(readyList)
         /\ RightEnd(readyList) \in Encoded /\ RightEnd(readyList).id \in Task
         /\ Range(readyList) = Range(readyList)' \cup {RightEnd(readyList)}
         /\ DOMAIN processingHash' = DOMAIN processingHash \cup {RightEnd(readyList).id}
         /\ processingHash'[RightEnd(readyList).id] = RightEnd(readyList)
         /\ leaseHash'[RightEnd(readyList).id] = l
         /\ \A t \in DOMAIN processingHash \ {RightEnd(readyList).id} :
              processingHash'[t] = processingHash[t] /\ leaseHash'[t] = leaseHash[t]
         /\ deadList' = deadList /\ finished' = finished
<1> DEFINE v == RightEnd(readyList)
<1>1. /\ readyList # <<>>
      /\ RPop(readyList) \in Seq(Encoded)
      /\ v \in Encoded
      /\ Range(readyList) = Range(RPop(readyList)) \cup {v}
  BY PopFacts, PopRange, Zenon DEF KeysOK, RedisTypeOK, AcquireScript
<1>2. v.id \in Task
  BY <1>1 DEF Encoded
<1>3. /\ processingHash' = [k \in DOMAIN processingHash \cup {v.id} |->
                              IF k = v.id THEN v ELSE processingHash[k]]
      /\ leaseHash' = [k \in DOMAIN leaseHash \cup {v.id} |->
                         IF k = v.id THEN l ELSE leaseHash[k]]
      /\ readyList' = RPop(readyList)
      /\ deadList' = deadList /\ finished' = finished
  BY Zenon DEF AcquireScript, HSet
<1> HIDE DEF v
<1>4. /\ DOMAIN processingHash' = DOMAIN processingHash \cup {v.id}
      /\ DOMAIN leaseHash' = DOMAIN leaseHash \cup {v.id}
      /\ processingHash'[v.id] = v /\ leaseHash'[v.id] = l
      /\ \A t \in DOMAIN processingHash \ {v.id} : processingHash'[t] = processingHash[t]
      /\ \A t \in DOMAIN leaseHash \ {v.id} : leaseHash'[t] = leaseHash[t]
  BY <1>3
<1>5. HashesAgree'
  BY <1>4 DEF KeysOK, HashesAgree
<1>6. RedisTypeOK'
  <2>1. /\ DOMAIN processingHash' \subseteq Task
        /\ \A t \in DOMAIN processingHash' : processingHash'[t] \in Encoded
    BY <1>1, <1>2, <1>4, Zenon DEF KeysOK, RedisTypeOK
  <2>2. /\ DOMAIN leaseHash' \subseteq Task
        /\ \A t \in DOMAIN leaseHash' : leaseHash'[t] \in Lease
    BY <1>2, <1>4, Zenon DEF KeysOK, RedisTypeOK
  <2> QED
    BY <1>1, <1>3, <2>1, <2>2, Zenon DEF KeysOK, RedisTypeOK
<1>7. \A t \in DOMAIN processingHash \ {v.id} :
        processingHash'[t] = processingHash[t] /\ leaseHash'[t] = leaseHash[t]
  BY <1>4, Zenon DEF KeysOK, HashesAgree
<1> QED
  BY <1>1, <1>2, <1>3, <1>4, <1>5, <1>6, <1>7, Zenon DEF KeysOK, v

(* A claim of a task loses no ID, not even one that replaces another copy  *)
(* of the task in processing.                                              *)
LEMMA AcquireKeepsIds ==
  ASSUME KeysOK, NEW l \in Lease, AcquireScript(l)
  PROVE  Ids(Stored) \subseteq Ids(Stored)'
<1> DEFINE v == RightEnd(readyList)
<1>1. /\ Range(readyList) = Range(readyList)' \cup {v}
      /\ DOMAIN processingHash' = DOMAIN processingHash \cup {v.id}
      /\ processingHash'[v.id] = v
      /\ deadList' = deadList /\ finished' = finished
      /\ HashesAgree'
  BY AcquireStep, Zenon DEF KeysOK
<1> HIDE DEF v
<1>2. ASSUME NEW e \in Stored PROVE \E d \in Stored' : d.id = e.id
  <2>1. v \in Range(processingHash)'
    BY <1>1, Zenon DEF Range
  <2>2. CASE e \in Range(readyList)
    BY <1>1, <2>1, <2>2, Zenon DEF Stored
  <2>3. CASE e \in Range(processingHash)
    <3>1. PICK k \in DOMAIN processingHash : e = processingHash[k]
      BY <2>3, Zenon DEF Range
    <3>2. processingHash'[k] \in Range(processingHash)' /\ processingHash'[k].id = k
      BY <1>1, Zenon DEF Range, HashesAgree
    <3>3. e.id = k
      BY <3>1, Zenon DEF KeysOK, HashesAgree
    <3> QED
      BY <3>2, <3>3, Zenon DEF Stored
  <2>4. CASE e \in Range(deadList) \cup finished
    BY <1>1, <2>4, Zenon DEF Stored
  <2> QED
    BY <1>2, <2>2, <2>3, <2>4, Zenon DEF Stored
<1> QED
  BY <1>2, IdsKept, Zenon

(* An attempt is charged to the task itself. *)
LEMMA ChargedType ==
  ASSUME KeysOK, NEW t \in DOMAIN processingHash
  PROVE  /\ processingHash[t] \in Encoded /\ processingHash[t].id = t
         /\ ChargedTask(processingHash[t]) \in Encoded
         /\ ChargedTask(processingHash[t]).id = t
         /\ ChargedTask(processingHash[t]).attempts = processingHash[t].attempts + 1
<1>1. processingHash[t] \in Encoded /\ processingHash[t].id = t
  BY Zenon DEF KeysOK, RedisTypeOK, HashesAgree
<1>2. ASSUME NEW e \in Encoded
      PROVE  /\ ChargedTask(e) \in Encoded /\ ChargedTask(e).id = e.id
             /\ ChargedTask(e).attempts = e.attempts + 1
  BY <1>2 DEF Encoded, ChargedTask
<1> QED
  BY <1>1, <1>2, Zenon

(* What an HDEL of one entry leaves in the hash. *)
LEMMA DropRange ==
  ASSUME KeysOK, NEW t \in DOMAIN processingHash, DropEntries({t})
  PROVE  Range(processingHash)' = Range(processingHash) \ {processingHash[t]}
<1>1. /\ DOMAIN processingHash' = DOMAIN processingHash \ {t}
      /\ \A k \in DOMAIN processingHash' : processingHash'[k] = processingHash[k]
  BY DropStep, Zenon
<1>2. \A k \in DOMAIN processingHash : processingHash[k] = processingHash[t] => k = t
  BY Zenon DEF KeysOK, HashesAgree
<1> QED
  BY <1>1, <1>2, Zenon DEF Range

(* The three closing scripts: the fence they test, and where they put the  *)
(* value they take out of processing.                                      *)
LEMMA CloseStep ==
  ASSUME KeysOK, NEW t, NEW l,
         CompleteScript(t, l) \/ RequeueScript(t, l) \/ DeadLetterScript(t, l)
  PROVE  /\ KeysOK'
         /\ t \in DOMAIN processingHash /\ HGetLease(t) = l
         /\ DropEntries({t})
         /\ Range(readyList) \subseteq Range(readyList)'
         /\ Range(deadList) \subseteq Range(deadList)'
         /\ finished \subseteq finished'
         /\ \E v \in Encoded : v.id = t /\ v \in Stored'
<1>1. t \in DOMAIN processingHash /\ HGetLease(t) = l
  BY DEF CompleteScript, RequeueScript, DeadLetterScript, TransitionResult
<1>2. DropEntries({t})
  BY Zenon DEF CompleteScript, RequeueScript, DeadLetterScript
<1> DEFINE e == processingHash[t]
           v == ChargedTask(e)
<1>3. e \in Encoded /\ e.id = t /\ v \in Encoded /\ v.id = t
  BY <1>1, ChargedType, Zenon
<1>4. readyList \in Seq(Encoded) /\ deadList \in Seq(Encoded) /\ finished \subseteq Encoded
  BY Zenon DEF KeysOK, RedisTypeOK
<1>5. CASE CompleteScript(t, l)
  <2>1. readyList' = readyList /\ deadList' = deadList /\ finished' = finished \cup {e}
    BY <1>5, Zenon DEF CompleteScript
  <2>2. e \in Stored'
    BY <2>1, Zenon DEF Stored
  <2>3. KeysOK'
    BY <1>2, <1>3, <1>4, <2>1, DropTypes, Zenon
  <2> QED
    BY <1>1, <1>2, <1>3, <2>1, <2>2, <2>3, Zenon
<1>6. CASE RequeueScript(t, l)
  <2>1. readyList' = LPush(readyList, v) /\ deadList' = deadList /\ finished' = finished
    BY <1>6, Zenon DEF RequeueScript
  <2> HIDE DEF v
  <2>2. readyList' \in Seq(Encoded)
    BY <1>3, <1>4, <2>1, PushFacts
  <2>3. Range(readyList)' = Range(readyList) \cup {v}
    BY <1>3, <1>4, <2>1, PushRange
  <2>4. v \in Stored'
    BY <2>3, Zenon DEF Stored
  <2>5. KeysOK'
    BY <1>2, <1>4, <2>1, <2>2, DropTypes, Zenon
  <2> QED
    BY <1>1, <1>2, <1>3, <2>1, <2>3, <2>4, <2>5, Zenon
<1>7. CASE DeadLetterScript(t, l)
  <2>1. deadList' = LPush(deadList, v) /\ readyList' = readyList /\ finished' = finished
    BY <1>7, Zenon DEF DeadLetterScript
  <2> HIDE DEF v
  <2>2. deadList' \in Seq(Encoded)
    BY <1>3, <1>4, <2>1, PushFacts
  <2>3. Range(deadList)' = Range(deadList) \cup {v}
    BY <1>3, <1>4, <2>1, PushRange
  <2>4. v \in Stored'
    BY <2>3, Zenon DEF Stored
  <2>5. KeysOK'
    BY <1>2, <1>4, <2>1, <2>2, DropTypes, Zenon
  <2> QED
    BY <1>1, <1>2, <1>3, <2>1, <2>3, <2>4, <2>5, Zenon
<1> QED
  BY <1>5, <1>6, <1>7, Zenon

(* Closing a claim loses no ID. *)
LEMMA CloseKeepsIds ==
  ASSUME KeysOK, NEW t, NEW l,
         CompleteScript(t, l) \/ RequeueScript(t, l) \/ DeadLetterScript(t, l)
  PROVE  Ids(Stored) \subseteq Ids(Stored)'
<1>1. /\ t \in DOMAIN processingHash /\ DropEntries({t})
      /\ Range(readyList) \subseteq Range(readyList)'
      /\ Range(deadList) \subseteq Range(deadList)'
      /\ finished \subseteq finished'
      /\ \E v \in Encoded : v.id = t /\ v \in Stored'
  BY CloseStep, Zenon
<1>2. Range(processingHash)' = Range(processingHash) \ {processingHash[t]}
  BY <1>1, DropRange, Zenon
<1>3. processingHash[t].id = t
  BY <1>1, Zenon DEF KeysOK, HashesAgree
<1>4. ASSUME NEW e \in Stored PROVE \E d \in Stored' : d.id = e.id
  <2>1. CASE e = processingHash[t]
    BY <1>1, <1>3, <2>1, Zenon
  <2>2. CASE e # processingHash[t]
    <3>1. e \in Stored'
      BY <1>1, <1>2, <2>2, Zenon DEF Stored
    <3> QED
      BY <3>1, Zenon
  <2> QED
    BY <2>1, <2>2, Zenon
<1> QED
  BY <1>4, IdsKept, Zenon

(* The values that the recovery script pushes: those of the orphans, each  *)
(* of them once.                                                           *)
LEMMA PushedFacts ==
  ASSUME KeysOK, NEW S, S \subseteq DOMAIN processingHash, NEW order \in Listings(S),
         NEW pushed, pushed = [i \in DOMAIN order |-> processingHash[order[i]]]
  PROVE  /\ Cardinality(S) \in Nat
         /\ order \in [1 .. Cardinality(S) -> S]
         /\ \A x \in S : \E i \in 1 .. Cardinality(S) : order[i] = x
         /\ \A i, j \in 1 .. Cardinality(S) : order[i] = order[j] => i = j
         /\ pushed \in Seq(Encoded) /\ Len(pushed) = Cardinality(S)
         /\ \A i \in 1 .. Cardinality(S) : pushed[i] = processingHash[order[i]]
         /\ \A i \in 1 .. Cardinality(S) : pushed[i].id = order[i]
         /\ Range(pushed) = { processingHash[x] : x \in S }
<1> DEFINE n == Cardinality(S)
<1>1. IsFiniteSet(S)
  BY RecordsAssumption, FS_Subset DEF KeysOK, RedisTypeOK
<1>2. /\ n \in Nat
      /\ order \in [1 .. n -> S]
      /\ \A x \in S : \E i \in 1 .. n : order[i] = x
      /\ \A i, j \in 1 .. n : order[i] = order[j] => i = j
  BY <1>1, ListingFacts
<1> HIDE DEF n
<1>3. /\ DOMAIN order = 1 .. n /\ DOMAIN pushed = 1 .. n
      /\ \A i \in 1 .. n : order[i] \in S /\ pushed[i] = processingHash[order[i]]
  BY <1>2, Zenon
<1>4. \A x \in S : processingHash[x] \in Encoded /\ processingHash[x].id = x
  BY Zenon DEF KeysOK, RedisTypeOK, HashesAgree
<1>5. \A i \in 1 .. n : pushed[i] \in Encoded /\ pushed[i].id = order[i]
  BY <1>3, <1>4, Zenon
<1>6. pushed \in [1 .. n -> Encoded]
  BY <1>3, <1>5, Zenon
<1>7. pushed \in Seq(Encoded) /\ Len(pushed) = n
  BY <1>2, <1>6
<1>8. Range(pushed) = { processingHash[x] : x \in S }
  <2>1. ASSUME NEW e \in Range(pushed) PROVE e \in { processingHash[x] : x \in S }
    BY <1>3, <2>1, Zenon DEF Range
  <2>2. ASSUME NEW x \in S PROVE processingHash[x] \in Range(pushed)
    <3>1. PICK i \in 1 .. n : order[i] = x
      BY <1>2, Zenon
    <3>2. pushed[i] = processingHash[x] /\ i \in DOMAIN pushed
      BY <1>3, <3>1, Zenon
    <3> QED
      BY <3>2, Zenon DEF Range
  <2> QED
    BY <2>1, <2>2, Zenon
<1> QED
  BY <1>2, <1>3, <1>5, <1>7, <1>8, Zenon DEF n

(* The recovery script: every orphan is in the list that is pushed, so     *)
(* that what is stored stays what it was.                                  *)
LEMMA RecoverStep ==
  ASSUME KeysOK, NEW active, RecoverScript(active)
  PROVE  /\ KeysOK'
         /\ Stored' = Stored
         /\ DropEntries(OrphanEntries(active))
<1> DEFINE S == OrphanEntries(active)
<1>1. S \subseteq DOMAIN processingHash
  BY Zenon DEF OrphanEntries
<1>2. PICK order \in Listings(S) :
        readyList' = [i \in DOMAIN order |-> processingHash[order[i]]] \o readyList
  BY Zenon DEF RecoverScript
<1>3. DropEntries(S) /\ deadList' = deadList /\ finished' = finished
  BY Zenon DEF RecoverScript
<1> DEFINE pushed == [i \in DOMAIN order |-> processingHash[order[i]]]
<1> HIDE DEF S
<1>4. readyList' = pushed \o readyList
  BY <1>2, Zenon
<1>5. pushed \in Seq(Encoded) /\ Range(pushed) = { processingHash[x] : x \in S }
  <2>1. pushed = [i \in DOMAIN order |-> processingHash[order[i]]]
    OBVIOUS
  <2> HIDE DEF pushed
  <2> QED
    BY <1>1, <2>1, PushedFacts
<1> HIDE DEF pushed
<1>6. /\ readyList' \in Seq(Encoded) /\ readyList \in Seq(Encoded)
      /\ deadList \in Seq(Encoded) /\ finished \subseteq Encoded
  BY <1>4, <1>5 DEF KeysOK, RedisTypeOK
<1>7. Range(readyList)' = Range(pushed) \cup Range(readyList)
  BY <1>4, <1>5, <1>6, JoinRange
<1>8. KeysOK'
  BY <1>3, <1>6, DropTypes, Zenon
<1>9. Range(pushed) \cup Range(processingHash)' = Range(processingHash)
  <2>1. /\ DOMAIN processingHash' = DOMAIN processingHash \ S
        /\ \A k \in DOMAIN processingHash' : processingHash'[k] = processingHash[k]
    BY <1>3, DropStep, Zenon
  <2>2. ASSUME NEW e \in Range(processingHash)
        PROVE  e \in Range(pushed) \cup Range(processingHash)'
    <3>1. PICK k \in DOMAIN processingHash : e = processingHash[k]
      BY <2>2, Zenon DEF Range
    <3>2. CASE k \in S
      BY <1>5, <3>1, <3>2, Zenon
    <3>3. CASE k \notin S
      BY <2>1, <3>1, <3>3, Zenon DEF Range
    <3> QED
      BY <3>2, <3>3, Zenon
  <2>3. ASSUME NEW e \in Range(pushed) \cup Range(processingHash)'
        PROVE  e \in Range(processingHash)
    BY <1>1, <1>5, <2>1, <2>3, Zenon DEF Range
  <2> QED
    BY <2>2, <2>3, Zenon
<1>10. Stored' = Stored
  BY <1>3, <1>7, <1>9, Zenon DEF Stored
<1> QED
  BY <1>3, <1>8, <1>10, Zenon DEF S

-----------------------------------------------------------------------------
(* One value in one place *)

ReadyIds == Ids(Range(readyList))

EndedIds == Ids(Range(deadList) \cup finished)

OneCopy ==
  /\ \A i, j \in DOMAIN readyList : readyList[i].id = readyList[j].id => i = j
  /\ ReadyIds \cap DOMAIN processingHash = {}
  /\ EndedIds \cap ReadyIds = {}
  /\ EndedIds \cap DOMAIN processingHash = {}
  /\ \A e, d \in Stored : e.id = d.id => e = d

(* The inductive invariant of the scripts on their own. *)
RedisInv == KeysOK /\ OneCopy

-----------------------------------------------------------------------------
(* The keys read as the fields of MemoryQueue *)

(* The ready list, oldest task first, place by place. *)
LEMMA QueueFacts ==
  ASSUME NEW s \in Seq(Encoded)
  PROVE  /\ OldestFirst(s) \in Seq(Task)
         /\ Len(OldestFirst(s)) = Len(s) /\ Len(s) \in Nat
         /\ DOMAIN OldestFirst(s) = 1 .. Len(s) /\ DOMAIN s = 1 .. Len(s)
         /\ \A i \in 1 .. Len(s) : OldestFirst(s)[i] = s[(Len(s) + 1) - i].id
<1> DEFINE n == Len(s)
           q == OldestFirst(s)
<1>1. n \in Nat /\ DOMAIN s = 1 .. n /\ \A i \in 1 .. n : s[i] \in Encoded
  OBVIOUS
<1>2. \A i \in 1 .. n : (n + 1) - i \in 1 .. n
  BY <1>1, Intervals, Zenon
<1>3. q = [i \in 1 .. n |-> s[(n + 1) - i].id]
  BY <1>1 DEF OldestFirst
<1> HIDE DEF n, q
<1>4. \A i \in 1 .. n : q[i] = s[(n + 1) - i].id
  BY <1>3, Zenon
<1>5. \A i \in 1 .. n : s[i].id \in Task
  BY <1>1 DEF Encoded
<1>6. q \in [1 .. n -> Task]
  BY <1>2, <1>3, <1>5, Zenon
<1>7. q \in Seq(Task) /\ Len(q) = n /\ DOMAIN q = 1 .. n
  BY <1>1, <1>6
<1> QED
  BY <1>1, <1>4, <1>7, Zenon DEF n, q

(* A concatenation, place by place. *)
LEMMA ConcatFacts ==
  ASSUME NEW S, NEW p \in Seq(S), NEW s \in Seq(S)
  PROVE  /\ Len(p) \in Nat /\ Len(s) \in Nat
         /\ p \o s \in Seq(S) /\ Len(p \o s) = Len(p) + Len(s)
         /\ \A i \in 1 .. Len(p) : (p \o s)[i] = p[i]
         /\ \A i \in 1 .. Len(s) : (p \o s)[Len(p) + i] = s[i]
<1>1. /\ Len(p) \in Nat /\ Len(s) \in Nat
      /\ p \o s \in Seq(S) /\ Len(p \o s) = Len(p) + Len(s)
  OBVIOUS
<1>2. \A i \in 1 .. Len(p) : (p \o s)[i] = p[i]
  OBVIOUS
<1>3. \A i \in 1 .. Len(s) : (p \o s)[Len(p) + i] = s[i]
  OBVIOUS
<1> QED
  BY <1>1, <1>2, <1>3, Zenon

(* Two sequences are equal when their places are. *)
LEMMA SameSequence ==
  ASSUME NEW S, NEW q \in Seq(S), NEW p \in Seq(S), Len(q) = Len(p),
         \A i \in 1 .. Len(q) : q[i] = p[i]
  PROVE  q = p
OBVIOUS

(* An LPUSH puts a task behind the others. *)
LEMMA QueuePush ==
  ASSUME NEW s \in Seq(Encoded), NEW v \in Encoded
  PROVE  OldestFirst(LPush(s, v)) = Append(OldestFirst(s), v.id)
<1> DEFINE n == Len(s)
           p == LPush(s, v)
           q == OldestFirst(s)
           r == OldestFirst(p)
<1>1. /\ n \in Nat /\ p \in Seq(Encoded) /\ Len(p) = n + 1
      /\ p[1] = v /\ \A i \in 1 .. n : p[i + 1] = s[i]
  BY PushFacts
<1> HIDE DEF p
<1>2. /\ q \in Seq(Task) /\ Len(q) = n
      /\ \A i \in 1 .. n : q[i] = s[(n + 1) - i].id
  BY QueueFacts
<1>3. /\ r \in Seq(Task) /\ Len(r) = n + 1
      /\ \A i \in 1 .. (n + 1) : r[i] = p[((n + 1) + 1) - i].id
  BY <1>1, QueueFacts, Zenon
<1> HIDE DEF n, q, r
<1>4. v.id \in Task
  BY DEF Encoded
<1>5. /\ Append(q, v.id) \in Seq(Task) /\ Len(Append(q, v.id)) = n + 1
      /\ \A i \in 1 .. n : Append(q, v.id)[i] = q[i]
      /\ Append(q, v.id)[n + 1] = v.id
  BY <1>1, <1>2, <1>4
<1>6. ASSUME NEW i \in 1 .. (n + 1) PROVE r[i] = Append(q, v.id)[i]
  <2>1. CASE i = n + 1
    <3>1. ((n + 1) + 1) - i = 1
      BY <1>1, <2>1
    <3> QED
      BY <1>1, <1>3, <1>5, <2>1, <3>1
  <2>2. CASE i \in 1 .. n
    <3>1. /\ ((n + 1) + 1) - i = ((n + 1) - i) + 1
          /\ (n + 1) - i \in 1 .. n
      BY <1>1, <2>2
    <3>2. r[i] = s[(n + 1) - i].id
      BY <1>1, <1>3, <3>1
    <3> QED
      BY <1>2, <1>5, <2>2, <3>2
  <2>3. i = n + 1 \/ i \in 1 .. n
    BY <1>1
  <2> QED
    BY <2>1, <2>2, <2>3, Zenon
<1> QED
  BY <1>3, <1>5, <1>6, SameSequence DEF p, q, r

(* An RPOP takes the task in front. *)
LEMMA QueuePop ==
  ASSUME NEW s \in Seq(Encoded), s # <<>>
  PROVE  /\ OldestFirst(s) # <<>>
         /\ Head(OldestFirst(s)) = RightEnd(s).id
         /\ Tail(OldestFirst(s)) = OldestFirst(RPop(s))
<1> DEFINE n == Len(s)
           p == RPop(s)
           q == OldestFirst(s)
           r == OldestFirst(p)
<1>1. /\ n \in Nat /\ n >= 1 /\ p \in Seq(Encoded) /\ Len(p) = n - 1
      /\ \A i \in 1 .. (n - 1) : p[i] = s[i]
      /\ RightEnd(s) = s[n]
  BY PopFacts
<1> HIDE DEF p
<1>2. /\ q \in Seq(Task) /\ Len(q) = n
      /\ \A i \in 1 .. n : q[i] = s[(n + 1) - i].id
  BY QueueFacts
<1>3. /\ r \in Seq(Task) /\ Len(r) = n - 1
      /\ \A i \in 1 .. (n - 1) : r[i] = p[((n - 1) + 1) - i].id
  <2>1. /\ r \in Seq(Task) /\ Len(r) = Len(p)
        /\ \A i \in 1 .. Len(p) : r[i] = p[(Len(p) + 1) - i].id
    BY <1>1, QueueFacts, Zenon
  <2> QED
    BY <1>1, <2>1, Zenon
<1> HIDE DEF n, q, r
<1>4. q # <<>> /\ Head(q) = q[1]
  BY <1>1, <1>2
<1>5. q[1] = s[n].id
  <2>1. (n + 1) - 1 = n /\ 1 \in 1 .. n
    BY <1>1
  <2> QED
    BY <1>2, <2>1
<1>6. /\ Tail(q) \in Seq(Task) /\ Len(Tail(q)) = n - 1
      /\ \A i \in 1 .. (n - 1) : Tail(q)[i] = q[i + 1]
  BY <1>1, <1>2, <1>4
<1>7. ASSUME NEW i \in 1 .. (n - 1) PROVE Tail(q)[i] = r[i]
  <2>1. /\ ((n - 1) + 1) - i = n - i /\ (n + 1) - (i + 1) = n - i
        /\ n - i \in 1 .. (n - 1) /\ i + 1 \in 1 .. n
    BY <1>1
  <2>2. Tail(q)[i] = s[n - i].id
    BY <1>2, <1>6, <2>1, Zenon
  <2>3. r[i] = s[n - i].id
    BY <1>1, <1>3, <2>1, Zenon
  <2> QED
    BY <2>2, <2>3, Zenon
<1>8. Tail(q) = r
  BY <1>3, <1>6, <1>7, SameSequence
<1> QED
  BY <1>1, <1>4, <1>5, <1>8 DEF p, q, r

(* A list pushed in front of another is acquired after it. *)
LEMMA QueueConcat ==
  ASSUME NEW p \in Seq(Encoded), NEW s \in Seq(Encoded)
  PROVE  OldestFirst(p \o s) = OldestFirst(s) \o OldestFirst(p)
<1> DEFINE n == Len(p)
           m == Len(s)
           c == p \o s
           a == OldestFirst(p)
           b == OldestFirst(s)
           r == OldestFirst(c)
<1>1. /\ n \in Nat /\ m \in Nat /\ c \in Seq(Encoded) /\ Len(c) = n + m
      /\ \A i \in 1 .. n : c[i] = p[i]
      /\ \A i \in 1 .. m : c[n + i] = s[i]
  BY ConcatFacts
<1> HIDE DEF c
<1>2. a \in Seq(Task) /\ Len(a) = n /\ \A i \in 1 .. n : a[i] = p[(n + 1) - i].id
  BY QueueFacts, Zenon
<1>3. b \in Seq(Task) /\ Len(b) = m /\ \A i \in 1 .. m : b[i] = s[(m + 1) - i].id
  BY QueueFacts, Zenon
<1>4. /\ r \in Seq(Task) /\ Len(r) = n + m
      /\ \A i \in 1 .. (n + m) : r[i] = c[((n + m) + 1) - i].id
  <2>1. /\ r \in Seq(Task) /\ Len(r) = Len(c)
        /\ \A i \in 1 .. Len(c) : r[i] = c[(Len(c) + 1) - i].id
    BY <1>1, QueueFacts, Zenon
  <2> QED
    BY <1>1, <2>1, Zenon
<1> HIDE DEF n, m, a, b, r
<1> DEFINE d == b \o a
<1>5. /\ d \in Seq(Task) /\ Len(d) = n + m
      /\ \A i \in 1 .. m : d[i] = b[i]
      /\ \A i \in 1 .. n : d[m + i] = a[i]
  <2>1. a \in Seq(Task) /\ b \in Seq(Task)
    BY <1>2, <1>3, Zenon
  <2>2. /\ d \in Seq(Task) /\ Len(d) = Len(b) + Len(a)
        /\ \A i \in 1 .. Len(b) : d[i] = b[i]
        /\ \A i \in 1 .. Len(a) : d[Len(b) + i] = a[i]
    BY <2>1, ConcatFacts
  <2>3. m + n = n + m
    BY <1>1
  <2> HIDE DEF d
  <2> QED
    BY <1>2, <1>3, <2>2, <2>3, Zenon
<1> HIDE DEF d
<1>6. ASSUME NEW i \in 1 .. (n + m) PROVE r[i] = d[i]
  <2>1. CASE i \in 1 .. m
    <3>1. /\ ((n + m) + 1) - i = n + ((m + 1) - i)
          /\ (m + 1) - i \in 1 .. m
      BY <1>1, <2>1
    <3>2. r[i] = s[(m + 1) - i].id
      BY <1>1, <1>4, <3>1, Zenon
    <3> QED
      BY <1>3, <1>5, <2>1, <3>2, Zenon
  <2>2. CASE i \notin 1 .. m
    <3> DEFINE k == i - m
    <3>1. /\ k \in 1 .. n /\ i = m + k
          /\ ((n + m) + 1) - i = (n + 1) - k
          /\ (n + 1) - k \in 1 .. n
      BY <1>1, <2>2
    <3> HIDE DEF k
    <3>2. r[i] = p[(n + 1) - k].id
      BY <1>1, <1>4, <3>1, Zenon
    <3>3. d[i] = a[k] /\ a[k] = p[(n + 1) - k].id
      BY <1>2, <1>5, <3>1, Zenon
    <3> QED
      BY <3>2, <3>3, Zenon
  <2> QED
    BY <2>1, <2>2, Zenon
<1>7. r = d
  BY <1>4, <1>5, <1>6, SameSequence
<1> QED
  BY <1>7, Zenon DEF a, b, c, d, r

(* What the mapping makes of the keys: the tasks that wait, that are held  *)
(* and that are known, and their fences.                                   *)
LEMMA MemoryReads ==
  KeysOK => /\ Memory!Held = DOMAIN processingHash
            /\ Memory!Waiting = Ids(Range(readyList))
            /\ Memory!Known = Ids(Stored)
            /\ \A t \in DOMAIN processingHash :
                 HGetLease(t) = leaseHash[t] /\ HGetLease(t) \in Lease
<1> SUFFICES ASSUME KeysOK
             PROVE  /\ Memory!Held = DOMAIN processingHash
                    /\ Memory!Waiting = Ids(Range(readyList))
                    /\ Memory!Known = Ids(Stored)
                    /\ \A t \in DOMAIN processingHash :
                         HGetLease(t) = leaseHash[t] /\ HGetLease(t) \in Lease
  BY Zenon
<1>1. \A t \in DOMAIN processingHash :
        /\ t \in Task /\ processingHash[t].id = t
        /\ HGetLease(t) = leaseHash[t] /\ HGetLease(t) \in Lease
  BY Zenon DEF KeysOK, RedisTypeOK, HashesAgree, HGetLease
<1>2. Memory!Held = DOMAIN processingHash
  <2>1. \A t \in Task : FenceOf(t) # NoLease <=> t \in DOMAIN processingHash
    BY <1>1, RecordsAssumption, Zenon DEF FenceOf
  <2> QED
    BY <1>1, <2>1, Zenon DEF Memory!Held
<1>3. Memory!Waiting = Ids(Range(readyList))
  <2> DEFINE n == Len(readyList)
             q == OldestFirst(readyList)
  <2>1. /\ n \in Nat /\ DOMAIN q = 1 .. n /\ DOMAIN readyList = 1 .. n
        /\ \A i \in 1 .. n : q[i] = readyList[(n + 1) - i].id
    BY QueueFacts, Zenon DEF KeysOK, RedisTypeOK
  <2>2. Memory!Waiting = { q[i] : i \in DOMAIN q }
    BY Zenon DEF Memory!Waiting
  <2> HIDE DEF n, q
  <2>3. \A i \in 1 .. n : (n + 1) - i \in 1 .. n /\ (n + 1) - ((n + 1) - i) = i
    BY <2>1, Intervals, Zenon
  <2>4. ASSUME NEW i \in DOMAIN q PROVE q[i] \in Ids(Range(readyList))
    BY <2>1, <2>3, Zenon DEF Ids, Range
  <2>5. ASSUME NEW i \in DOMAIN readyList PROVE readyList[i].id \in { q[j] : j \in DOMAIN q }
    <3>1. /\ (n + 1) - i \in DOMAIN q
          /\ q[(n + 1) - i] = readyList[(n + 1) - ((n + 1) - i)].id
          /\ (n + 1) - ((n + 1) - i) = i
      BY <2>1, <2>3, Zenon
    <3> QED
      BY <3>1, Zenon
  <2> QED
    BY <2>2, <2>4, <2>5, Zenon DEF Ids, Range
<1>4. Ids(Range(processingHash)) = DOMAIN processingHash
  BY <1>1, Zenon DEF Ids, Range
<1>5. Memory!Known = Ids(Stored)
  <2>1. Memory!Known = Memory!Waiting \cup Memory!Held \cup Ids(Range(deadList)) \cup Ids(finished)
    BY Zenon DEF Memory!Known
  <2>2. Ids(Stored) = Ids(Range(readyList)) \cup Ids(Range(processingHash))
                        \cup Ids(Range(deadList)) \cup Ids(finished)
    BY Zenon DEF Stored, Ids
  <2> QED
    BY <1>2, <1>3, <1>4, <2>1, <2>2, Zenon
<1> QED
  BY <1>1, <1>2, <1>3, <1>5, Zenon

(* The value of an ID, where each ID has one. *)
LEMMA ValueOf ==
  ASSUME NEW S, \A e, d \in S : e.id = d.id => e = d, NEW e \in S
  PROVE  (CHOOSE d \in S : d.id = e.id) = e /\ e.id \in Ids(S)
BY Zenon DEF Ids

(* The counters after a step that only moves values. *)
LEMMA AttemptsSame ==
  ASSUME Stored' = Stored
  PROVE  [u \in Task |-> StoredAttempts(u)]' = [u \in Task |-> StoredAttempts(u)]
<1>1. \A u \in Task : StoredAttempts(u)' = StoredAttempts(u)
  BY DEF StoredAttempts
<1> QED
  BY <1>1, Zenon

(* The counters after a step that pushes a new task uncharged. *)
LEMMA AttemptsPush ==
  ASSUME OneCopy, OneCopy', NEW v, v.id \notin Ids(Stored), v.attempts = 0,
         Stored' = Stored \cup {v}, NEW t
  PROVE  StoredAttempts(t)' = StoredAttempts(t)
<1>1. /\ \A e, d \in Stored : e.id = d.id => e = d
      /\ \A e, d \in Stored' : e.id = d.id => e = d
  BY Zenon DEF OneCopy
<1>2. CASE t = v.id
  <2>1. StoredAttempts(t) = 0
    BY <1>2, Zenon DEF StoredAttempts
  <2>2. v \in Stored'
    BY Zenon
  <2>3. (CHOOSE d \in Stored' : d.id = v.id) = v /\ v.id \in Ids(Stored')
    BY <1>1, <2>2, ValueOf, Zenon
  <2>4. StoredAttempts(t)' = (CHOOSE d \in Stored' : d.id = v.id).attempts
    BY <1>2, <2>3, Zenon DEF StoredAttempts
  <2> QED
    BY <2>1, <2>3, <2>4, Zenon
<1>3. CASE t \in Ids(Stored)
  <2>1. PICK e \in Stored : e.id = t
    BY <1>3, Zenon DEF Ids
  <2>2. (CHOOSE d \in Stored : d.id = e.id) = e /\ e.id \in Ids(Stored)
    BY <1>1, ValueOf, Zenon
  <2>3. e \in Stored'
    BY Zenon
  <2>4. (CHOOSE d \in Stored' : d.id = e.id) = e /\ e.id \in Ids(Stored')
    BY <1>1, <2>3, ValueOf, Zenon
  <2>5. StoredAttempts(t) = e.attempts
    BY <2>1, <2>2, Zenon DEF StoredAttempts
  <2>6. StoredAttempts(t)' = e.attempts
    BY <2>1, <2>4, Zenon DEF StoredAttempts
  <2> QED
    BY <2>5, <2>6, Zenon
<1>4. CASE t \notin Ids(Stored) /\ t # v.id
  <2>1. t \notin Ids(Stored')
    BY <1>4, Zenon DEF Ids
  <2> QED
    BY <1>4, <2>1, Zenon DEF StoredAttempts
<1> QED
  BY <1>2, <1>3, <1>4, Zenon

(* The counters after a step that charges one task. *)
LEMMA AttemptsCharge ==
  ASSUME OneCopy, OneCopy', NEW e \in Stored, NEW c,
         c.id = e.id, c.attempts = e.attempts + 1, Stored' = (Stored \ {e}) \cup {c}, NEW t
  PROVE  StoredAttempts(t)' = IF t = e.id THEN StoredAttempts(t) + 1 ELSE StoredAttempts(t)
<1>1. /\ \A f, d \in Stored : f.id = d.id => f = d
      /\ \A f, d \in Stored' : f.id = d.id => f = d
  BY Zenon DEF OneCopy
<1>2. CASE t = e.id
  <2>1. (CHOOSE d \in Stored : d.id = e.id) = e /\ e.id \in Ids(Stored)
    BY <1>1, ValueOf, Zenon
  <2>2. c \in Stored'
    BY Zenon
  <2>3. (CHOOSE d \in Stored' : d.id = c.id) = c /\ c.id \in Ids(Stored')
    BY <1>1, <2>2, ValueOf, Zenon
  <2>4. StoredAttempts(t) = e.attempts
    BY <1>2, <2>1, Zenon DEF StoredAttempts
  <2>5. StoredAttempts(t)' = c.attempts
    BY <1>2, <2>3, Zenon DEF StoredAttempts
  <2> QED
    BY <1>2, <2>4, <2>5, Zenon
<1>3. CASE t \in Ids(Stored) /\ t # e.id
  <2>1. PICK f \in Stored : f.id = t
    BY <1>3, Zenon DEF Ids
  <2>2. f \in Stored'
    BY <1>3, <2>1, Zenon
  <2>3. (CHOOSE d \in Stored : d.id = f.id) = f /\ f.id \in Ids(Stored)
    BY <1>1, ValueOf, Zenon
  <2>4. (CHOOSE d \in Stored' : d.id = f.id) = f /\ f.id \in Ids(Stored')
    BY <1>1, <2>2, ValueOf, Zenon
  <2>5. StoredAttempts(t) = f.attempts
    BY <2>1, <2>3, Zenon DEF StoredAttempts
  <2>6. StoredAttempts(t)' = f.attempts
    BY <2>1, <2>4, Zenon DEF StoredAttempts
  <2> QED
    BY <1>3, <2>5, <2>6, Zenon
<1>4. CASE t \notin Ids(Stored) /\ t # e.id
  <2>1. t \notin Ids(Stored')
    BY <1>4, Zenon DEF Ids
  <2> QED
    BY <1>4, <2>1, Zenon DEF StoredAttempts
<1> QED
  BY <1>2, <1>3, <1>4, Zenon

(* The fences after the HDELs of a script. *)
LEMMA FenceDrop ==
  ASSUME KeysOK, NEW S, DropEntries(S), NEW t
  PROVE  FenceOf(t)' = IF t \in S THEN NoLease ELSE FenceOf(t)
<1>1. /\ DOMAIN processingHash' = DOMAIN processingHash \ S
      /\ DOMAIN leaseHash' = DOMAIN leaseHash \ S
      /\ \A k \in DOMAIN leaseHash' : leaseHash'[k] = leaseHash[k]
  BY DropStep, Zenon
<1>2. DOMAIN processingHash = DOMAIN leaseHash
  BY Zenon DEF KeysOK, HashesAgree
<1> QED
  BY <1>1, <1>2, Zenon DEF FenceOf, HGetLease

-----------------------------------------------------------------------------
(* Each script is one operation of Backend, and keeps OneCopy *)

(* An LPUSH of a task that is not on the list. *)
LEMMA DistinctPush ==
  ASSUME NEW s \in Seq(Encoded), NEW v \in Encoded, v.id \notin Ids(Range(s)),
         \A i, j \in DOMAIN s : s[i].id = s[j].id => i = j
  PROVE  \A i, j \in DOMAIN LPush(s, v) : LPush(s, v)[i].id = LPush(s, v)[j].id => i = j
<1> DEFINE n == Len(s)
           p == LPush(s, v)
<1>1. /\ n \in Nat /\ DOMAIN s = 1 .. n /\ DOMAIN p = 1 .. (n + 1)
      /\ p[1] = v /\ \A i \in 1 .. n : p[i + 1] = s[i]
  BY PushFacts
<1> HIDE DEF n, p
<1>2. ASSUME NEW k \in 1 .. n PROVE s[k].id # v.id
  <2>1. s[k] \in Range(s)
    BY <1>1, Zenon DEF Range
  <2>2. s[k].id \in Ids(Range(s))
    BY <2>1, Zenon DEF Ids
  <2> QED
    BY <2>2, Zenon
<1>3. ASSUME NEW k \in DOMAIN p, k # 1
      PROVE  /\ k - 1 \in 1 .. n /\ (k - 1) + 1 = k
             /\ p[k].id = s[k - 1].id /\ p[k].id # v.id
  <2>1. k - 1 \in 1 .. n /\ (k - 1) + 1 = k
    BY <1>1, <1>3, Intervals, Zenon
  <2>2. p[k] = s[k - 1]
    BY <1>1, <2>1
  <2> QED
    BY <1>2, <2>1, <2>2, Zenon
<1>4. ASSUME NEW i \in DOMAIN p, NEW j \in DOMAIN p, p[i].id = p[j].id PROVE i = j
  <2>1. i = 1 <=> j = 1
    BY <1>1, <1>3, <1>4
  <2>2. CASE i # 1 /\ j # 1
    <3>1. i - 1 \in 1 .. n /\ (i - 1) + 1 = i /\ p[i].id = s[i - 1].id
      BY <1>3, <2>2
    <3>2. j - 1 \in 1 .. n /\ (j - 1) + 1 = j /\ p[j].id = s[j - 1].id
      BY <1>3, <2>2
    <3>3. s[i - 1].id = s[j - 1].id
      BY <1>4, <3>1, <3>2, Zenon
    <3>4. i - 1 = j - 1
      BY <1>1, <3>1, <3>2, <3>3, Zenon
    <3> QED
      BY <3>1, <3>2, <3>4, Zenon
  <2> QED
    BY <2>1, <2>2, Zenon
<1> QED
  BY <1>4, Zenon DEF p

(* Enqueue is Push. *)
LEMMA StepPush ==
  ASSUME RedisInv, NEW t \in Task, EnqueueTask(t)
  PROVE  RedisInv' /\ Memory!Push(t)
<1> DEFINE v == [id |-> t, attempts |-> 0]
<1>1. KeysOK /\ OneCopy /\ t \notin Ids(Stored) /\ PushTask(t) /\ readyList \in Seq(Encoded)
  BY Zenon DEF RedisInv, EnqueueTask, KeysOK, RedisTypeOK
<1>2. v \in Encoded /\ v.id = t /\ v.attempts = 0
  BY DEF Encoded
<1>3. readyList' = LPush(readyList, v)
  BY <1>1, Zenon DEF PushTask
<1>4. /\ processingHash' = processingHash /\ leaseHash' = leaseHash
      /\ deadList' = deadList /\ finished' = finished
  BY <1>1, Zenon DEF PushTask
<1>5. KeysOK' /\ Stored' = Stored \cup {v}
  BY <1>1, PushStep, Zenon
<1> HIDE DEF v
<1>6. Range(readyList)' = Range(readyList) \cup {v}
  BY <1>1, <1>2, <1>3, PushRange
<1>7. ReadyIds' = ReadyIds \cup {t} /\ EndedIds' = EndedIds
  BY <1>2, <1>4, <1>6, Zenon DEF ReadyIds, EndedIds, Ids
<1>8. t \notin ReadyIds /\ t \notin DOMAIN processingHash /\ t \notin EndedIds
  <2>1. \A e \in Stored : e.id # t
    BY <1>1, Zenon DEF Ids
  <2>2. \A k \in DOMAIN processingHash : processingHash[k].id = k
    BY <1>1, Zenon DEF KeysOK, HashesAgree
  <2>3. t \notin ReadyIds /\ t \notin EndedIds
    BY <2>1, Zenon DEF Stored, ReadyIds, EndedIds, Ids
  <2>4. t \notin DOMAIN processingHash
    BY <2>1, <2>2, Zenon DEF Stored, Range
  <2> QED
    BY <2>3, <2>4, Zenon
<1>9. OneCopy'
  <2>1. \A i, j \in DOMAIN readyList' : readyList'[i].id = readyList'[j].id => i = j
    BY <1>1, <1>2, <1>3, <1>8, DistinctPush, Zenon DEF OneCopy, ReadyIds
  <2>2. /\ ReadyIds' \cap DOMAIN processingHash' = {}
        /\ EndedIds' \cap ReadyIds' = {}
        /\ EndedIds' \cap DOMAIN processingHash' = {}
    BY <1>1, <1>4, <1>7, <1>8, Zenon DEF OneCopy
  <2>3. \A e, d \in Stored' : e.id = d.id => e = d
    <3>1. \A e \in Stored : e.id # t
      BY <1>1, Zenon DEF Ids
    <3> QED
      BY <1>1, <1>2, <1>5, <3>1, Zenon DEF OneCopy
  <2> QED
    BY <2>1, <2>2, <2>3, Zenon DEF OneCopy
<1>10. Memory!Push(t)
  <2>1. t \notin Memory!Known
    BY <1>1, MemoryReads, Zenon
  <2>2. OldestFirst(readyList)' = Append(OldestFirst(readyList), t)
    BY <1>1, <1>2, <1>3, QueuePush, Zenon
  <2>3. [u \in Task |-> FenceOf(u)]' = [u \in Task |-> FenceOf(u)]
    BY <1>4, Zenon DEF FenceOf, HGetLease
  <2>4. [u \in Task |-> StoredAttempts(u)]' = [u \in Task |-> StoredAttempts(u)]
    <3>1. \A u \in Task : StoredAttempts(u)' = StoredAttempts(u)
      BY <1>1, <1>2, <1>5, <1>9, AttemptsPush, Zenon
    <3> QED
      BY <3>1, Zenon
  <2>5. Ids(Range(deadList))' = Ids(Range(deadList)) /\ Ids(finished)' = Ids(finished)
    BY <1>4, Zenon
  <2> QED
    BY <2>1, <2>2, <2>3, <2>4, <2>5, Zenon DEF Memory!Push
<1> QED
  BY <1>5, <1>9, <1>10, Zenon DEF RedisInv

(* The acquire script is Acquire. *)
LEMMA StepAcquire ==
  ASSUME RedisInv, NEW l \in Lease, AcquireScript(l)
  PROVE  RedisInv' /\ Memory!Acquire(l)
<1> DEFINE v == RightEnd(readyList)
           n == Len(readyList)
<1>1. KeysOK /\ OneCopy /\ readyList \in Seq(Encoded)
  BY Zenon DEF RedisInv, KeysOK, RedisTypeOK
<1>2. /\ KeysOK'
      /\ readyList # <<>> /\ readyList' = RPop(readyList)
      /\ v \in Encoded /\ v.id \in Task
      /\ Range(readyList) = Range(readyList)' \cup {v}
  BY <1>1, AcquireStep, Zenon
<1>3. /\ DOMAIN processingHash' = DOMAIN processingHash \cup {v.id}
      /\ processingHash'[v.id] = v /\ leaseHash'[v.id] = l
      /\ \A t \in DOMAIN processingHash \ {v.id} :
           processingHash'[t] = processingHash[t] /\ leaseHash'[t] = leaseHash[t]
      /\ deadList' = deadList /\ finished' = finished
  BY <1>1, AcquireStep, Zenon
<1>4. /\ n \in Nat /\ n >= 1 /\ DOMAIN readyList = 1 .. n
      /\ DOMAIN readyList' = 1 .. (n - 1)
      /\ \A i \in 1 .. (n - 1) : readyList'[i] = readyList[i]
      /\ v = readyList[n]
  BY <1>1, <1>2, PopFacts, Zenon
<1> HIDE DEF v, n
<1>5. /\ ReadyIds = ReadyIds' \cup {v.id} /\ EndedIds' = EndedIds
      /\ v.id \notin DOMAIN processingHash
  <2>1. ReadyIds = ReadyIds' \cup {v.id}
    BY <1>2, Zenon DEF Ids, ReadyIds
  <2>2. EndedIds' = EndedIds
    BY <1>3, Zenon DEF EndedIds
  <2> QED
    BY <1>1, <2>1, <2>2, Zenon DEF OneCopy
<1>6. v.id \notin ReadyIds'
  <2>1. ASSUME NEW i \in 1 .. (n - 1) PROVE readyList'[i].id # v.id
    <3>1. i \in 1 .. n /\ n \in 1 .. n /\ i # n
      BY <1>4
    <3> QED
      BY <1>1, <1>4, <3>1, Zenon DEF OneCopy
  <2> QED
    BY <1>4, <2>1, Zenon DEF ReadyIds, Ids, Range
<1>7. Range(processingHash)' = Range(processingHash) \cup {v}
  <2>1. ASSUME NEW t \in DOMAIN processingHash'
        PROVE  processingHash'[t] \in Range(processingHash) \cup {v}
    BY <1>3, <1>5, Zenon DEF Range
  <2>2. v \in Range(processingHash)'
    BY <1>3, Zenon DEF Range
  <2>3. ASSUME NEW t \in DOMAIN processingHash PROVE processingHash[t] \in Range(processingHash)'
    <3>1. t \in DOMAIN processingHash' /\ processingHash'[t] = processingHash[t]
      BY <1>3, <1>5, Zenon
    <3> QED
      BY <3>1, Zenon DEF Range
  <2> QED
    BY <2>1, <2>2, <2>3, Zenon DEF Range
<1>8. Stored' = Stored
  BY <1>2, <1>3, <1>7, Zenon DEF Stored
<1>9. OneCopy'
  <2>1. \A i, j \in DOMAIN readyList' : readyList'[i].id = readyList'[j].id => i = j
    <3>1. \A i \in 1 .. (n - 1) : i \in 1 .. n
      BY <1>4
    <3> QED
      BY <1>1, <1>4, <3>1, Zenon DEF OneCopy
  <2>2. ReadyIds' \cap DOMAIN processingHash' = {}
    BY <1>1, <1>3, <1>5, <1>6, Zenon DEF OneCopy
  <2>3. EndedIds' \cap ReadyIds' = {} /\ EndedIds' \cap DOMAIN processingHash' = {}
    BY <1>1, <1>3, <1>5, Zenon DEF OneCopy
  <2>4. \A e, d \in Stored' : e.id = d.id => e = d
    BY <1>1, <1>8, Zenon DEF OneCopy
  <2> QED
    BY <2>1, <2>2, <2>3, <2>4, Zenon DEF OneCopy
<1>10. Memory!Acquire(l)
  <2> DEFINE F == [u \in Task |-> FenceOf(u)]
  <2>1. /\ OldestFirst(readyList) # <<>>
        /\ Head(OldestFirst(readyList)) = v.id
        /\ Tail(OldestFirst(readyList)) = OldestFirst(readyList)'
    BY <1>1, <1>2, QueuePop, Zenon DEF v
  <2>2. \A u \in Task : FenceOf(u)' = IF u = v.id THEN l ELSE FenceOf(u)
    <3>1. DOMAIN processingHash = DOMAIN leaseHash /\ DOMAIN processingHash' = DOMAIN leaseHash'
      BY <1>1, <1>2, Zenon DEF KeysOK, HashesAgree
    <3> QED
      BY <1>3, <3>1, Zenon DEF FenceOf, HGetLease
  <2>3. F' = [F EXCEPT ![v.id] = l]
    <3>1. F' = [u \in Task |-> IF u = v.id THEN l ELSE FenceOf(u)]
      BY <2>2, Zenon
    <3>2. [F EXCEPT ![v.id] = l] = [u \in Task |-> IF u = v.id THEN l ELSE FenceOf(u)]
      BY Zenon
    <3> QED
      BY <3>1, <3>2, Zenon
  <2>4. [u \in Task |-> StoredAttempts(u)]' = [u \in Task |-> StoredAttempts(u)]
    BY <1>8, AttemptsSame, Zenon
  <2>5. Ids(Range(deadList))' = Ids(Range(deadList)) /\ Ids(finished)' = Ids(finished)
    BY <1>3, Zenon
  <2> HIDE DEF F
  <2> QED
    BY <2>1, <2>3, <2>4, <2>5, Zenon DEF Memory!Acquire, F
<1> QED
  BY <1>2, <1>9, <1>10, Zenon DEF RedisInv

(* The fields of MemoryQueue after a script that takes the entry of t out  *)
(* of processing.                                                          *)
LEMMA ClosedFence ==
  ASSUME KeysOK, NEW t \in DOMAIN processingHash, DropEntries({t})
  PROVE  /\ Memory!FenceMatches(t, HGetLease(t))
         /\ Memory!Release(t)
<1> DEFINE F == [u \in Task |-> FenceOf(u)]
<1>1. t \in Task
  BY Zenon DEF KeysOK, RedisTypeOK
<1>2. F[t] = HGetLease(t)
  BY <1>1, Zenon DEF FenceOf
<1>3. \A u \in Task : FenceOf(u)' = IF u = t THEN NoLease ELSE FenceOf(u)
  <2>1. \A u \in Task : FenceOf(u)' = IF u \in {t} THEN NoLease ELSE FenceOf(u)
    BY FenceDrop, Zenon
  <2> QED
    BY <2>1, Zenon
<1>4. F' = [F EXCEPT ![t] = NoLease]
  <2>1. F' = [u \in Task |-> IF u = t THEN NoLease ELSE FenceOf(u)]
    BY <1>3, Zenon
  <2>2. [F EXCEPT ![t] = NoLease] = [u \in Task |-> IF u = t THEN NoLease ELSE FenceOf(u)]
    BY Zenon
  <2> QED
    BY <2>1, <2>2, Zenon
<1> HIDE DEF F
<1> QED
  BY <1>2, <1>4, Zenon DEF Memory!FenceMatches, Memory!Release, F

(* A closing script moves the only copy of t, to the list or to one of the *)
(* two ends.                                                               *)
LEMMA MovedOnce ==
  ASSUME RedisInv, NEW t \in DOMAIN processingHash, DropEntries({t}),
         \A i, j \in DOMAIN readyList' : readyList'[i].id = readyList'[j].id => i = j,
         \/ ReadyIds' = ReadyIds \cup {t} /\ EndedIds' = EndedIds
         \/ ReadyIds' = ReadyIds /\ EndedIds' = EndedIds \cup {t},
         \A e, d \in Stored' : e.id = d.id => e = d
  PROVE  OneCopy'
<1>1. /\ ReadyIds \cap DOMAIN processingHash = {}
      /\ EndedIds \cap ReadyIds = {}
      /\ EndedIds \cap DOMAIN processingHash = {}
  BY Zenon DEF RedisInv, OneCopy
<1>2. DOMAIN processingHash' = DOMAIN processingHash \ {t}
  BY DropStep, Zenon DEF RedisInv
<1>3. ReadyIds' \cap DOMAIN processingHash' = {}
  BY <1>1, <1>2, Zenon
<1>4. EndedIds' \cap DOMAIN processingHash' = {}
  BY <1>1, <1>2, Zenon
<1>5. EndedIds' \cap ReadyIds' = {}
  BY <1>1, Zenon
<1> QED
  BY <1>3, <1>4, <1>5, Zenon DEF OneCopy

(* The complete script is Complete. *)
LEMMA StepComplete ==
  ASSUME RedisInv, NEW t \in Task, NEW l \in Lease, CompleteScript(t, l)
  PROVE  RedisInv' /\ Memory!Complete(t, l)
<1> DEFINE e == processingHash[t]
<1>1. /\ KeysOK /\ OneCopy /\ KeysOK'
      /\ t \in DOMAIN processingHash /\ HGetLease(t) = l /\ DropEntries({t})
  BY CloseStep, Zenon DEF RedisInv
<1>2. readyList' = readyList /\ deadList' = deadList /\ finished' = finished \cup {e}
  BY Zenon DEF CompleteScript
<1>3. e.id = t
  BY <1>1, ChargedType, Zenon
<1>4. Range(processingHash)' = Range(processingHash) \ {e} /\ e \in Range(processingHash)
  BY <1>1, DropRange, Zenon DEF Range
<1> HIDE DEF e
<1>5. Stored' = Stored
  BY <1>2, <1>4, Zenon DEF Stored
<1>6. /\ Ids(finished)' = Ids(finished) \cup {t}
      /\ ReadyIds' = ReadyIds /\ EndedIds' = EndedIds \cup {t}
  BY <1>2, <1>3, Zenon DEF ReadyIds, EndedIds, Ids
<1>7. OneCopy'
  <2>1. \A i, j \in DOMAIN readyList' : readyList'[i].id = readyList'[j].id => i = j
    BY <1>1, <1>2, Zenon DEF OneCopy
  <2>2. \A f, d \in Stored' : f.id = d.id => f = d
    BY <1>1, <1>5, Zenon DEF OneCopy
  <2> QED
    BY <1>1, <1>6, <2>1, <2>2, MovedOnce, Zenon
<1>8. Memory!Complete(t, l)
  <2>1. Memory!FenceMatches(t, l) /\ Memory!Release(t)
    BY <1>1, ClosedFence, Zenon
  <2>2. [u \in Task |-> StoredAttempts(u)]' = [u \in Task |-> StoredAttempts(u)]
    BY <1>5, AttemptsSame, Zenon
  <2>3. /\ OldestFirst(readyList)' = OldestFirst(readyList)
        /\ Ids(Range(deadList))' = Ids(Range(deadList))
    BY <1>2, Zenon
  <2> QED
    BY <1>6, <2>1, <2>2, <2>3, Zenon DEF Memory!Complete
<1> QED
  BY <1>1, <1>7, <1>8, Zenon DEF RedisInv

(* The value of t, charged: it takes the place of the old one among the    *)
(* stored values.                                                          *)
LEMMA ChargedStep ==
  ASSUME RedisInv, NEW t \in DOMAIN processingHash, DropEntries({t}),
         Range(readyList)' \cup Range(deadList)' \cup finished'
           = Range(readyList) \cup Range(deadList) \cup finished
               \cup {ChargedTask(processingHash[t])}
  PROVE  /\ \A f, d \in Stored' : f.id = d.id => f = d
         /\ OneCopy' => Memory!Charge(t)
<1> DEFINE e == processingHash[t]
           c == ChargedTask(e)
           A == [u \in Task |-> StoredAttempts(u)]
<1>1. KeysOK /\ OneCopy /\ t \in Task
  BY Zenon DEF RedisInv, KeysOK, RedisTypeOK
<1>2. e.id = t /\ c.id = t /\ c.attempts = e.attempts + 1
  BY <1>1, ChargedType, Zenon
<1>3. Range(processingHash)' = Range(processingHash) \ {e} /\ e \in Range(processingHash)
  BY <1>1, DropRange, Zenon DEF Range
<1> HIDE DEF c
<1>4. e \notin Range(readyList) \cup Range(deadList) \cup finished
  <2>1. t \notin ReadyIds /\ t \notin EndedIds
    BY <1>1, Zenon DEF OneCopy
  <2> QED
    BY <1>2, <2>1, Zenon DEF ReadyIds, EndedIds, Ids
<1>5. e \in Stored /\ Stored' = (Stored \ {e}) \cup {c}
  <2>1. Stored = (Range(readyList) \cup Range(deadList) \cup finished) \cup Range(processingHash)
    BY Zenon DEF Stored
  <2>2. Stored' = (Range(readyList)' \cup Range(deadList)' \cup finished')
                    \cup Range(processingHash)'
    BY Zenon DEF Stored
  <2>3. Range(readyList)' \cup Range(deadList)' \cup finished'
          = (Range(readyList) \cup Range(deadList) \cup finished) \cup {c}
    BY Zenon DEF c
  <2> QED
    BY <1>3, <1>4, <2>1, <2>2, <2>3, Zenon
<1> HIDE DEF e
<1>6. \A f, d \in Stored' : f.id = d.id => f = d
  <2>1. \A f \in Stored : f.id = t => f = e
    BY <1>1, <1>2, <1>5, Zenon DEF OneCopy
  <2>2. \A f \in Stored \ {e} : f.id # t
    BY <2>1, Zenon
  <2> QED
    BY <1>1, <1>2, <1>5, <2>2, Zenon DEF OneCopy
<1>7. ASSUME OneCopy' PROVE Memory!Charge(t)
  <2>1. \A u \in Task : StoredAttempts(u)' = IF u = t THEN StoredAttempts(u) + 1
                                                    ELSE StoredAttempts(u)
    BY <1>1, <1>2, <1>5, <1>7, AttemptsCharge, Zenon
  <2>2. A' = [u \in Task |-> IF u = t THEN StoredAttempts(u) + 1 ELSE StoredAttempts(u)]
    BY <2>1, Zenon
  <2>3. A[t] = StoredAttempts(t)
    BY <1>1, Zenon
  <2>4. [A EXCEPT ![t] = A[t] + 1]
          = [u \in Task |-> IF u = t THEN A[t] + 1 ELSE StoredAttempts(u)]
    BY Zenon
  <2>5. A' = [A EXCEPT ![t] = A[t] + 1]
    BY <2>2, <2>3, <2>4, Zenon
  <2> HIDE DEF A
  <2> QED
    BY <2>5, Zenon DEF Memory!Charge, A
<1> QED
  BY <1>6, <1>7, Zenon

(* The requeue script is Requeue. *)
LEMMA StepRequeue ==
  ASSUME RedisInv, NEW t \in Task, NEW l \in Lease, RequeueScript(t, l)
  PROVE  RedisInv' /\ Memory!Requeue(t, l)
<1> DEFINE c == ChargedTask(processingHash[t])
<1>1. /\ KeysOK /\ OneCopy /\ KeysOK' /\ readyList \in Seq(Encoded)
      /\ t \in DOMAIN processingHash /\ HGetLease(t) = l /\ DropEntries({t})
  BY CloseStep, Zenon DEF RedisInv, KeysOK, RedisTypeOK
<1>2. readyList' = LPush(readyList, c) /\ deadList' = deadList /\ finished' = finished
  BY Zenon DEF RequeueScript
<1>3. c.id = t /\ c \in Encoded
  BY <1>1, ChargedType, Zenon
<1> HIDE DEF c
<1>4. Range(readyList)' = Range(readyList) \cup {c}
  BY <1>1, <1>2, <1>3, PushRange
<1>5. ReadyIds' = ReadyIds \cup {t} /\ EndedIds' = EndedIds
  BY <1>2, <1>3, <1>4, Zenon DEF ReadyIds, EndedIds, Ids
<1>6. /\ \A f, d \in Stored' : f.id = d.id => f = d
      /\ OneCopy' => Memory!Charge(t)
  <2>1. Range(readyList)' \cup Range(deadList)' \cup finished'
          = Range(readyList) \cup Range(deadList) \cup finished \cup {ChargedTask(processingHash[t])}
    BY <1>2, <1>4, Zenon DEF c
  <2> QED
    BY <1>1, <2>1, ChargedStep, Zenon
<1>7. OneCopy'
  <2>1. t \notin ReadyIds
    BY <1>1, Zenon DEF OneCopy
  <2>2. \A i, j \in DOMAIN readyList' : readyList'[i].id = readyList'[j].id => i = j
    BY <1>1, <1>2, <1>3, <2>1, DistinctPush, Zenon DEF OneCopy, ReadyIds
  <2> QED
    BY <1>1, <1>5, <1>6, <2>2, MovedOnce, Zenon
<1>8. Memory!Requeue(t, l)
  <2>1. Memory!FenceMatches(t, l) /\ Memory!Release(t) /\ Memory!Charge(t)
    BY <1>1, <1>6, <1>7, ClosedFence, Zenon
  <2>2. OldestFirst(readyList)' = Append(OldestFirst(readyList), t)
    BY <1>1, <1>2, <1>3, QueuePush, Zenon
  <2>3. Ids(Range(deadList))' = Ids(Range(deadList)) /\ Ids(finished)' = Ids(finished)
    BY <1>2, Zenon
  <2> QED
    BY <2>1, <2>2, <2>3, Zenon DEF Memory!Requeue
<1> QED
  BY <1>1, <1>7, <1>8, Zenon DEF RedisInv

(* The dead-letter script is DeadLetter. *)
LEMMA StepDeadLetter ==
  ASSUME RedisInv, NEW t \in Task, NEW l \in Lease, DeadLetterScript(t, l)
  PROVE  RedisInv' /\ Memory!DeadLetter(t, l)
<1> DEFINE c == ChargedTask(processingHash[t])
<1>1. /\ KeysOK /\ OneCopy /\ KeysOK' /\ deadList \in Seq(Encoded)
      /\ t \in DOMAIN processingHash /\ HGetLease(t) = l /\ DropEntries({t})
  BY CloseStep, Zenon DEF RedisInv, KeysOK, RedisTypeOK
<1>2. deadList' = LPush(deadList, c) /\ readyList' = readyList /\ finished' = finished
  BY Zenon DEF DeadLetterScript
<1>3. c.id = t /\ c \in Encoded
  BY <1>1, ChargedType, Zenon
<1> HIDE DEF c
<1>4. Range(deadList)' = Range(deadList) \cup {c}
  BY <1>1, <1>2, <1>3, PushRange
<1>5. /\ ReadyIds' = ReadyIds /\ EndedIds' = EndedIds \cup {t}
      /\ Ids(Range(deadList))' = Ids(Range(deadList)) \cup {t}
  BY <1>2, <1>3, <1>4, Zenon DEF ReadyIds, EndedIds, Ids
<1>6. /\ \A f, d \in Stored' : f.id = d.id => f = d
      /\ OneCopy' => Memory!Charge(t)
  <2>1. Range(readyList)' \cup Range(deadList)' \cup finished'
          = Range(readyList) \cup Range(deadList) \cup finished \cup {ChargedTask(processingHash[t])}
    BY <1>2, <1>4, Zenon DEF c
  <2> QED
    BY <1>1, <2>1, ChargedStep, Zenon
<1>7. OneCopy'
  <2>1. \A i, j \in DOMAIN readyList' : readyList'[i].id = readyList'[j].id => i = j
    BY <1>1, <1>2, Zenon DEF OneCopy
  <2> QED
    BY <1>1, <1>5, <1>6, <2>1, MovedOnce, Zenon
<1>8. Memory!DeadLetter(t, l)
  <2>1. Memory!FenceMatches(t, l) /\ Memory!Release(t) /\ Memory!Charge(t)
    BY <1>1, <1>6, <1>7, ClosedFence, Zenon
  <2>2. OldestFirst(readyList)' = OldestFirst(readyList) /\ Ids(finished)' = Ids(finished)
    BY <1>2, Zenon
  <2> QED
    BY <1>5, <2>1, <2>2, Zenon DEF Memory!DeadLetter
<1> QED
  BY <1>1, <1>7, <1>8, Zenon DEF RedisInv

(* The entries the recovery script takes for orphans are MemoryQueue's. *)
LEMMA SameOrphans ==
  KeysOK => \A active : Memory!Orphans(active) = OrphanEntries(active)
<1> SUFFICES ASSUME KeysOK, NEW active
             PROVE  Memory!Orphans(active) = OrphanEntries(active)
  BY Zenon
<1>1. Memory!Held = DOMAIN processingHash
  BY MemoryReads, Zenon
<1>2. \A t \in DOMAIN processingHash :
        Memory!Fence(t) = [task |-> t, lease |-> HGetLease(t)]
  <2>1. \A t \in DOMAIN processingHash :
          t \in Task /\ [u \in Task |-> FenceOf(u)][t] = HGetLease(t)
    BY Zenon DEF KeysOK, RedisTypeOK, FenceOf
  <2> QED
    BY <2>1, Zenon DEF Memory!Fence
<1> QED
  BY <1>1, <1>2, Zenon DEF Memory!Orphans, OrphanEntries

(* The recovery script reports the lease IDs that MemoryQueue reports. *)
LEMMA SameAnswer == KeysOK => RecoveryAgrees
<1> SUFFICES ASSUME KeysOK, NEW active
             PROVE  MatchedLeases(active) = Memory!MatchedLeaseIDs(active)
  BY Zenon DEF RecoveryAgrees
<1>1. Memory!Orphans(active) = OrphanEntries(active) /\ Memory!Held = DOMAIN processingHash
  BY SameOrphans, MemoryReads, Zenon
<1>2. \A t \in DOMAIN processingHash : [u \in Task |-> FenceOf(u)][t] = HGetLease(t)
  BY Zenon DEF KeysOK, RedisTypeOK, FenceOf
<1> QED
  BY <1>1, <1>2, Zenon DEF MatchedLeases, Memory!MatchedLeaseIDs

(* A sequence that lists each member of a set once. *)
LEMMA AnOrdering ==
  ASSUME NEW S, NEW q \in [1 .. Cardinality(S) -> S],
         \A i, j \in 1 .. Cardinality(S) : q[i] = q[j] => i = j,
         \A x \in S : \E i \in 1 .. Cardinality(S) : q[i] = x
  PROVE  q \in Memory!Orderings(S)
<1>1. Memory!Cardinality(S) = Cardinality(S)
  BY Zenon DEF Memory!Cardinality, Cardinality
<1> QED
  BY <1>1, Zenon DEF Memory!Orderings

(* A listing pushed value by value is acquired in some order. *)
LEMMA PushedOrder ==
  ASSUME KeysOK, NEW S, S \subseteq DOMAIN processingHash, NEW order \in Listings(S),
         NEW pushed, pushed = [i \in DOMAIN order |-> processingHash[order[i]]]
  PROVE  OldestFirst(pushed) \in Memory!Orderings(S)
<1> DEFINE n == Cardinality(S)
           q == OldestFirst(pushed)
<1>1. /\ n \in Nat /\ order \in [1 .. n -> S]
      /\ \A x \in S : \E i \in 1 .. n : order[i] = x
      /\ \A i, j \in 1 .. n : order[i] = order[j] => i = j
  BY PushedFacts
<1>2. /\ pushed \in Seq(Encoded) /\ Len(pushed) = n
      /\ \A i \in 1 .. n : pushed[i].id = order[i]
  BY PushedFacts
<1>3. /\ q \in Seq(Task) /\ DOMAIN q = 1 .. n
      /\ \A i \in 1 .. n : q[i] = pushed[(n + 1) - i].id
  <2>1. /\ q \in Seq(Task) /\ DOMAIN q = 1 .. Len(pushed)
        /\ \A i \in 1 .. Len(pushed) : q[i] = pushed[(Len(pushed) + 1) - i].id
    <3>1. pushed \in Seq(Encoded)
      BY <1>2, Zenon
    <3> QED
      BY <3>1, QueueFacts, Zenon
  <2> QED
    BY <1>2, <2>1, Zenon
<1>4. \A i \in 1 .. n : (n + 1) - i \in 1 .. n /\ (n + 1) - ((n + 1) - i) = i
  BY <1>1, Intervals, Zenon
<1> HIDE DEF n, q
<1>5. ASSUME NEW i \in 1 .. n PROVE q[i] = order[(n + 1) - i]
  <2>1. (n + 1) - i \in 1 .. n
    BY <1>4, Zenon
  <2>2. q[i] = pushed[(n + 1) - i].id
    BY <1>3, Zenon
  <2>3. pushed[(n + 1) - i].id = order[(n + 1) - i]
    BY <1>2, <2>1, Zenon
  <2> QED
    BY <2>2, <2>3, Zenon
<1>6. q \in [1 .. n -> S]
  <2>1. \A i \in 1 .. n : q[i] \in S
    BY <1>1, <1>4, <1>5, Zenon
  <2>2. q = [i \in 1 .. n |-> q[i]]
    BY <1>3
  <2> QED
    BY <2>1, <2>2, Zenon
<1>7. ASSUME NEW i \in 1 .. n, NEW j \in 1 .. n, q[i] = q[j] PROVE i = j
  <2>1. order[(n + 1) - i] = order[(n + 1) - j]
    BY <1>5, <1>7, Zenon
  <2>2. (n + 1) - i \in 1 .. n /\ (n + 1) - j \in 1 .. n
    BY <1>4, Zenon
  <2>3. (n + 1) - i = (n + 1) - j
    BY <1>1, <2>1, <2>2, Zenon
  <2> QED
    BY <1>4, <2>3, Zenon
<1>8. ASSUME NEW x \in S PROVE \E i \in 1 .. n : q[i] = x
  <2>1. PICK i \in 1 .. n : order[i] = x
    BY <1>1, Zenon
  <2>2. (n + 1) - i \in 1 .. n /\ q[(n + 1) - i] = order[(n + 1) - ((n + 1) - i)]
    BY <1>4, <1>5, Zenon
  <2> QED
    BY <1>4, <2>1, <2>2, Zenon
<1> QED
  BY <1>6, <1>7, <1>8, AnOrdering, Zenon DEF n, q

(* What a list that LPUSH extends by several values holds. *)
LEMMA JoinFacts ==
  ASSUME NEW p \in Seq(Encoded), readyList \in Seq(Encoded), readyList' = p \o readyList
  PROVE  /\ Len(readyList) \in Nat /\ DOMAIN readyList = 1 .. Len(readyList)
         /\ DOMAIN readyList' = 1 .. (Len(p) + Len(readyList))
         /\ \A i \in 1 .. Len(p) : readyList'[i] = p[i]
         /\ \A i \in 1 .. Len(readyList) : readyList'[Len(p) + i] = readyList[i]
<1> DEFINE c == p \o readyList
<1>1. c \in Seq(Encoded) /\ Len(c) = Len(p) + Len(readyList) /\ Len(readyList) \in Nat
  OBVIOUS
<1>2. DOMAIN c = 1 .. (Len(p) + Len(readyList)) /\ DOMAIN readyList = 1 .. Len(readyList)
  OBVIOUS
<1>3. \A i \in 1 .. Len(p) : c[i] = p[i]
  OBVIOUS
<1>4. \A i \in 1 .. Len(readyList) : c[Len(p) + i] = readyList[i]
  OBVIOUS
<1> QED
  BY <1>1, <1>2, <1>3, <1>4, Zenon

(* The recovery script is RecoverOrphanedProcessing. *)
LEMMA StepRecover ==
  ASSUME RedisInv, NEW active, RecoverScript(active)
  PROVE  RedisInv' /\ Memory!RecoverOrphanedProcessing(active)
<1> DEFINE S == OrphanEntries(active)
<1>1. KeysOK /\ OneCopy /\ readyList \in Seq(Encoded)
  BY Zenon DEF RedisInv, KeysOK, RedisTypeOK
<1>2. S \subseteq DOMAIN processingHash
  BY Zenon DEF OrphanEntries
<1>3. PICK order \in Listings(S) :
        readyList' = [i \in DOMAIN order |-> processingHash[order[i]]] \o readyList
  BY Zenon DEF RecoverScript
<1>4. /\ KeysOK' /\ Stored' = Stored /\ DropEntries(S)
      /\ deadList' = deadList /\ finished' = finished
  BY <1>1, RecoverStep, Zenon DEF RecoverScript
<1> DEFINE pushed == [i \in DOMAIN order |-> processingHash[order[i]]]
<1>5. pushed = [i \in DOMAIN order |-> processingHash[order[i]]]
  OBVIOUS
<1>6. readyList' = pushed \o readyList
  BY <1>3, Zenon
<1> DEFINE n == Cardinality(S)
           m == Len(readyList)
<1> HIDE DEF S, pushed
<1>7. /\ n \in Nat /\ pushed \in Seq(Encoded) /\ Len(pushed) = n
      /\ \A i \in 1 .. n : order[i] \in S /\ pushed[i].id = order[i]
      /\ \A i, j \in 1 .. n : order[i] = order[j] => i = j
  <2>1. /\ n \in Nat
        /\ order \in [1 .. n -> S]
        /\ \A i, j \in 1 .. n : order[i] = order[j] => i = j
        /\ pushed \in Seq(Encoded) /\ Len(pushed) = n
        /\ \A i \in 1 .. n : pushed[i].id = order[i]
    <3>1. KeysOK
      BY <1>1, Zenon
    <3> QED
      BY <3>1, <1>2, <1>5, PushedFacts
  <2> HIDE DEF n
  <2>2. \A i \in 1 .. n : order[i] \in S
    BY <2>1, Zenon
  <2> QED
    BY <2>1, <2>2, Zenon
<1>8. Range(pushed) = { processingHash[x] : x \in S }
  BY <1>1, <1>2, <1>5, PushedFacts
<1>9. OldestFirst(pushed) \in Memory!Orderings(S)
  BY <1>1, <1>2, <1>5, PushedOrder
<1>10. /\ m \in Nat /\ DOMAIN readyList = 1 .. m /\ DOMAIN readyList' = 1 .. (n + m)
       /\ \A i \in 1 .. n : readyList'[i] = pushed[i]
       /\ \A i \in 1 .. m : readyList'[n + i] = readyList[i]
  <2>1. pushed \in Seq(Encoded) /\ readyList \in Seq(Encoded) /\ Len(pushed) = n
    BY <1>1, <1>7, Zenon
  <2>2. /\ m \in Nat /\ DOMAIN readyList = 1 .. m /\ DOMAIN readyList' = 1 .. (Len(pushed) + m)
        /\ \A i \in 1 .. Len(pushed) : readyList'[i] = pushed[i]
        /\ \A i \in 1 .. m : readyList'[Len(pushed) + i] = readyList[i]
    BY <1>6, <2>1, JoinFacts, Zenon
  <2> QED
    BY <2>1, <2>2, Zenon
<1> HIDE DEF n, m
<1>11. ReadyIds' = ReadyIds \cup S /\ EndedIds' = EndedIds
  <2>1. Range(readyList)' = Range(pushed) \cup Range(readyList)
    BY <1>1, <1>6, <1>7, JoinRange
  <2>2. Ids(Range(pushed)) = S
    <3>1. \A x \in S : processingHash[x].id = x
      BY <1>1, <1>2, Zenon DEF KeysOK, HashesAgree
    <3>2. ASSUME NEW x \in S PROVE x \in Ids(Range(pushed))
      <4>1. processingHash[x] \in Range(pushed) /\ processingHash[x].id = x
        BY <1>8, <3>1, Zenon
      <4> QED
        BY <4>1, Zenon DEF Ids
    <3>3. ASSUME NEW e \in Range(pushed) PROVE e.id \in S
      BY <1>8, <3>1, Zenon
    <3> QED
      BY <3>2, <3>3, Zenon DEF Ids
  <2>3. ReadyIds' = ReadyIds \cup Ids(Range(pushed))
    BY <2>1, Zenon DEF ReadyIds, Ids
  <2> QED
    BY <1>4, <2>2, <2>3, Zenon DEF EndedIds
<1>12. DOMAIN processingHash' = DOMAIN processingHash \ S
  BY <1>1, <1>4, DropStep, Zenon
<1>13. OneCopy'
  <2>1. ASSUME NEW i \in DOMAIN readyList' 
        PROVE  \/ i \in 1 .. n /\ readyList'[i].id = order[i] /\ order[i] \in S
               \/ /\ i \notin 1 .. n
                  /\ i - n \in 1 .. m /\ n + (i - n) = i
                  /\ readyList'[i].id = readyList[i - n].id
    <3>1. i \in 1 .. n \/ (i \notin 1 .. n /\ i - n \in 1 .. m /\ n + (i - n) = i)
      BY <1>7, <1>10
    <3> QED
      BY <1>7, <1>10, <3>1, Zenon
  <2>2. ASSUME NEW i \in 1 .. m PROVE readyList[i].id \notin S
    <3>1. readyList[i].id \in ReadyIds
      BY <1>10, Zenon DEF ReadyIds, Ids, Range
    <3> QED
      BY <1>1, <1>2, <3>1, Zenon DEF OneCopy
  <2>3. ASSUME NEW i \in DOMAIN readyList', NEW j \in DOMAIN readyList',
               readyList'[i].id = readyList'[j].id
        PROVE  i = j
    <3>1. CASE i \in 1 .. n /\ j \in 1 .. n
      <4>1. order[i] = order[j]
        BY <2>1, <2>3, <3>1
      <4> QED
        BY <1>7, <3>1, <4>1, Zenon
    <3>2. CASE i \notin 1 .. n /\ j \notin 1 .. n
      <4>1. /\ i - n \in 1 .. m /\ n + (i - n) = i
            /\ j - n \in 1 .. m /\ n + (j - n) = j
            /\ readyList[i - n].id = readyList[j - n].id
        BY <2>1, <2>3, <3>2
      <4>2. i - n = j - n
        BY <1>1, <1>10, <4>1, Zenon DEF OneCopy
      <4> QED
        BY <4>1, <4>2, Zenon
    <3>3. i \in 1 .. n <=> j \in 1 .. n
      BY <2>1, <2>2, <2>3
    <3> QED
      BY <3>1, <3>2, <3>3, Zenon
  <2>4. /\ ReadyIds' \cap DOMAIN processingHash' = {}
        /\ EndedIds' \cap ReadyIds' = {}
        /\ EndedIds' \cap DOMAIN processingHash' = {}
    BY <1>1, <1>2, <1>11, <1>12, Zenon DEF OneCopy
  <2>5. \A e, d \in Stored' : e.id = d.id => e = d
    BY <1>1, <1>4, Zenon DEF OneCopy
  <2> QED
    BY <2>3, <2>4, <2>5, Zenon DEF OneCopy
<1>14. Memory!RecoverOrphanedProcessing(active)
  <2> DEFINE F == [u \in Task |-> FenceOf(u)]
  <2>1. Memory!Orphans(active) = S
    BY <1>1, SameOrphans, Zenon DEF S
  <2>2. OldestFirst(readyList)' = OldestFirst(readyList) \o OldestFirst(pushed)
    BY <1>1, <1>6, <1>7, QueueConcat, Zenon
  <2>3. F' = [u \in Task |-> IF u \in S THEN NoLease ELSE F[u]]
    <3>1. \A u \in Task : FenceOf(u)' = IF u \in S THEN NoLease ELSE FenceOf(u)
      BY <1>1, <1>4, FenceDrop, Zenon
    <3> QED
      BY <3>1, Zenon
  <2>4. [u \in Task |-> StoredAttempts(u)]' = [u \in Task |-> StoredAttempts(u)]
    BY <1>4, AttemptsSame, Zenon
  <2>5. Ids(Range(deadList))' = Ids(Range(deadList)) /\ Ids(finished)' = Ids(finished)
    BY <1>4, Zenon
  <2> HIDE DEF F
  <2> QED
    BY <1>9, <2>1, <2>2, <2>3, <2>4, <2>5, Zenon DEF Memory!RecoverOrphanedProcessing, F
<1> QED
  BY <1>4, <1>13, <1>14, Zenon DEF RedisInv

-----------------------------------------------------------------------------
(* Theorems *)

(* The keys before the first command. *)
LEMMA RedisInitial == RedisInit => RedisInv /\ Memory!BackendInit
<1> SUFFICES ASSUME RedisInit PROVE RedisInv /\ Memory!BackendInit
  BY Zenon
<1>1. /\ readyList = <<>> /\ processingHash = <<>> /\ leaseHash = <<>>
      /\ deadList = <<>> /\ finished = {}
  BY Zenon DEF RedisInit
<1>2. /\ DOMAIN readyList = {} /\ DOMAIN processingHash = {} /\ DOMAIN leaseHash = {}
      /\ DOMAIN deadList = {} /\ readyList \in Seq(Encoded) /\ deadList \in Seq(Encoded)
  BY <1>1
<1>3. Range(readyList) = {} /\ Range(processingHash) = {} /\ Range(deadList) = {} /\ Stored = {}
  BY <1>1, <1>2, Zenon DEF Stored, Range
<1>4. RedisInv
  <2>1. KeysOK
    BY <1>1, <1>2, Zenon DEF KeysOK, RedisTypeOK, HashesAgree
  <2>2. OneCopy
    BY <1>1, <1>2, <1>3, Zenon DEF OneCopy, ReadyIds, EndedIds, Ids
  <2> QED
    BY <2>1, <2>2, Zenon DEF RedisInv
<1>5. OldestFirst(readyList) = <<>>
  BY <1>1 DEF OldestFirst
<1>6. [t \in Task |-> FenceOf(t)] = [t \in Task |-> NoLease]
  BY <1>2, Zenon DEF FenceOf
<1>7. [t \in Task |-> StoredAttempts(t)] = [t \in Task |-> 0]
  BY <1>3, Zenon DEF StoredAttempts, Ids
<1>8. Ids(Range(deadList)) = {} /\ Ids(finished) = {}
  BY <1>1, <1>3, Zenon DEF Ids
<1> QED
  BY <1>4, <1>5, <1>6, <1>7, <1>8, Zenon DEF Memory!BackendInit

(* Every script is a step of Backend, or changes nothing. *)
LEMMA RedisStep ==
  RedisInv /\ [RedisNext]_redisVars
    => RedisInv' /\ [Memory!BackendNext]_(Memory!backendVars)
<1> SUFFICES ASSUME RedisInv, [RedisNext]_redisVars
             PROVE  RedisInv' /\ [Memory!BackendNext]_(Memory!backendVars)
  BY Zenon
<1>1. CASE \E t \in Task : EnqueueTask(t)
  BY <1>1, StepPush, Zenon DEF Memory!BackendNext
<1>2. CASE \E l \in Lease : AcquireScript(l)
  BY <1>2, StepAcquire, Zenon DEF Memory!BackendNext
<1>3. CASE \E l \in Lease, t \in Task : CompleteScript(t, l)
  BY <1>3, StepComplete, Zenon DEF Memory!BackendNext
<1>4. CASE \E l \in Lease, t \in Task : RequeueScript(t, l)
  BY <1>4, StepRequeue, Zenon DEF Memory!BackendNext
<1>5. CASE \E l \in Lease, t \in Task : DeadLetterScript(t, l)
  BY <1>5, StepDeadLetter, Zenon DEF Memory!BackendNext
<1>6. CASE \E active \in SUBSET [task : Task, lease : Lease] : RecoverScript(active)
  BY <1>6, StepRecover, Zenon DEF Memory!BackendNext, Memory!Fences
<1>7. CASE UNCHANGED redisVars
  <2>1. /\ readyList' = readyList /\ processingHash' = processingHash /\ leaseHash' = leaseHash
        /\ deadList' = deadList /\ finished' = finished
    BY <1>7, Zenon DEF redisVars
  <2>2. Stored' = Stored
    BY <2>1, Zenon DEF Stored
  <2>3. RedisInv'
    BY <2>1, <2>2, Zenon DEF RedisInv, KeysOK, RedisTypeOK, HashesAgree, OneCopy, ReadyIds, EndedIds
  <2>4. [t \in Task |-> StoredAttempts(t)]' = [t \in Task |-> StoredAttempts(t)]
    BY <2>2, AttemptsSame, Zenon
  <2>5. [t \in Task |-> FenceOf(t)]' = [t \in Task |-> FenceOf(t)]
    BY <2>1, Zenon DEF FenceOf, HGetLease
  <2>6. /\ OldestFirst(readyList)' = OldestFirst(readyList)
        /\ Ids(Range(deadList))' = Ids(Range(deadList)) /\ Ids(finished)' = Ids(finished)
    BY <2>1, Zenon
  <2> QED
    BY <2>3, <2>4, <2>5, <2>6, Zenon DEF Memory!backendVars
<1> QED
  BY <1>1, <1>2, <1>3, <1>4, <1>5, <1>6, <1>7, Zenon DEF RedisNext

(* Of every task there is one value in one place, whatever scripts run. *)
THEOREM RedisInvariant == RedisSpec => []RedisInv
<1>1. RedisInit => RedisInv
  BY RedisInitial
<1>2. RedisInv /\ [RedisNext]_redisVars => RedisInv'
  BY RedisStep
<1> QED
  BY <1>1, <1>2, PTL DEF RedisSpec

(* The keys hold encoded tasks and lease IDs, and nothing else. *)
THEOREM KeysAreTyped == RedisSpec => []RedisTypeOK
<1>1. RedisInv => RedisTypeOK
  BY Zenon DEF RedisInv, KeysOK
<1> QED
  BY <1>1, RedisInvariant, PTL

(* The two hashes of processing storage list the same tasks. *)
THEOREM HashesAgreeInOrder == RedisSpec => []HashesAgree
<1>1. RedisInv => HashesAgree
  BY Zenon DEF RedisInv, KeysOK
<1> QED
  BY <1>1, RedisInvariant, PTL

(* RecoverOrphanedProcessing answers with the same lease IDs on Redis as   *)
(* in memory, for every set of leases that a journal could hold.           *)
THEOREM RecoveryIsTheSame == RedisSpec => []RecoveryAgrees
<1>1. RedisInv => RecoveryAgrees
  BY SameAnswer, Zenon DEF RedisInv
<1> QED
  BY <1>1, RedisInvariant, PTL

(* RedisQueue implements the backend that MemoryQueue defines: its scripts *)
(* give the same order of tasks, the same fences and the same attempts.    *)
THEOREM RedisIsABackend == RedisSpec => ImplementsBackend
<1>1. RedisInit => Memory!BackendInit
  BY RedisInitial
<1>2. RedisInv /\ [RedisNext]_redisVars => [Memory!BackendNext]_(Memory!backendVars)
  BY RedisStep
<1> QED
  BY <1>1, <1>2, RedisInvariant, PTL DEF RedisSpec, ImplementsBackend, Memory!BackendSpec

=============================================================================
