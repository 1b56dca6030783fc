---------------------------- MODULE RetryProofs ----------------------------
(***************************************************************************)
(* Proofs about the Redis scripts behind a client that repeats commands:   *)
(* for any number of tasks, leases, retries, late commands and restarts.   *)
(*                                                                         *)
(* A script does to the keys what RedisProofs says, whenever it runs and   *)
(* for whom (RunStep).  What it means for the leases of the engine depends *)
(* on the copies a repeated Enqueue has made (CopiesOK) and on what the    *)
(* client knew when it issued the command (ClientInv).                     *)
(***************************************************************************)
EXTENDS RedisRetry, RedisProofs

CountsOK ==
  /\ claims \in [Task -> Nat]
  /\ closes \in [Task -> Nat]
  /\ pushes \in [Task -> Nat]
  /\ ClosedOncePerClaim

(* A command has the arguments its script needs. *)
CommandOK(c, leases) ==
  /\ c.op = "enqueue" => c.task \in Task
  /\ c.op = "acquire" => c.lease \in leases

(* Tasks that no Enqueue has pushed are nowhere, and one that was pushed   *)
(* once has one copy among the ready tasks and the ones in processing.     *)
ReadyOnce(t) ==
  \A i, j \in DOMAIN readyList : readyList[i].id = t /\ readyList[j].id = t => i = j

CopiesOK ==
  \A t \in Task :
    /\ pushes[t] = 0 => t \notin ReadyIds \cup DOMAIN processingHash
    /\ pushes[t] <= 1 => ReadyOnce(t) /\ t \notin ReadyIds \cap DOMAIN processingHash

(* What the keys, the counters and the commands have to do with each       *)
(* other, whatever the client does.                                        *)
ServerInv ==
  /\ KeysOK
  /\ CountsOK
  /\ CopiesOK
  /\ used \subseteq Lease
  /\ \A c \in late \cup {call} : CommandOK(c, used)
  /\ NothingLost

(* What the client knows.  The leases a recovery offers are the engine's,  *)
(* from the moment it is issued until it is answered.                      *)
ClientInv ==
  /\ RetryTypeOK
  /\ IsFiniteSet(late)
  /\ call.op = "recover" =>
       granted \subseteq call.active /\ call.active \subseteq [task : Task, lease : used]

(* The inductive invariant. *)
RetryInv == ServerInv /\ ClientInv

-----------------------------------------------------------------------------
(* Counters *)

(* The counters when a claim begins, ends, or is taken back. *)
LEMMA CountsStep ==
  ASSUME CountsOK, pushes' \in [Task -> Nat],
         \/ \E t \in Task :
              /\ DOMAIN processingHash' = DOMAIN processingHash \cup {t}
              /\ claims' = Increment(claims, t) /\ closes' = closes
         \/ \E t \in Task :
              /\ t \in DOMAIN processingHash
              /\ DOMAIN processingHash' = DOMAIN processingHash \ {t}
              /\ closes' = Increment(closes, t) /\ claims' = claims
         \/ /\ DOMAIN processingHash' \subseteq DOMAIN processingHash
            /\ UNCHANGED <<claims, closes>>
  PROVE  CountsOK'
<1>1. CASE \E t \in Task : /\ DOMAIN processingHash' = DOMAIN processingHash \cup {t}
                           /\ claims' = Increment(claims, t) /\ closes' = closes
  BY <1>1 DEF CountsOK, ClosedOncePerClaim, Increment
<1>2. CASE \E t \in Task : /\ t \in DOMAIN processingHash
                           /\ DOMAIN processingHash' = DOMAIN processingHash \ {t}
                           /\ closes' = Increment(closes, t) /\ claims' = claims
  BY <1>2 DEF CountsOK, ClosedOncePerClaim, Increment
<1>3. CASE /\ DOMAIN processingHash' \subseteq DOMAIN processingHash
           /\ UNCHANGED <<claims, closes>>
  BY <1>3 DEF CountsOK, ClosedOncePerClaim
<1> QED
  BY <1>1, <1>2, <1>3, Zenon

(* The IDs that are ready, for a list that holds encoded tasks. *)
LEMMA ReadyIdsAt ==
  ASSUME NEW t
  PROVE  t \in ReadyIds <=> \E i \in DOMAIN readyList : readyList[i].id = t
BY Zenon DEF ReadyIds, Ids, Range

(* Steps in which no task gains a copy: one copy at most stays one. *)
LEMMA CopiesKept ==
  ASSUME CopiesOK, pushes' = pushes,
         \A t \in Task : ReadyOnce(t) /\ t \notin ReadyIds \cap DOMAIN processingHash
           => ReadyOnce(t)' /\ t \notin ReadyIds' \cap DOMAIN processingHash',
         ReadyIds' \cup DOMAIN processingHash' \subseteq ReadyIds \cup DOMAIN processingHash
  PROVE  CopiesOK'
BY Zenon DEF CopiesOK

-----------------------------------------------------------------------------
(* What each command does to the copies *)

(* LPUSH of a first copy leaves one copy. *)
LEMMA PushCopies ==
  ASSUME KeysOK, CountsOK, CopiesOK, NEW t \in Task, PushTask(t), pushes' = Increment(pushes, t)
  PROVE  CopiesOK'
<1> DEFINE v == [id |-> t, attempts |-> 0]
           n == Len(readyList)
<1>1. v \in Encoded /\ v.id = t /\ readyList \in Seq(Encoded)
      /\ readyList' = LPush(readyList, v) /\ processingHash' = processingHash
  BY DEF Encoded, PushTask, KeysOK, RedisTypeOK
<1> HIDE DEF v
<1>2. /\ Len(readyList) \in Nat /\ DOMAIN readyList = 1 .. Len(readyList)
      /\ DOMAIN LPush(readyList, v) = 1 .. (Len(readyList) + 1)
      /\ LPush(readyList, v)[1] = v
      /\ \A i \in 1 .. Len(readyList) : LPush(readyList, v)[i + 1] = readyList[i]
  <2>1. v \in Encoded /\ readyList \in Seq(Encoded)
    BY <1>1, Zenon
  <2> QED
    BY <2>1, PushFacts
<1>3. /\ n \in Nat /\ DOMAIN readyList = 1 .. n /\ DOMAIN readyList' = 1 .. (n + 1)
      /\ readyList'[1] = v /\ \A i \in 1 .. n : readyList'[i + 1] = readyList[i]
  BY <1>1, <1>2, Zenon
<1> HIDE DEF n
<1>4. \A i \in 1 .. (n + 1) : i = 1 \/ (i - 1 \in 1 .. n /\ (i - 1) + 1 = i)
  BY <1>3, Intervals, Zenon
<1>5. \A i \in DOMAIN readyList' :
        i = 1 \/ (i - 1 \in DOMAIN readyList /\ (i - 1) + 1 = i /\ readyList'[i] = readyList[i - 1])
  BY <1>3, <1>4, Zenon
<1>6. ASSUME NEW u \in Task, u # t PROVE /\ pushes'[u] = pushes[u]
                                         /\ u \in ReadyIds' => u \in ReadyIds
                                         /\ ReadyOnce(u) => ReadyOnce(u)'
  <2>1. pushes'[u] = pushes[u]
    BY <1>6, Zenon DEF CountsOK, Increment
  <2>2. \A i \in DOMAIN readyList' : readyList'[i].id = u
          => i - 1 \in DOMAIN readyList /\ (i - 1) + 1 = i /\ readyList[i - 1].id = u
    BY <1>1, <1>3, <1>5, <1>6, Zenon
  <2>3. u \in ReadyIds' => u \in ReadyIds
    <3>1. ASSUME u \in ReadyIds' PROVE \E i \in DOMAIN readyList' : readyList'[i].id = u
      BY <3>1, Zenon DEF ReadyIds, Ids, Range
    <3> QED
      BY <2>2, <3>1, ReadyIdsAt, Zenon
  <2>4. ASSUME ReadyOnce(u), NEW i \in DOMAIN readyList', NEW j \in DOMAIN readyList',
               readyList'[i].id = u, readyList'[j].id = u
        PROVE  i = j
    <3>1. i - 1 = j - 1 /\ (i - 1) + 1 = i /\ (j - 1) + 1 = j
      BY <2>2, <2>4, Zenon DEF ReadyOnce
    <3> QED
      BY <3>1, Zenon
  <2> QED
    BY <2>1, <2>3, <2>4, Zenon DEF ReadyOnce
<1>7. pushes'[t] = pushes[t] + 1 /\ pushes[t] \in Nat
  BY DEF CountsOK, Increment
<1>8. pushes'[t] # 0 /\ (pushes'[t] <= 1 => pushes[t] = 0)
  BY <1>7
<1>9. ASSUME pushes[t] = 0 PROVE ReadyOnce(t)' /\ t \notin DOMAIN processingHash
  <2>1. t \notin ReadyIds /\ t \notin DOMAIN processingHash
    BY <1>9, Zenon DEF CopiesOK
  <2>2. \A i \in DOMAIN readyList : readyList[i].id # t
    BY <2>1, ReadyIdsAt, Zenon
  <2>3. \A i \in DOMAIN readyList' : readyList'[i].id = t => i = 1
    BY <1>5, <2>2, Zenon
  <2> QED
    BY <2>1, <2>3, Zenon DEF ReadyOnce
<1>10. ASSUME NEW u \in Task
       PROVE  /\ pushes'[u] = 0 => u \notin ReadyIds' \cup DOMAIN processingHash'
              /\ pushes'[u] <= 1 => ReadyOnce(u)' /\ u \notin ReadyIds' \cap DOMAIN processingHash'
  <2>1. CASE u = t
    BY <1>1, <1>8, <1>9, <2>1, Zenon
  <2>2. CASE u # t
    BY <1>1, <1>6, <2>2, Zenon DEF CopiesOK
  <2> QED
    BY <2>1, <2>2, Zenon
<1> QED
  BY <1>10, Zenon DEF CopiesOK

(* A claim moves one copy. *)
LEMMA AcquireCopies ==
  ASSUME KeysOK, CopiesOK, NEW l \in Lease, AcquireScript(l), pushes' = pushes
  PROVE  CopiesOK'
<1> DEFINE e == RightEnd(readyList)
           n == Len(readyList)
<1>1. /\ readyList # <<>> /\ readyList' = RPop(readyList) /\ e.id \in Task
      /\ DOMAIN processingHash' = DOMAIN processingHash \cup {e.id}
  BY AcquireStep, Zenon
<1>2. readyList \in Seq(Encoded)
  BY Zenon DEF KeysOK, RedisTypeOK
<1>3. /\ Len(readyList) \in Nat /\ Len(readyList) >= 1 /\ DOMAIN readyList = 1 .. Len(readyList)
      /\ DOMAIN RPop(readyList) = 1 .. (Len(readyList) - 1)
      /\ \A i \in 1 .. (Len(readyList) - 1) : RPop(readyList)[i] = readyList[i]
      /\ RightEnd(readyList) = readyList[Len(readyList)]
  <2>1. readyList \in Seq(Encoded) /\ readyList # <<>>
    BY <1>1, <1>2, Zenon
  <2> QED
    BY <2>1, PopFacts, Zenon
<1>4. /\ n \in Nat /\ n >= 1 /\ DOMAIN readyList = 1 .. n /\ DOMAIN readyList' = 1 .. (n - 1)
      /\ \A i \in 1 .. (n - 1) : readyList'[i] = readyList[i]
      /\ e = readyList[n]
  BY <1>1, <1>3, Zenon
<1> HIDE DEF e, n
<1>5. n \in DOMAIN readyList /\ \A i \in 1 .. (n - 1) : i \in DOMAIN readyList /\ i # n
  <2>1. n \in 1 .. n /\ \A i \in 1 .. (n - 1) : i \in 1 .. n /\ i # n
    BY <1>4
  <2> QED
    BY <1>4, <2>1, Zenon
<1>6. \A i \in DOMAIN readyList' :
        i \in DOMAIN readyList /\ i # n /\ readyList'[i] = readyList[i]
  BY <1>4, <1>5, Zenon
<1>7. e.id \in ReadyIds /\ ReadyIds' \subseteq ReadyIds
  <2>1. e.id \in ReadyIds
    BY <1>4, <1>5, ReadyIdsAt, Zenon
  <2>2. ASSUME NEW u \in ReadyIds' PROVE u \in ReadyIds
    <3>1. \E i \in DOMAIN readyList' : readyList'[i].id = u
      BY <2>2, Zenon DEF ReadyIds, Ids, Range
    <3> QED
      BY <1>6, <3>1, ReadyIdsAt, Zenon
  <2> QED
    BY <2>1, <2>2, Zenon
<1>8. ASSUME NEW t \in Task, ReadyOnce(t), t \notin ReadyIds \cap DOMAIN processingHash
      PROVE  ReadyOnce(t)' /\ t \notin ReadyIds' \cap DOMAIN processingHash'
  <2>1. ReadyOnce(t)'
    BY <1>6, <1>8, Zenon DEF ReadyOnce
  <2>2. ASSUME t = e.id PROVE t \notin ReadyIds'
    <3>1. SUFFICES ASSUME t \in ReadyIds' PROVE FALSE
      BY Zenon
    <3>2. PICK i \in DOMAIN readyList' : readyList'[i].id = t
      BY <3>1, Zenon DEF ReadyIds, Ids, Range
    <3>3. i \in DOMAIN readyList /\ i # n /\ readyList[i].id = t
      BY <1>6, <3>2, Zenon
    <3> QED
      BY <1>4, <1>5, <1>8, <2>2, <3>3, Zenon DEF ReadyOnce
  <2> QED
    BY <1>1, <1>7, <1>8, <2>1, <2>2, Zenon DEF e
<1>9. ReadyIds' \cup DOMAIN processingHash' \subseteq ReadyIds \cup DOMAIN processingHash
  BY <1>1, <1>7, Zenon DEF e
<1> QED
  BY <1>8, <1>9, CopiesKept, Zenon

(* Entries that leave the processing hash, each to the ready list or to    *)
(* the end, take their copy with them.                                     *)
LEMMA MovedCopies ==
  ASSUME KeysOK, CopiesOK, pushes' = pushes,
         NEW S \in SUBSET DOMAIN processingHash, DropEntries(S),
         NEW p \in Seq(Encoded), readyList' = p \o readyList,
         \A i \in 1 .. Len(p) : p[i].id \in S,
         \A i, j \in 1 .. Len(p) : p[i].id = p[j].id => i = j
  PROVE  CopiesOK'
<1> DEFINE k == Len(p)
           m == Len(readyList)
<1>1. readyList \in Seq(Encoded)
  BY Zenon DEF KeysOK, RedisTypeOK
<1>2. /\ m \in Nat /\ DOMAIN readyList = 1 .. m /\ DOMAIN readyList' = 1 .. (k + m)
      /\ \A i \in 1 .. k : readyList'[i] = p[i]
      /\ \A i \in 1 .. m : readyList'[k + i] = readyList[i]
  BY <1>1, JoinFacts, Zenon
<1>3. k \in Nat
  OBVIOUS
<1>4. DOMAIN processingHash' = DOMAIN processingHash \ S
  BY DropStep, Zenon
<1> HIDE DEF k, m
<1>5. \A i \in 1 .. (k + m) : i \in 1 .. k \/ (i - k \in 1 .. m /\ k + (i - k) = i)
  BY <1>2, <1>3
<1>6. \A i \in DOMAIN readyList' :
        \/ i \in 1 .. k /\ readyList'[i].id \in S /\ readyList'[i] = p[i]
        \/ i - k \in DOMAIN readyList /\ k + (i - k) = i /\ readyList'[i] = readyList[i - k]
  <2>1. ASSUME NEW i \in 1 .. k PROVE readyList'[i].id \in S /\ readyList'[i] = p[i]
    BY <1>2, <2>1, Zenon DEF k
  <2>2. ASSUME NEW i, i - k \in 1 .. m, k + (i - k) = i PROVE readyList'[i] = readyList[i - k]
    BY <1>2, <2>2, Zenon
  <2> QED
    BY <1>2, <1>5, <2>1, <2>2, Zenon
<1>7. ASSUME NEW t \in ReadyIds' PROVE t \in ReadyIds \/ t \in S
  <2>1. \E i \in DOMAIN readyList' : readyList'[i].id = t
    BY <1>7, Zenon DEF ReadyIds, Ids, Range
  <2> QED
    BY <1>6, <2>1, ReadyIdsAt, Zenon
<1>8. ASSUME NEW t \in Task, ReadyOnce(t), t \notin ReadyIds \cap DOMAIN processingHash
      PROVE  ReadyOnce(t)' /\ t \notin ReadyIds' \cap DOMAIN processingHash'
  <2>1. CASE t \in S
    <3>1. t \notin ReadyIds
      BY <1>8, <2>1, Zenon
    <3>2. \A i \in DOMAIN readyList : readyList[i].id # t
      BY <3>1, ReadyIdsAt, Zenon
    <3>3. \A i \in DOMAIN readyList' : readyList'[i].id = t => i \in 1 .. k /\ p[i].id = t
      BY <1>6, <3>2, Zenon
    <3>4. ASSUME NEW i \in DOMAIN readyList', NEW j \in DOMAIN readyList',
                 readyList'[i].id = t, readyList'[j].id = t
          PROVE  i = j
      <4>1. i \in 1 .. k /\ j \in 1 .. k /\ p[i].id = p[j].id
        BY <3>3, <3>4, Zenon
      <4> QED
        BY <4>1, Zenon DEF k
    <3>5. ReadyOnce(t)'
      BY <3>4, Zenon DEF ReadyOnce
    <3> QED
      BY <1>4, <2>1, <3>5, Zenon
  <2>2. CASE t \notin S
    <3>1. \A i \in DOMAIN readyList' : readyList'[i].id = t
            => i - k \in DOMAIN readyList /\ k + (i - k) = i /\ readyList[i - k].id = t
      BY <1>6, <2>2, Zenon
    <3>2. ASSUME NEW i \in DOMAIN readyList', NEW j \in DOMAIN readyList',
                 readyList'[i].id = t, readyList'[j].id = t
          PROVE  i = j
      <4>1. i - k = j - k /\ k + (i - k) = i /\ k + (j - k) = j
        BY <1>8, <3>1, <3>2, Zenon DEF ReadyOnce
      <4> QED
        BY <4>1, Zenon
    <3>3. ReadyOnce(t)'
      BY <3>2, Zenon DEF ReadyOnce
    <3> QED
      BY <1>4, <1>7, <1>8, <2>2, <3>3, Zenon
  <2> QED
    BY <2>1, <2>2, Zenon
<1>9. ReadyIds' \cup DOMAIN processingHash' \subseteq ReadyIds \cup DOMAIN processingHash
  BY <1>4, <1>7, Zenon
<1> QED
  BY <1>8, <1>9, CopiesKept, Zenon

(* A closing script moves one copy, or ends it. *)
LEMMA CloseCopies ==
  ASSUME KeysOK, CopiesOK, NEW t, NEW l, pushes' = pushes,
         CompleteScript(t, l) \/ RequeueScript(t, l) \/ DeadLetterScript(t, l)
  PROVE  CopiesOK'
<1>1. t \in DOMAIN processingHash /\ DropEntries({t})
  BY CloseStep, Zenon
<1>2. readyList \in Seq(Encoded) /\ {t} \in SUBSET DOMAIN processingHash
  BY <1>1, Zenon DEF KeysOK, RedisTypeOK
<1>3. CASE RequeueScript(t, l)
  <2> DEFINE v == ChargedTask(processingHash[t])
  <2>1. v \in Encoded /\ v.id = t
    BY <1>1, ChargedType, Zenon
  <2>2. readyList' = <<v>> \o readyList
    BY <1>3, Zenon DEF RequeueScript, LPush
  <2> HIDE DEF v
  <2>3. /\ <<v>> \in Seq(Encoded)
        /\ \A i \in 1 .. Len(<<v>>) : <<v>>[i] = v
        /\ \A i, j \in 1 .. Len(<<v>>) : i = j
    BY <2>1
  <2>4. \A i \in 1 .. Len(<<v>>) : <<v>>[i].id \in {t}
    BY <2>1, <2>3, Zenon
  <2> QED
    BY <1>1, <1>2, <2>2, <2>3, <2>4, MovedCopies, Zenon
<1>4. CASE CompleteScript(t, l) \/ DeadLetterScript(t, l)
  <2>1. readyList' = readyList
    BY <1>4, Zenon DEF CompleteScript, DeadLetterScript
  <2>2. /\ <<>> \in Seq(Encoded) /\ <<>> \o readyList = readyList
        /\ \A i \in 1 .. Len(<<>>) : FALSE
    BY <1>2
  <2>3. readyList' = <<>> \o readyList
    BY <2>1, <2>2, Zenon
  <2> QED
    BY <1>1, <1>2, <2>2, <2>3, MovedCopies, Zenon
<1> QED
  BY <1>3, <1>4, Zenon

(* The recovery script moves the copies of the orphans. *)
LEMMA RecoverCopies ==
  ASSUME KeysOK, CopiesOK, NEW active, RecoverScript(active), pushes' = pushes
  PROVE  CopiesOK'
<1> DEFINE S == OrphanEntries(active)
<1>1. S \subseteq DOMAIN processingHash /\ S \in SUBSET DOMAIN processingHash
  BY Zenon DEF OrphanEntries
<1>2. PICK order \in Listings(S) :
        readyList' = [i \in DOMAIN order |-> processingHash[order[i]]] \o readyList
  BY Zenon DEF RecoverScript
<1>3. DropEntries(S)
  BY RecoverStep, Zenon
<1> DEFINE pushed == [i \in DOMAIN order |-> processingHash[order[i]]]
           n == Cardinality(S)
<1>4. pushed = [i \in DOMAIN order |-> processingHash[order[i]]]
  OBVIOUS
<1>5. readyList' = pushed \o readyList
  BY <1>2, Zenon
<1> HIDE DEF S, pushed
<1>6. /\ order \in [1 .. n -> S]
      /\ \A i, j \in 1 .. n : order[i] = order[j] => i = j
      /\ pushed \in Seq(Encoded) /\ Len(pushed) = n
      /\ \A i \in 1 .. n : pushed[i].id = order[i]
  BY <1>1, <1>4, PushedFacts
<1> HIDE DEF n
<1>7. /\ \A i \in 1 .. Len(pushed) : pushed[i].id \in S
      /\ \A i, j \in 1 .. Len(pushed) : pushed[i].id = pushed[j].id => i = j
  <2>1. \A i \in 1 .. n : order[i] \in S
    BY <1>6, Zenon
  <2>2. \A i \in 1 .. n : pushed[i].id \in S
    BY <1>6, <2>1, Zenon
  <2>3. ASSUME NEW i \in 1 .. n, NEW j \in 1 .. n, pushed[i].id = pushed[j].id PROVE i = j
    <3>1. pushed[i].id = order[i] /\ pushed[j].id = order[j]
      BY <1>6, Zenon
    <3>2. order[i] = order[j]
      BY <2>3, <3>1, Zenon
    <3> QED
      BY <1>6, <3>2, Zenon
  <2>4. Len(pushed) = n
    BY <1>6, Zenon
  <2> QED
    BY <2>2, <2>3, <2>4
<1> QED
  BY <1>1, <1>3, <1>5, <1>6, <1>7, MovedCopies, Zenon

-----------------------------------------------------------------------------
(* A command that the server runs, the first time or again, in time or     *)
(* late.                                                                   *)
LEMMA RunStep ==
  ASSUME KeysOK, CountsOK, CopiesOK, NEW c, CommandOK(c, Lease), Run(c)
  PROVE  /\ KeysOK'
         /\ CountsOK'
         /\ CopiesOK'
         /\ Ids(Stored) \subseteq Ids(Stored)'
         /\ c.op = "enqueue" => c.task \in Ids(Stored)'
<1>1. ASSUME UNCHANGED redisVars, UNCHANGED counts
      PROVE  KeysOK' /\ CountsOK' /\ CopiesOK' /\ Ids(Stored) \subseteq Ids(Stored)'
  <2>1. /\ readyList' = readyList /\ processingHash' = processingHash /\ leaseHash' = leaseHash
        /\ deadList' = deadList /\ finished' = finished
        /\ claims' = claims /\ closes' = closes /\ pushes' = pushes
    BY <1>1, Zenon DEF redisVars, counts
  <2>2. KeysOK' /\ Stored' = Stored /\ ReadyIds' = ReadyIds
    BY <2>1, Zenon DEF KeysOK, RedisTypeOK, HashesAgree, Stored, ReadyIds
  <2>3. CountsOK'
    BY <2>1, Zenon DEF CountsOK, ClosedOncePerClaim
  <2>4. CopiesOK'
    BY <2>1, <2>2, Zenon DEF CopiesOK, ReadyOnce
  <2>5. Ids(Stored)' = Ids(Stored)
    BY <2>2, Zenon DEF Ids
  <2> QED
    BY <2>2, <2>3, <2>4, <2>5, Zenon
<1>2. CASE /\ c.op = "enqueue" /\ PushTask(c.task)
           /\ pushes' = Increment(pushes, c.task) /\ UNCHANGED <<claims, closes>>
  <2> DEFINE v == [id |-> c.task, attempts |-> 0]
  <2>1. c.task \in Task /\ processingHash' = processingHash /\ v.id = c.task
    BY <1>2 DEF PushTask, CommandOK
  <2>2. KeysOK' /\ Stored' = Stored \cup {v}
    BY <1>2, <2>1, PushStep, Zenon
  <2>3. CopiesOK'
    BY <1>2, <2>1, PushCopies, Zenon
  <2>4. pushes' \in [Task -> Nat]
    BY <1>2, <2>1 DEF CountsOK, Increment
  <2>5. CountsOK'
    BY <1>2, <2>1, <2>4, CountsStep, Zenon
  <2> HIDE DEF v
  <2>6. Ids(Stored) \subseteq Ids(Stored)' /\ c.task \in Ids(Stored)'
    BY <2>1, <2>2, Zenon DEF Ids
  <2> QED
    BY <2>2, <2>3, <2>5, <2>6, Zenon
<1>3. CASE RunAcquire(c)
  <2>1. c.op = "acquire" /\ closes' = closes /\ pushes' = pushes /\ c.op # "enqueue"
    BY <1>3 DEF RunAcquire
  <2>2. CASE AcquireScript(c.lease) /\ claims' = Increment(claims, RightEnd(readyList).id)
    <3>1. c.lease \in Lease
      BY <2>1, Zenon DEF CommandOK
    <3>2. /\ KeysOK' /\ RightEnd(readyList).id \in Task
          /\ DOMAIN processingHash' = DOMAIN processingHash \cup {RightEnd(readyList).id}
      BY <2>2, <3>1, AcquireStep, Zenon
    <3>3. Ids(Stored) \subseteq Ids(Stored)'
      BY <2>2, <3>1, AcquireKeepsIds, Zenon
    <3>4. CopiesOK'
      BY <2>1, <2>2, <3>1, AcquireCopies, Zenon
    <3>5. pushes' \in [Task -> Nat]
      BY <2>1, Zenon DEF CountsOK
    <3>6. CountsOK'
      BY <2>1, <2>2, <3>2, <3>5, CountsStep, Zenon
    <3> QED
      BY <2>1, <3>2, <3>3, <3>4, <3>6, Zenon
  <2>3. CASE UNCHANGED <<redisVars, claims>>
    <3>1. UNCHANGED redisVars /\ UNCHANGED counts
      BY <2>1, <2>3, Zenon DEF counts
    <3> QED
      BY <1>1, <2>1, <3>1, Zenon
  <2> QED
    BY <1>3, <2>2, <2>3, Zenon DEF RunAcquire
<1>4. CASE RunClosing(c)
  <2>1. c.op # "enqueue" /\ claims' = claims /\ pushes' = pushes
    BY <1>4 DEF RunClosing, Closing
  <2>2. CASE /\ \/ CompleteScript(c.task, c.lease)
                \/ RequeueScript(c.task, c.lease)
                \/ DeadLetterScript(c.task, c.lease)
             /\ closes' = Increment(closes, c.task)
    <3>1. KeysOK' /\ c.task \in DOMAIN processingHash /\ DropEntries({c.task})
      BY <2>2, CloseStep, Zenon
    <3>2. c.task \in Task /\ pushes' \in [Task -> Nat]
      BY <2>1, <3>1, Zenon DEF KeysOK, RedisTypeOK, CountsOK
    <3>3. DOMAIN processingHash' = DOMAIN processingHash \ {c.task}
      BY <3>1, DropStep, Zenon
    <3>4. CountsOK'
      BY <2>1, <2>2, <3>1, <3>2, <3>3, CountsStep, Zenon
    <3>5. Ids(Stored) \subseteq Ids(Stored)'
      BY <2>2, CloseKeepsIds, Zenon
    <3>6. CopiesOK'
      BY <2>1, <2>2, CloseCopies, Zenon
    <3> QED
      BY <2>1, <3>1, <3>4, <3>5, <3>6, Zenon
  <2>3. CASE UNCHANGED <<redisVars, closes>>
    <3>1. UNCHANGED redisVars /\ UNCHANGED counts
      BY <2>1, <2>3, Zenon DEF counts
    <3> QED
      BY <1>1, <2>1, <3>1, Zenon
  <2> QED
    BY <1>4, <2>2, <2>3, Zenon DEF RunClosing
<1>5. CASE c.op = "recover" /\ RecoverScript(c.active) /\ UNCHANGED counts
  <2>1. c.op # "enqueue" /\ claims' = claims /\ closes' = closes /\ pushes' = pushes
    BY <1>5 DEF counts
  <2>2. KeysOK' /\ Stored' = Stored /\ DropEntries(OrphanEntries(c.active))
    BY <1>5, RecoverStep, Zenon
  <2>3. DOMAIN processingHash' \subseteq DOMAIN processingHash
    BY <2>2, DropStep, Zenon
  <2>4. pushes' \in [Task -> Nat]
    BY <2>1, Zenon DEF CountsOK
  <2>5. CountsOK'
    BY <2>1, <2>3, <2>4, CountsStep, Zenon
  <2>6. CopiesOK'
    BY <1>5, <2>1, RecoverCopies, Zenon
  <2>7. Ids(Stored)' = Ids(Stored)
    BY <2>2, Zenon DEF Ids
  <2> QED
    BY <2>1, <2>2, <2>5, <2>6, <2>7, Zenon
<1> QED
  BY <1>2, <1>3, <1>4, <1>5, Zenon DEF Run

-----------------------------------------------------------------------------
(* Steps, as the server sees them *)

(* NoCall asks for nothing. *)
LEMMA NoCallFacts == NoCall.op = "none" /\ \A leases : CommandOK(NoCall, leases)
BY DEF NoCall, Command, CommandOK

(* A step in which the server runs nothing. *)
LEMMA QuietStep ==
  ASSUME ServerInv, UNCHANGED redisVars, UNCHANGED counts, accepted' = accepted,
         used' \subseteq Lease, \A c \in late' \cup {call'} : CommandOK(c, used')
  PROVE  ServerInv'
<1>1. /\ readyList' = readyList /\ processingHash' = processingHash /\ leaseHash' = leaseHash
      /\ deadList' = deadList /\ finished' = finished
      /\ claims' = claims /\ closes' = closes /\ pushes' = pushes
  BY Zenon DEF redisVars, counts
<1>2. KeysOK' /\ Stored' = Stored /\ ReadyIds' = ReadyIds
  BY <1>1, Zenon DEF ServerInv, KeysOK, RedisTypeOK, HashesAgree, Stored, ReadyIds
<1>3. CountsOK'
  BY <1>1, Zenon DEF ServerInv, CountsOK, ClosedOncePerClaim
<1>4. CopiesOK'
  BY <1>1, <1>2, Zenon DEF ServerInv, CopiesOK, ReadyOnce
<1>5. NothingLost'
  BY <1>2, Zenon DEF ServerInv, NothingLost, Ids
<1> QED
  BY <1>2, <1>3, <1>4, <1>5, Zenon DEF ServerInv

(* A step in which it runs a command. *)
LEMMA ServerStep ==
  ASSUME ServerInv, NEW c \in late \cup {call}, Run(c),
         accepted' \subseteq accepted \cup (IF c.op = "enqueue" THEN {c.task} ELSE {}),
         used' = used, late' \cup {call'} \subseteq late \cup {call, NoCall}
  PROVE  ServerInv'
<1>1. CommandOK(c, Lease)
  BY Zenon DEF ServerInv, CommandOK
<1>2. /\ KeysOK' /\ CountsOK' /\ CopiesOK'
      /\ Ids(Stored) \subseteq Ids(Stored)'
      /\ c.op = "enqueue" => c.task \in Ids(Stored)'
  BY <1>1, RunStep, Zenon DEF ServerInv
<1>3. NothingLost'
  BY <1>2, Zenon DEF ServerInv, NothingLost
<1>4. \A d \in late' \cup {call'} : CommandOK(d, used')
  BY NoCallFacts, Zenon DEF ServerInv
<1>5. used' \subseteq Lease
  BY Zenon DEF ServerInv
<1> QED
  BY <1>2, <1>3, <1>4, <1>5, Zenon DEF ServerInv

(* The commands the engine can issue.  A new lease ID is drawn for every   *)
(* claim, and a recovery offers what the engine holds.                     *)
LEMMA IssueFacts ==
  ASSUME RetryInv, CallEnqueue \/ CallAcquire \/ CallClosing \/ CallRecover
  PROVE  /\ stage = "idle" /\ stage' = "sent" /\ tries' = 0 /\ late' = late
         /\ UNCHANGED redisVars /\ UNCHANGED counts
         /\ accepted' = accepted /\ granted' = granted /\ ended' = ended
         /\ used \subseteq used' /\ used' \subseteq Lease
         /\ CommandOK(call', used') /\ call'.op # "none"
         /\ call'.op = "recover" =>
              granted \subseteq call'.active /\ call'.active \subseteq granted \cup ended
<1>1. used \subseteq Lease
  BY Zenon DEF RetryInv, ServerInv
<1>2. ASSUME NEW op, NEW t, NEW l, NEW active, Issue(Command(op, t, l, active))
      PROVE  /\ stage = "idle" /\ stage' = "sent" /\ tries' = 0 /\ late' = late
             /\ UNCHANGED redisVars /\ UNCHANGED counts
             /\ accepted' = accepted /\ granted' = granted /\ ended' = ended
             /\ call'.op = op /\ call'.task = t /\ call'.lease = l /\ call'.active = active
  <2>1. /\ Command(op, t, l, active).op = op /\ Command(op, t, l, active).task = t
        /\ Command(op, t, l, active).lease = l /\ Command(op, t, l, active).active = active
    BY DEF Command
  <2> QED
    BY <1>2, <2>1, Zenon DEF Issue
<1>3. CASE CallEnqueue
  <2>1. PICK t \in Task : Issue(Command("enqueue", t, NoLease, {})) /\ used' = used
    BY <1>3, Zenon DEF CallEnqueue
  <2>2. call'.op = "enqueue" /\ call'.task = t
    BY <1>2, <2>1, Zenon
  <2>3. CommandOK(call', used') /\ call'.op # "none" /\ call'.op # "recover"
    BY <2>2 DEF CommandOK
  <2> QED
    BY <1>1, <1>2, <2>1, <2>3, Zenon
<1>4. CASE CallAcquire
  <2>1. PICK l \in Lease : Issue(Command("acquire", NoLease, l, {})) /\ used' = used \cup {l}
    BY <1>4, Zenon DEF CallAcquire
  <2>2. call'.op = "acquire" /\ call'.lease = l
    BY <1>2, <2>1, Zenon
  <2>3. CommandOK(call', used') /\ call'.op # "none" /\ call'.op # "recover"
    BY <2>1, <2>2 DEF CommandOK
  <2> QED
    BY <1>1, <1>2, <2>1, <2>3, Zenon
<1>5. CASE CallClosing
  <2>1. PICK g \in granted, op \in Closing :
          Issue(Command(op, g.task, g.lease, {})) /\ used' = used
    BY <1>5, Zenon DEF CallClosing
  <2>2. call'.op \in Closing
    BY <1>2, <2>1, Zenon
  <2>3. CommandOK(call', used') /\ call'.op # "none" /\ call'.op # "recover"
    BY <2>2 DEF CommandOK, Closing
  <2> QED
    BY <1>1, <1>2, <2>1, <2>3, Zenon
<1>6. CASE CallRecover
  <2>1. PICK stale \in SUBSET ended :
          Issue(Command("recover", NoLease, NoLease, granted \cup stale)) /\ used' = used
    BY <1>6, Zenon DEF CallRecover
  <2>2. call'.op = "recover" /\ call'.active = granted \cup stale
    BY <1>2, <2>1, Zenon
  <2>3. CommandOK(call', used') /\ call'.op # "none"
    BY <2>2 DEF CommandOK
  <2> QED
    BY <1>1, <1>2, <2>1, <2>2, <2>3, Zenon
<1> QED
  BY <1>3, <1>4, <1>5, <1>6, Zenon

(* Every step keeps the server's part of the invariant. *)
LEMMA ServerInvStep == RetryInv /\ [RetryNext]_vars => ServerInv'
<1> SUFFICES ASSUME RetryInv, [RetryNext]_vars PROVE ServerInv'
  BY Zenon
<1>1. ServerInv /\ used \subseteq Lease /\ \A c \in late \cup {call} : CommandOK(c, used)
  BY Zenon DEF RetryInv, ServerInv
<1>2. CASE CallEnqueue \/ CallAcquire \/ CallClosing \/ CallRecover
  <2>1. /\ UNCHANGED redisVars /\ UNCHANGED counts /\ accepted' = accepted /\ late' = late
        /\ used \subseteq used' /\ used' \subseteq Lease /\ CommandOK(call', used')
    BY <1>2, IssueFacts, Zenon
  <2>2. \A c \in late' \cup {call'} : CommandOK(c, used')
    BY <1>1, <2>1, Zenon DEF CommandOK
  <2> QED
    BY <1>1, <2>1, <2>2, QuietStep, Zenon
<1>3. CASE Reply
  <2>1. /\ Run(call) /\ call' = NoCall /\ late' = late /\ used' = used
        /\ accepted' = IF call.op = "enqueue" THEN accepted \cup {call.task} ELSE accepted
    BY <1>3, Zenon DEF Reply, Learn
  <2>2. accepted' \subseteq accepted \cup (IF call.op = "enqueue" THEN {call.task} ELSE {})
    BY <2>1, Zenon
  <2> QED
    BY <1>1, <2>1, <2>2, ServerStep, Zenon
<1>4. CASE ReplyLost
  <2>1. Run(call) /\ call' = call /\ late' = late /\ accepted' = accepted /\ used' = used
    BY <1>4, Zenon DEF ReplyLost, engine
  <2> QED
    BY <1>1, <2>1, ServerStep, Zenon
<1>5. CASE RunLate
  <2>1. PICK c \in late : /\ Run(c) /\ late' = late \ {c}
                          /\ call' = call /\ accepted' = accepted /\ used' = used
    BY <1>5, Zenon DEF RunLate, client, engine
  <2> QED
    BY <1>1, <2>1, ServerStep, Zenon
<1>6. CASE TimeOut \/ Retry \/ GiveUp \/ Restart
  <2>1. /\ UNCHANGED redisVars /\ UNCHANGED counts /\ accepted' = accepted /\ used' = used
        /\ late' \subseteq late \cup {call}
        /\ call' \in {call, NoCall}
    BY <1>6, Zenon DEF TimeOut, Retry, GiveUp, Restart, Linger, engine
  <2>2. \A c \in late' \cup {call'} : CommandOK(c, used')
    BY <1>1, <2>1, NoCallFacts, Zenon
  <2> QED
    BY <1>1, <2>1, <2>2, QuietStep, Zenon
<1>7. CASE UNCHANGED vars
  <2>1. /\ UNCHANGED redisVars /\ UNCHANGED counts /\ accepted' = accepted /\ used' = used
        /\ late' = late /\ call' = call
    BY <1>7, Zenon DEF vars, client, engine
  <2> QED
    BY <1>1, <2>1, QuietStep, Zenon
<1> QED
  BY <1>2, <1>3, <1>4, <1>5, <1>6, <1>7, Zenon DEF RetryNext

-----------------------------------------------------------------------------
(* Steps, as the client sees them *)

(* A command joins the late ones while there is room, and leaves them when *)
(* it has run.                                                             *)
LEMMA LateFacts ==
  ASSUME IsFiniteSet(late), Cardinality(late) <= MaxLate,
         \/ late' = late
         \/ Linger
         \/ \E c \in late : late' = late \ {c}
  PROVE  IsFiniteSet(late') /\ Cardinality(late') <= MaxLate
<1>1. Cardinality(late) \in Nat /\ MaxLate \in Nat
  BY FS_CardinalityType, RetryAssumption, Zenon
<1>2. CASE late' = late
  BY <1>2, Zenon
<1>3. CASE Cardinality(late) < MaxLate /\ late' = late \cup {call}
  <2>1. IsFiniteSet(late') /\ Cardinality(late') \in {Cardinality(late), Cardinality(late) + 1}
    BY <1>3, FS_AddElement, Zenon
  <2>2. Cardinality(late') <= MaxLate
    BY <1>1, <1>3, <2>1
  <2> QED
    BY <2>1, <2>2, Zenon
<1>4. CASE \E c \in late : late' = late \ {c}
  <2>1. IsFiniteSet(late') /\ Cardinality(late') \in {Cardinality(late), Cardinality(late) - 1}
    BY <1>4, FS_RemoveElement, Zenon
  <2>2. Cardinality(late') <= MaxLate
    BY <1>1, <2>1
  <2> QED
    BY <2>1, <2>2, Zenon
<1> QED
  BY <1>2, <1>3, <1>4, Zenon DEF Linger

(* What the engine makes of a reply: it comes to hold only leases that it  *)
(* has drawn, and what it no longer holds has ended.                       *)
LEMMA LearnFacts ==
  ASSUME RetryInv, Run(call), Learn(call)
  PROVE  /\ accepted' \subseteq Task
         /\ granted' \cap ended' = {}
         /\ granted' \cup ended' \subseteq [task : Task, lease : used]
         /\ used' = used
<1>1. /\ accepted \subseteq Task
      /\ granted \cup ended \subseteq [task : Task, lease : used]
      /\ CommandOK(call, used)
      /\ call.op = "recover" => call.active \subseteq [task : Task, lease : used]
      /\ readyList \in Seq(Encoded)
  BY Zenon DEF RetryInv, ServerInv, ClientInv, RetryTypeOK, KeysOK, RedisTypeOK
<1>2. accepted' \subseteq Task
  BY <1>1, Zenon DEF Learn, CommandOK
<1>3. ended' = (ended \cup granted) \ granted' /\ used' = used
  BY Zenon DEF Learn
<1>4. granted' \subseteq [task : Task, lease : used]
  <2>1. CASE call.op = "acquire" /\ readyList # <<>>
    <3>1. granted' = granted \cup {[task |-> RightEnd(readyList).id, lease |-> call.lease]}
      <4>1. call.op \notin Closing /\ call.op # "recover"
        BY <2>1 DEF Closing
      <4> QED
        BY <2>1, <4>1, Zenon DEF Learn
    <3>2. RightEnd(readyList) \in Encoded
      <4>1. readyList \in Seq(Encoded) /\ readyList # <<>>
        BY <1>1, <2>1, Zenon
      <4> QED
        BY <4>1, PopFacts
    <3>3. RightEnd(readyList).id \in Task /\ call.lease \in used
      BY <1>1, <2>1, <3>2, Zenon DEF Encoded, CommandOK
    <3>4. [task |-> RightEnd(readyList).id, lease |-> call.lease] \in [task : Task, lease : used]
      BY <3>3, Zenon
    <3> QED
      BY <1>1, <3>1, <3>4, Zenon
  <2>2. CASE call.op \in Closing
    <3>1. granted' = granted \ {Fence(call)}
      BY <2>2 DEF Learn, Closing
    <3> QED
      BY <1>1, <3>1, Zenon
  <2>3. CASE call.op = "recover"
    <3>1. granted' = { g \in call.active : g.lease \in MatchedLeases(call.active) }
      BY <2>3 DEF Learn, Closing
    <3> QED
      BY <1>1, <2>3, <3>1, Zenon
  <2>4. CASE /\ ~(call.op = "acquire" /\ readyList # <<>>)
             /\ call.op \notin Closing /\ call.op # "recover"
    <3>1. granted' = granted
      BY <2>4 DEF Learn
    <3> QED
      BY <1>1, <3>1, Zenon
  <2> QED
    BY <2>1, <2>2, <2>3, <2>4, Zenon
<1> QED
  BY <1>1, <1>2, <1>3, <1>4, Zenon

(* Every step keeps the client's part of the invariant. *)
LEMMA ClientInvStep == RetryInv /\ [RetryNext]_vars => ClientInv'
<1> SUFFICES ASSUME RetryInv, [RetryNext]_vars PROVE ClientInv'
  BY Zenon
<1>1. /\ stage \in {"idle", "sent", "lost"} /\ (stage = "idle" <=> call = NoCall)
      /\ tries \in 0 .. MaxRetries /\ IsFiniteSet(late) /\ Cardinality(late) <= MaxLate
      /\ accepted \subseteq Task /\ used \subseteq Lease /\ granted \cap ended = {}
      /\ granted \cup ended \subseteq [task : Task, lease : used]
      /\ call.op = "recover" =>
           granted \subseteq call.active /\ call.active \subseteq [task : Task, lease : used]
  BY Zenon DEF RetryInv, ClientInv, RetryTypeOK
<1>2. 0 \in 0 .. MaxRetries
  BY RetryAssumption
<1>3. NoCall.op # "recover"
  BY NoCallFacts
<1>4. ASSUME stage' \in {"idle", "sent", "lost"}, stage' = "idle" <=> call' = NoCall,
             tries' \in 0 .. MaxRetries,
             late' = late \/ Linger \/ \E c \in late : late' = late \ {c},
             call' = call \/ call' = NoCall,
             accepted' = accepted, used' = used, granted' = granted, ended' = ended
      PROVE  ClientInv'
  <2>1. IsFiniteSet(late') /\ Cardinality(late') <= MaxLate
    BY <1>1, <1>4, LateFacts, Zenon
  <2>2. RetryTypeOK'
    BY <1>1, <1>4, <2>1, Zenon DEF RetryTypeOK
  <2>3. call'.op = "recover" =>
          granted' \subseteq call'.active /\ call'.active \subseteq [task : Task, lease : used']
    BY <1>1, <1>3, <1>4, Zenon
  <2> QED
    BY <2>1, <2>2, <2>3, Zenon DEF ClientInv
<1>5. CASE CallEnqueue \/ CallAcquire \/ CallClosing \/ CallRecover
  <2>1. /\ stage' = "sent" /\ tries' = 0 /\ late' = late
        /\ accepted' = accepted /\ granted' = granted /\ ended' = ended
        /\ used \subseteq used' /\ used' \subseteq Lease /\ call'.op # "none"
        /\ call'.op = "recover" =>
             granted \subseteq call'.active /\ call'.active \subseteq granted \cup ended
    BY <1>5, IssueFacts, Zenon
  <2>2. stage' # "idle" /\ call' # NoCall /\ stage' \in {"idle", "sent", "lost"}
    BY <2>1, NoCallFacts
  <2>3. granted \cup ended \subseteq [task : Task, lease : used']
    BY <1>1, <2>1, Zenon
  <2>4. RetryTypeOK'
    BY <1>1, <1>2, <2>1, <2>2, <2>3, Zenon DEF RetryTypeOK
  <2> QED
    BY <1>1, <2>1, <2>3, <2>4, Zenon DEF ClientInv
<1>6. CASE Reply
  <2>1. /\ Run(call) /\ Learn(call) /\ late' = late
        /\ call' = NoCall /\ stage' = "idle" /\ tries' = 0
    BY <1>6, Zenon DEF Reply
  <2>2. /\ accepted' \subseteq Task /\ granted' \cap ended' = {} /\ used' = used
        /\ granted' \cup ended' \subseteq [task : Task, lease : used]
    BY <2>1, LearnFacts, Zenon
  <2>3. RetryTypeOK'
    BY <1>1, <1>2, <2>1, <2>2, Zenon DEF RetryTypeOK
  <2> QED
    BY <1>1, <1>3, <2>1, <2>3, Zenon DEF ClientInv
<1>7. CASE ReplyLost \/ TimeOut
  <2>1. /\ stage = "sent" /\ stage' = "lost" /\ call' = call /\ tries' = tries
        /\ late' = late \/ Linger
        /\ accepted' = accepted /\ used' = used /\ granted' = granted /\ ended' = ended
    BY <1>7, Zenon DEF ReplyLost, TimeOut, Lost, engine
  <2>2. stage' \in {"idle", "sent", "lost"} /\ stage' # "idle" /\ stage # "idle"
    BY <2>1
  <2> QED
    BY <1>1, <1>4, <2>1, <2>2, Zenon
<1>8. CASE Retry
  <2>1. /\ stage = "lost" /\ stage' = "sent" /\ call' = call /\ late' = late
        /\ tries' = tries + 1 /\ tries < MaxRetries
        /\ accepted' = accepted /\ used' = used /\ granted' = granted /\ ended' = ended
    BY <1>8, Zenon DEF Retry, engine
  <2>2. stage' \in {"idle", "sent", "lost"} /\ stage' # "idle" /\ stage # "idle"
    BY <2>1
  <2>3. tries' \in 0 .. MaxRetries
    BY <1>1, <2>1, RetryAssumption
  <2> QED
    BY <1>1, <1>4, <2>1, <2>2, <2>3, Zenon
<1>9. CASE GiveUp \/ Restart
  <2>1. /\ stage' = "idle" /\ call' = NoCall /\ tries' = 0
        /\ late' = late \/ Linger
        /\ accepted' = accepted /\ used' = used /\ granted' = granted /\ ended' = ended
    BY <1>9, Zenon DEF GiveUp, Restart, engine
  <2> QED
    BY <1>2, <1>4, <2>1, Zenon
<1>10. CASE RunLate
  <2>1. /\ \E c \in late : late' = late \ {c}
        /\ stage' = stage /\ call' = call /\ tries' = tries
        /\ accepted' = accepted /\ used' = used /\ granted' = granted /\ ended' = ended
    BY <1>10, Zenon DEF RunLate, client, engine
  <2> QED
    BY <1>1, <1>4, <2>1, Zenon
<1>11. CASE UNCHANGED vars
  <2>1. /\ late' = late /\ stage' = stage /\ call' = call /\ tries' = tries
        /\ accepted' = accepted /\ used' = used /\ granted' = granted /\ ended' = ended
    BY <1>11, Zenon DEF vars, client, engine
  <2> QED
    BY <1>1, <1>4, <2>1, Zenon
<1> QED
  BY <1>5, <1>6, <1>7, <1>8, <1>9, <1>10, <1>11, Zenon DEF RetryNext

-----------------------------------------------------------------------------
(* Who can end a lease *)

(* A command that takes a task away from a lease is a closing call of that *)
(* lease, a claim of a second copy, or a recovery that was not offered it. *)
LEMMA RunEndsLease ==
  ASSUME ServerInv, NEW c, CommandOK(c, Lease), Run(c),
         NEW g \in [task : Task, lease : Lease], Held(g), ~Held(g)'
  PROVE  \/ c.op \in Closing /\ Fence(c) = g
         \/ pushes[g.task] > 1
         \/ c.op = "recover" /\ g \notin c.active
<1>1. /\ KeysOK /\ CountsOK /\ CopiesOK /\ g.task \in Task
      /\ g = [task |-> g.task, lease |-> g.lease]
  BY DEF ServerInv
<1>2. g.task \in DOMAIN processingHash /\ HGetLease(g.task) = g.lease
  BY Zenon DEF Held
<1>3. g.task \in DOMAIN leaseHash /\ leaseHash[g.task] = g.lease
  BY <1>1, <1>2, Zenon DEF KeysOK, HashesAgree, HGetLease
<1>4. ~(/\ g.task \in DOMAIN processingHash' /\ g.task \in DOMAIN leaseHash'
        /\ leaseHash'[g.task] = leaseHash[g.task])
  BY <1>3, Zenon DEF Held, HGetLease
<1>5. ~(UNCHANGED <<processingHash, leaseHash>>)
  BY <1>2, <1>3, <1>4, Zenon
<1>6. ASSUME NEW S, DropEntries(S) PROVE g.task \in S
  <2>1. SUFFICES ASSUME g.task \notin S PROVE FALSE
    BY Zenon
  <2> QED
    BY <1>1, <1>2, <1>3, <1>4, <1>6, <2>1, DropStep, Zenon
<1>7. ASSUME NEW l \in Lease, AcquireScript(l) PROVE pushes[g.task] > 1
  <2> DEFINE e == RightEnd(readyList)
  <2>1. /\ readyList # <<>> /\ KeysOK'
        /\ DOMAIN processingHash' = DOMAIN processingHash \cup {e.id}
        /\ Range(readyList) = Range(readyList)' \cup {e}
        /\ \A t \in DOMAIN processingHash \ {e.id} : leaseHash'[t] = leaseHash[t]
    BY <1>1, <1>7, AcquireStep, Zenon
  <2>2. g.task = e.id
    <3>1. SUFFICES ASSUME g.task # e.id PROVE FALSE
      BY Zenon
    <3>2. g.task \in DOMAIN processingHash' /\ leaseHash'[g.task] = leaseHash[g.task]
      BY <1>2, <2>1, <3>1, Zenon
    <3>3. g.task \in DOMAIN leaseHash'
      BY <2>1, <3>2, Zenon DEF KeysOK, HashesAgree
    <3> QED
      BY <1>4, <3>2, <3>3, Zenon
  <2>3. g.task \in ReadyIds
    BY <2>1, <2>2, Zenon DEF ReadyIds, Ids
  <2>4. ~(pushes[g.task] <= 1)
    BY <1>1, <1>2, <2>3, Zenon DEF CopiesOK
  <2>5. pushes[g.task] \in Nat
    BY <1>1, Zenon DEF CountsOK
  <2> QED
    BY <2>4, <2>5
<1>8. CASE c.op = "enqueue" /\ PushTask(c.task)
  BY <1>5, <1>8, Zenon DEF PushTask
<1>9. CASE RunAcquire(c)
  <2>1. AcquireScript(c.lease) \/ UNCHANGED redisVars
    BY <1>9, Zenon DEF RunAcquire
  <2>2. c.lease \in Lease
    BY <1>9, Zenon DEF RunAcquire, CommandOK
  <2>3. ~(UNCHANGED redisVars)
    BY <1>5, Zenon DEF redisVars
  <2> QED
    BY <1>7, <2>1, <2>2, <2>3, Zenon
<1>10. CASE RunClosing(c)
  <2>1. c.op \in Closing
    BY <1>10, Zenon DEF RunClosing
  <2>2. ~(UNCHANGED redisVars)
    BY <1>5, Zenon DEF redisVars
  <2>3. \/ CompleteScript(c.task, c.lease) \/ RequeueScript(c.task, c.lease)
        \/ DeadLetterScript(c.task, c.lease)
    BY <1>10, <2>2, Zenon DEF RunClosing
  <2>4. HGetLease(c.task) = c.lease /\ DropEntries({c.task})
    BY <1>1, <2>3, CloseStep, Zenon
  <2>5. g.task = c.task /\ g.lease = c.lease
    BY <1>2, <1>6, <2>4, Zenon
  <2>6. Fence(c) = g
    BY <1>1, <2>5, Zenon DEF Fence
  <2> QED
    BY <2>1, <2>6, Zenon
<1>11. CASE c.op = "recover" /\ RecoverScript(c.active)
  <2>1. DropEntries(OrphanEntries(c.active))
    BY <1>1, <1>11, RecoverStep, Zenon
  <2>2. g.task \in OrphanEntries(c.active)
    BY <1>6, <2>1, Zenon
  <2>3. [task |-> g.task, lease |-> HGetLease(g.task)] \notin c.active
    BY <2>2, Zenon DEF OrphanEntries
  <2>4. g \notin c.active
    BY <1>1, <1>2, <2>3, Zenon
  <2> QED
    BY <1>11, <2>4, Zenon
<1> QED
  BY <1>8, <1>9, <1>10, <1>11, Zenon DEF Run

(* The steps that run a command are answers and late commands.  A recovery *)
(* that the engine waits for was offered all its leases.                   *)
LEMMA StepEndsLease ==
  ASSUME RetryInv, RetryNext, NEW g \in granted, Held(g), ~Held(g)'
  PROVE  \/ \E c \in late \cup {call} : c.op \in Closing /\ Fence(c) = g
         \/ pushes[g.task] > 1
         \/ \E c \in late : c.op = "recover" /\ g \notin c.active
<1>1. ServerInv /\ \A c \in late \cup {call} : CommandOK(c, Lease)
  BY Zenon DEF RetryInv, ServerInv, CommandOK
<1>2. g \in [task : Task, lease : Lease]
  BY Zenon DEF RetryInv, ClientInv, RetryTypeOK
<1>3. call.op = "recover" => g \in call.active
  BY Zenon DEF RetryInv, ClientInv
<1>4. ASSUME NEW c \in late \cup {call}, Run(c), c \in late \/ c = call
      PROVE  \/ \E d \in late \cup {call} : d.op \in Closing /\ Fence(d) = g
             \/ pushes[g.task] > 1
             \/ \E d \in late : d.op = "recover" /\ g \notin d.active
  <2>1. \/ c.op \in Closing /\ Fence(c) = g
        \/ pushes[g.task] > 1
        \/ c.op = "recover" /\ g \notin c.active
    BY <1>1, <1>2, <1>4, RunEndsLease, Zenon
  <2> QED
    BY <1>3, <1>4, <2>1, Zenon
<1>5. ~(UNCHANGED redisVars)
  BY Zenon DEF Held, HGetLease, redisVars
<1>6. CASE Reply \/ ReplyLost
  <2>1. Run(call) /\ call \in late \cup {call}
    BY <1>6, Zenon DEF Reply, ReplyLost
  <2> QED
    BY <1>4, <2>1, Zenon
<1>7. CASE RunLate
  <2>1. PICK c \in late : Run(c)
    BY <1>7, Zenon DEF RunLate
  <2> QED
    BY <1>4, <2>1, Zenon
<1>8. CASE CallEnqueue \/ CallAcquire \/ CallClosing \/ CallRecover
  BY <1>5, <1>8, IssueFacts, Zenon
<1>9. CASE TimeOut \/ Retry \/ GiveUp \/ Restart
  BY <1>5, <1>9, Zenon DEF TimeOut, Retry, GiveUp, Restart
<1> QED
  BY <1>6, <1>7, <1>8, <1>9, Zenon DEF RetryNext

-----------------------------------------------------------------------------
(* Theorems *)

(* The initial state. *)
LEMMA RetryInitial == RetryInit => RetryInv
<1> SUFFICES ASSUME RetryInit PROVE RetryInv
  BY Zenon
<1>1. RedisInit
  BY Zenon DEF RetryInit
<1>2. KeysOK
  BY <1>1, RedisInitial, Zenon DEF RedisInv
<1>3. /\ DOMAIN processingHash = {} /\ DOMAIN readyList = {}
  BY <1>1 DEF RedisInit
<1>4. /\ claims = [t \in Task |-> 0] /\ closes = [t \in Task |-> 0]
      /\ pushes = [t \in Task |-> 0]
      /\ call = NoCall /\ stage = "idle" /\ tries = 0 /\ late = {}
      /\ accepted = {} /\ used = {} /\ granted = {} /\ ended = {}
  BY Zenon DEF RetryInit
<1>5. CountsOK
  BY <1>3, <1>4 DEF CountsOK, ClosedOncePerClaim
<1>6. ReadyIds = {}
  BY <1>3, Zenon DEF ReadyIds, Ids, Range
<1>7. CopiesOK
  BY <1>3, <1>6, Zenon DEF CopiesOK, ReadyOnce
<1>8. ServerInv
  BY <1>2, <1>4, <1>5, <1>7, NoCallFacts, Zenon DEF ServerInv, NothingLost
<1>9. IsFiniteSet(late) /\ Cardinality(late) <= MaxLate /\ tries \in 0 .. MaxRetries
  <2>1. IsFiniteSet(late) /\ Cardinality(late) = 0
    BY <1>4, FS_EmptySet, Zenon
  <2>2. Cardinality(late) <= MaxLate /\ tries \in 0 .. MaxRetries
    BY <1>4, <2>1, RetryAssumption
  <2> QED
    BY <2>1, <2>2, Zenon
<1>10. call.op # "recover"
  BY <1>4, NoCallFacts
<1>11. ClientInv
  BY <1>4, <1>9, <1>10, Zenon DEF ClientInv, RetryTypeOK
<1> QED
  BY <1>8, <1>11, Zenon DEF RetryInv

(* The invariant, for any number of retries, late commands and restarts. *)
THEOREM RetryInvariant == RetrySpec => []RetryInv
<1>1. RetryInv /\ [RetryNext]_vars => RetryInv'
  BY ServerInvStep, ClientInvStep, Zenon DEF RetryInv
<1> QED
  BY <1>1, RetryInitial, PTL DEF RetrySpec

(* The client waits for one command at a time, tries it at most one time   *)
(* more than MaxRetries, and no lease is both held by the engine and       *)
(* ended.                                                                  *)
THEOREM RetryTypeCorrect == RetrySpec => []RetryTypeOK
<1>1. RetryInv => RetryTypeOK
  BY Zenon DEF RetryInv, ClientInv
<1> QED
  BY <1>1, RetryInvariant, PTL

(* The processing hash and the lease hash list the same tasks, whatever    *)
(* the client repeats.                                                     *)
THEOREM HashesAgreeAlways == RetrySpec => []HashesAgree
<1>1. RetryInv => HashesAgree
  BY Zenon DEF RetryInv, ServerInv, KeysOK
<1> QED
  BY <1>1, RetryInvariant, PTL

(* A task whose Enqueue returned without error is never lost. *)
THEOREM NothingIsLost == RetrySpec => []NothingLost
<1>1. RetryInv => NothingLost
  BY Zenon DEF RetryInv, ServerInv
<1> QED
  BY <1>1, RetryInvariant, PTL

(* A claim is completed, requeued or buried at most once, however often    *)
(* the command is repeated.                                                *)
THEOREM ClaimsCloseOnce == RetrySpec => []ClosedOncePerClaim
<1>1. RetryInv => ClosedOncePerClaim
  BY Zenon DEF RetryInv, ServerInv, CountsOK
<1> QED
  BY <1>1, RetryInvariant, PTL

(* A lease the engine holds loses its task to a closing call of its own,   *)
(* to the claim of a second copy, or to a recovery script that comes late: *)
(* to nothing else, however many commands are repeated or delayed.         *)
THEOREM LeasesEndByOwnCalls == RetrySpec => OnlyOwnCallsEndALease
<1>1. RetryInv /\ [RetryNext]_vars =>
        [\A g \in granted :
           Held(g) /\ ~Held(g)' =>
             \/ \E c \in late \cup {call} : c.op \in Closing /\ Fence(c) = g
             \/ pushes[g.task] > 1
             \/ \E c \in late : c.op = "recover" /\ g \notin c.active]_vars
  BY StepEndsLease, Zenon
<1> QED
  BY <1>1, RetryInvariant, PTL DEF RetrySpec, OnlyOwnCallsEndALease

=============================================================================
