-------------------------- MODULE BatchQueueProofs --------------------------
(* Proofs about BatchQueue: no recipient is lost, a completed campaign was   *)
(* dealt with, and the queue implements Delivery.                            *)
EXTENDS BatchQueue, SequenceTheorems, TLAPS

USE DataAssumption, LimitsAssumption DEF DataAssumption, LimitsAssumption

-----------------------------------------------------------------------------
(* Slices and batches                                                      *)

\* A slice that starts within a sequence is part of it, and keeps its order.
LEMMA SliceFacts ==
  ASSUME NEW S, NEW ids \in Seq(S), NEW first \in Nat \ {0}, NEW n \in Nat
  PROVE  /\ Slice(ids, first, n) \in Seq(S)
         /\ \A i \in first .. first + n - 1 :
              i <= Len(ids) => ids[i] \in Range(Slice(ids, first, n))
         /\ Range(Slice(ids, first, n)) \subseteq Range(ids)
<1> DEFINE last == IF first + n - 1 < Len(ids) THEN first + n - 1 ELSE Len(ids)
           slice == SubSeq(ids, first, last)
<1>1. last \in Int /\ first \in Int /\ last <= Len(ids) /\ last <= first + n - 1
  BY LenProperties
<1>2. \A i \in first .. last : i \in 1 .. Len(ids) /\ ids[i] \in S
  BY <1>1, LenProperties, ElementOfSeq
<1>3. /\ slice \in Seq(S)
      /\ Len(slice) = IF first <= last THEN last - first + 1 ELSE 0
      /\ \A i \in 1 .. last - first + 1 : slice[i] = ids[first + i - 1]
  BY <1>1, <1>2, SubSeqProperties
<1>4. \A i \in first .. first + n - 1 : i <= Len(ids) => ids[i] \in Range(slice)
  <2> SUFFICES ASSUME NEW i \in first .. first + n - 1, i <= Len(ids)
               PROVE  ids[i] \in Range(slice)
    OBVIOUS
  <2>1. i - first + 1 \in 1 .. last - first + 1 /\ i - first + 1 \in 1 .. Len(slice)
    BY <1>1, <1>3
  <2>2. slice[i - first + 1] = ids[i]
    BY <1>3, <2>1
  <2> QED
    BY <1>3, <2>1, <2>2, LenProperties DEF Range
<1>5. Range(slice) \subseteq Range(ids)
  <2> SUFFICES ASSUME NEW i \in DOMAIN slice PROVE slice[i] \in Range(ids)
    BY DEF Range
  <2>1. i \in 1 .. last - first + 1 /\ slice[i] = ids[first + i - 1]
    BY <1>1, <1>3, LenProperties
  <2>2. first + i - 1 \in first .. last
    BY <1>1, <2>1
  <2>3. first + i - 1 \in DOMAIN ids
    BY <1>2, <2>2, LenProperties
  <2> QED
    BY <2>1, <2>3 DEF Range
<1> QED
  BY <1>3, <1>4, <1>5 DEF Slice

\* A batch of a call is a sequence of recipients.
LEMMA BatchFacts ==
  ASSUME NEW c \in DOMAIN Calls, NEW b \in Nat \ {0}
  PROVE  Batch(Calls[c], b) \in Seq(Recipients)
<1> DEFINE first == (b - 1) * BatchLimit + 1
<1>1. Calls[c] \in Seq(Recipients)
  BY ElementOfSeq
<1>2. first \in Nat \ {0}
  <2>1. b - 1 \in Nat
    OBVIOUS
  <2>2. \A k \in Nat : k * BatchLimit \in Nat
    BY SMT
  <2>3. \A k \in Nat : k + 1 \in Nat \ {0}
    OBVIOUS
  <2> QED
    BY <2>1, <2>2, <2>3, Zenon
<1> HIDE DEF first
<1>3. Slice(Calls[c], first, BatchLimit) \in Seq(Recipients)
  BY <1>1, <1>2, SliceFacts
<1> QED
  BY <1>3 DEF Batch, first

\* How many batches a call has.
LEMMA CountFacts == ASSUME NEW s \in Seq(Recipients) PROVE BatchCount(s) \in Int
<1>1. Len(s) + BatchLimit - 1 \in Int
  BY LenProperties
<1>2. \A n \in Int, d \in Nat \ {0} : n \div d \in Int
  OBVIOUS
<1> QED
  BY <1>1, <1>2, Zenon DEF BatchCount

-----------------------------------------------------------------------------
(* Types                                                                   *)

\* Where a worker is says what its local variables are good for: it has a key, of
\* a batch while it mails it, and it counts a retry only below the maximum.
LocalOK(v) ==
  /\ v \in WorkerType
  /\ v.at \notin {"idle", "keys", "complete"} => v.key \in Batches \X (0 .. MaxDepth)
  /\ v.at \in {"lookup", "await", "delete"} => v.key[2] = 0 /\ v.pos \in Nat \ {0}
  /\ v.at = "retrySet" => v.retries < MAX_RETRIES

Locals == worker \in [Workers -> WorkerType] /\ \A w \in Workers : LocalOK(worker[w])

Types == TypeOK /\ Locals

\* The fields of the local variables, and what becomes of them.
LEMMA Fields ==
  \A v \in WorkerType :
    /\ v.at \in WorkerSteps /\ v.key \in (Batches \union {0}) \X (Depths \union {0})
    /\ v.ids \in Seq(Recipients) /\ v.pos \in Nat /\ v.attempt \in Nat
    /\ v.retries \in 0 .. MAX_RETRIES /\ v.seen \subseteq Recipients
BY DEF WorkerType

LEMMA UpdateAt ==
  \A v \in WorkerType, a \in WorkerSteps :
    LET u == [v EXCEPT !.at = a] IN
    /\ u \in WorkerType /\ u.at = a
    /\ u.key = v.key /\ u.pos = v.pos /\ u.ids = v.ids /\ u.retries = v.retries
    /\ u.attempt = v.attempt /\ u.seen = v.seen
BY DEF WorkerType

LEMMA UpdateKey ==
  \A v \in WorkerType, k \in Batches \X (0 .. MaxDepth) :
    LET u == [v EXCEPT !.at = "get", !.key = k] IN
    u \in WorkerType /\ u.at = "get" /\ u.key = k
<1> DEFINE K == (Batches \union {0}) \X (Depths \union {0})
<1>1. Batches \X (0 .. MaxDepth) \subseteq K
  BY DEF Depths
<1>2. WorkerType = [at : WorkerSteps, key : K, ids : Seq(Recipients), pos : Nat,
                    attempt : Nat, retries : 0 .. MAX_RETRIES, seen : SUBSET Recipients]
  BY DEF WorkerType
<1>3. "get" \in WorkerSteps
  BY DEF WorkerSteps
<1> HIDE DEF K
<1> QED
  BY <1>1, <1>2, <1>3

LEMMA UpdateSeen ==
  \A v \in WorkerType, S \in SUBSET Recipients :
    LET u == [v EXCEPT !.at = "complete", !.seen = S] IN
    u \in WorkerType /\ u.at = "complete" /\ u.seen = S
BY DEF WorkerType, WorkerSteps

LEMMA UpdateTask ==
  \A t \in TaskType, a \in {"mail", "logSent", "logFailed"} :
    LET u == [t EXCEPT !.at = a] IN
    u \in TaskType /\ u.w = t.w /\ u.key = t.key /\ u.attempt = t.attempt /\ u.r = t.r
BY DEF TaskType

LEMMA TaskTyped ==
  ASSUME TypeOK, NEW t \in tasks, NEW a \in {"mail", "logSent", "logFailed"}, Becomes(t, a)
  PROVE  tasks' \subseteq TaskType /\ t.r \in Recipients /\ t.w \in Workers
<1>1. tasks \subseteq TaskType /\ t \in TaskType
  BY DEF TypeOK
<1>2. t.r \in Recipients /\ t.w \in Workers
  BY <1>1 DEF TaskType
<1>3. [t EXCEPT !.at = a] \in TaskType
  BY <1>1, UpdateTask
<1> QED
  BY <1>1, <1>2, <1>3 DEF Becomes

\* One worker changes its local variables to sensible ones.
LEMMA LocalStep ==
  ASSUME Types, NEW w \in Workers, NEW v, LocalOK(v),
         worker' = [worker EXCEPT ![w] = v]
  PROVE  Locals'
BY DEF Types, Locals, LocalOK

LEMMA EndStep == ASSUME Types, NEW w \in Workers, Ends(w) PROVE Locals'
<1>1. LocalOK(Idle)
  BY DEF LocalOK, Idle, WorkerType, WorkerSteps
<1> QED
  BY <1>1, LocalStep DEF Ends

LEMMA MoveStep ==
  ASSUME Types, NEW w \in Workers, NEW a \in WorkerSteps, Moves(w, a),
         a \notin {"keys", "complete"} => worker[w].at \notin {"idle", "keys", "complete"},
         a \in {"await", "delete"} => worker[w].at \in {"lookup", "await"},
         a \notin {"lookup", "retrySet"}
  PROVE  Locals'
<1> DEFINE v == [worker[w] EXCEPT !.at = a]
<1>1. LocalOK(worker[w]) /\ worker[w] \in WorkerType
  BY DEF Types, Locals
<1>2. LocalOK(v)
  BY <1>1, UpdateAt DEF LocalOK
<1> HIDE DEF v
<1>3. worker' = [worker EXCEPT ![w] = v]
  BY DEF Moves, v
<1> QED
  BY <1>2, <1>3, LocalStep

\* DEL keeps the types.
LEMMA ExceptType == \A S, T, x : \A f \in [S -> T], y \in T : [f EXCEPT ![x] = y] \in [S -> T]
OBVIOUS

RedisOK == /\ payload \in [Batches -> Seq(Recipients)]
           /\ counter \in [Batches \X Depths -> 0 .. MAX_RETRIES]

LEMMA DeleteStep == ASSUME TypeOK, NEW k, Delete(k) PROVE RedisOK'
<1>1. RedisOK
  BY DEF TypeOK, RedisOK
<1>2. <<>> \in Seq(Recipients) /\ 0 \in 0 .. MAX_RETRIES
  OBVIOUS
<1>3. [payload EXCEPT ![k[1]] = <<>>] \in [Batches -> Seq(Recipients)]
  BY <1>1, <1>2, ExceptType, Zenon DEF RedisOK
<1>4. [counter EXCEPT ![k] = 0] \in [Batches \X Depths -> 0 .. MAX_RETRIES]
  BY <1>1, <1>2, ExceptType, Zenon DEF RedisOK
<1>5. payload' = (IF k[2] = 0 THEN [payload EXCEPT ![k[1]] = <<>>] ELSE payload)
  BY DEF Delete, PayloadWithout
<1>6. counter' = (IF k[2] = 0 THEN counter ELSE [counter EXCEPT ![k] = 0])
  BY DEF Delete, CounterWithout
<1>7. payload' \in [Batches -> Seq(Recipients)]
  BY <1>1, <1>3, <1>5, Zenon DEF RedisOK
<1>8. counter' \in [Batches \X Depths -> 0 .. MAX_RETRIES]
  BY <1>1, <1>4, <1>6, Zenon DEF RedisOK
<1> QED
  BY <1>7, <1>8 DEF RedisOK

\* Every step keeps the types.
LEMMA TypeStep == Types /\ [Next]_vars => Types'
<1> SUFFICES ASSUME Types, [Next]_vars PROVE Types'
  OBVIOUS
<1> USE DEF redis, mail, history
<1>0. UNCHANGED worker => Locals'
  BY DEF Types, Locals
<1>1. CASE StartSending
  BY <1>0, <1>1 DEF StartSending, Types, TypeOK, Locals
<1>2. CASE Cancel
  BY <1>0, <1>2 DEF Cancel, Types, TypeOK, Locals
<1>3. ASSUME NEW r \in Leavers, Unsubscribe(r) PROVE Types'
  BY <1>0, <1>3 DEF Unsubscribe, Types, TypeOK, Locals
<1>4. CASE AddToCampaignQueue
  <2> DEFINE ids == Calls[producer.call]
             b == producer.batch
             batch == Batch(ids, b)
  <2>1. producer.call \in DOMAIN Calls /\ b \in Nat \ {0} /\ ids \in Seq(Recipients)
    BY <1>4 DEF AddToCampaignQueue, Types, TypeOK, Batches
  <2>2. batch \in Seq(Recipients) /\ Range(batch) \subseteq Recipients
    BY <2>1, BatchFacts, RangeOfSeq
  <2>3. payload' \in [Batches -> Seq(Recipients)]
    BY <1>4, <2>2, ExceptType DEF AddToCampaignQueue, Types, TypeOK
  <2>4. producer' \in [call : 1 .. Len(Calls) + 1, batch : Batches \union {1}]
    <3>1. producer \in [call : 1 .. Len(Calls) + 1, batch : Batches \union {1}]
      BY DEF Types, TypeOK
    <3>2. \/ producer' = [call |-> producer.call + 1, batch |-> 1]
          \/ producer' = [producer EXCEPT !.batch = b + 1] /\ b < BatchCount(ids)
      BY <1>4 DEF AddToCampaignQueue
    <3>3. b < BatchCount(ids) => b + 1 \in Batches
      <4>1. BatchCount(ids) \in Int
        BY <2>1, CountFacts
      <4> HIDE DEF b
      <4>2. b < BatchCount(ids) => b + 1 \in 1 .. BatchCount(ids)
        BY <2>1, <4>1
      <4> QED
        BY <2>1, <4>2 DEF Batches
    <3>4. producer.call + 1 \in 1 .. Len(Calls) + 1
      BY <2>1
    <3> HIDE DEF ids, b
    <3> QED
      BY <3>1, <3>2, <3>3, <3>4
  <2>5. queued' \subseteq Recipients
    BY <1>4, <2>2 DEF AddToCampaignQueue, Types, TypeOK
  <2> HIDE DEF ids, b, batch
  <2> QED
    BY <1>0, <1>4, <2>3, <2>4, <2>5 DEF AddToCampaignQueue, Types, TypeOK, Locals
<1>5. CASE AddToCampaignQueueFails
  <2>1. producer' \in [call : 1 .. Len(Calls) + 1, batch : Batches \union {1}]
    BY <1>5 DEF AddToCampaignQueueFails, Types, TypeOK
  <2>2. faults' \in 0 .. MaxFaults
    BY <1>5 DEF AddToCampaignQueueFails, Fault, Types, TypeOK
  <2> QED
    BY <1>0, <1>5, <2>1, <2>2 DEF AddToCampaignQueueFails, Types, TypeOK, Locals
<1>6. ASSUME NEW w \in Workers, ProcessCampaign(w) PROVE Types'
  <2>1. Locals'
    BY <1>6, MoveStep DEF ProcessCampaign, WorkerSteps
  <2> QED
    BY <1>6, <2>1 DEF ProcessCampaign, Types, TypeOK, Locals
<1>7. ASSUME NEW w \in Workers, FindBatch(w) PROVE Types'
  <2> DEFINE seen == [worker[w] EXCEPT !.at = "complete", !.seen = queued]
             found(k) == [worker[w] EXCEPT !.at = "get", !.key = k]
  <2>1. worker[w] \in WorkerType /\ queued \in SUBSET Recipients
    BY DEF Types, Locals, TypeOK
  <2>2. LocalOK(seen)
    BY <2>1, UpdateSeen DEF LocalOK
  <2>3. \A k \in BatchKeys : k[2] <= MaxDepth => LocalOK(found(k))
    <3> SUFFICES ASSUME NEW k \in BatchKeys, k[2] <= MaxDepth PROVE LocalOK(found(k))
      OBVIOUS
    <3>1. k \in Batches \X (0 .. MaxDepth)
      BY DEF BatchKeys, Depths
    <3> QED
      BY <2>1, <3>1, UpdateKey DEF LocalOK
  <2> HIDE DEF seen, found
  <2>4. \/ worker' = [worker EXCEPT ![w] = seen]
        \/ \E k \in BatchKeys :
             k[2] <= MaxDepth /\ worker' = [worker EXCEPT ![w] = found(k)]
        \/ Ends(w)
    BY <1>7 DEF FindBatch, seen, found
  <2>5. Locals'
    BY <2>2, <2>3, <2>4, LocalStep, EndStep
  <2> QED
    BY <1>7, <2>5 DEF FindBatch, Types, TypeOK, Locals
<1>8. ASSUME NEW w \in Workers, CompleteCampaign(w) PROVE Types'
  <2>1. Locals'
    BY <1>8, EndStep DEF CompleteCampaign
  <2> QED
    BY <1>8, <2>1 DEF CompleteCampaign, Types, TypeOK, Locals
<1>9. ASSUME NEW w \in Workers, GetBatch(w) PROVE Types'
  <2> DEFINE b == worker[w].key[1]
             ids == payload[b]
             n == attempts[b] + 1
             v == [worker[w] EXCEPT !.at = "lookup", !.ids = ids, !.pos = 1,
                                    !.attempt = n]
  <2>1. worker[w] \in WorkerType /\ b \in Batches /\ worker[w].key[2] = 0
        /\ worker[w].key \in Batches \X (0 .. MaxDepth)
    BY <1>9 DEF GetBatch, Types, Locals, LocalOK
  <2>2. ids \in Seq(Recipients) /\ n \in Nat
    BY <2>1 DEF Types, TypeOK
  <2> HIDE DEF b, ids, n
  <2>3. LocalOK(v)
    <3>1. v \in WorkerType /\ v.at = "lookup" /\ v.pos = 1 /\ v.key = worker[w].key
      BY <2>1, <2>2 DEF WorkerType, WorkerSteps
    <3> HIDE DEF v
    <3> QED
      BY <2>1, <3>1 DEF LocalOK
  <2> HIDE DEF v
  <2>4. worker' = [worker EXCEPT ![w] = v]
    BY <1>9 DEF GetBatch, v, b, ids, n
  <2>5. Locals'
    BY <2>3, <2>4, LocalStep
  <2>6. attempts' \in [Batches -> Nat]
    BY <1>9, <2>2, ExceptType DEF GetBatch, b, n, Types, TypeOK
  <2>7. overlapped' \in BOOLEAN
    BY <1>9, Zenon DEF GetBatch, Types, TypeOK
  <2>8. late' \in [Workers -> Nat]
    BY <1>9 DEF GetBatch, Types, TypeOK
  <2> QED
    BY <1>9, <2>5, <2>6, <2>7, <2>8 DEF GetBatch, Types, TypeOK, Locals
<1>10. ASSUME NEW w \in Workers, GetCounter(w) PROVE Types'
  <2>1. Locals'
    BY <1>10, MoveStep DEF GetCounter, WorkerSteps
  <2> QED
    BY <1>10, <2>1 DEF GetCounter, Types, TypeOK, Locals
<1>11. ASSUME NEW w \in Workers, GetNothing(w) PROVE Types'
  <2>1. Locals'
    BY <1>11, MoveStep DEF GetNothing, WorkerSteps
  <2> QED
    BY <1>11, <2>1 DEF GetNothing, Types, TypeOK, Locals
<1>12. ASSUME NEW w \in Workers, DropKey(w) PROVE Types'
  <2>1. Locals'
    BY <1>12, EndStep DEF DropKey
  <2>2. RedisOK'
    BY <1>12, DeleteStep DEF DropKey, Types
  <2> QED
    BY <1>12, <2>1, <2>2 DEF DropKey, RedisOK, Types, TypeOK, Locals
<1>13. ASSUME NEW w \in Workers, LookUpChunk(w) PROVE Types'
  <2> DEFINE chunk == Range(Slice(worker[w].ids, worker[w].pos, BATCH_SIZE))
  <2>1. Locals'
    BY <1>13, MoveStep DEF LookUpChunk, WorkerSteps
  <2>2. worker[w] \in WorkerType /\ worker[w].pos \in Nat \ {0}
        /\ worker[w].key \in Batches \X {0}
    BY <1>13 DEF LookUpChunk, Types, Locals, LocalOK
  <2>3. worker[w].ids \in Seq(Recipients) /\ worker[w].attempt \in Nat
    BY <2>2, Fields
  <2>4. chunk \subseteq Recipients
    <3>1. Slice(worker[w].ids, worker[w].pos, BATCH_SIZE) \in Seq(Recipients)
      BY <2>2, <2>3, SliceFacts
    <3> QED
      BY <3>1, RangeOfSeq
  <2> HIDE DEF chunk
  <2>5. \A r \in chunk : [w |-> w, key |-> worker[w].key, attempt |-> worker[w].attempt,
                          r |-> r, at |-> "mail"] \in TaskType
    BY <2>2, <2>3, <2>4 DEF TaskType
  <2>6. tasks' \subseteq TaskType /\ excused' \subseteq Recipients
    BY <1>13, <2>4, <2>5 DEF LookUpChunk, chunk, Types, TypeOK
  <2> QED
    BY <1>13, <2>1, <2>6 DEF LookUpChunk, Types, TypeOK, Locals
<1>14. ASSUME NEW w \in Workers, ChunkDone(w) PROVE Types'
  <2> DEFINE next == worker[w].pos + BATCH_SIZE
             a == IF next <= Len(worker[w].ids) THEN "lookup" ELSE "delete"
             v == [worker[w] EXCEPT !.pos = next, !.at = a]
  <2>1. worker[w] \in WorkerType /\ worker[w].pos \in Nat \ {0}
        /\ worker[w].key \in Batches \X (0 .. MaxDepth) /\ worker[w].key[2] = 0
    BY <1>14 DEF ChunkDone, Types, Locals, LocalOK
  <2>2. next \in Nat \ {0} /\ a \in WorkerSteps
    BY <2>1 DEF WorkerSteps
  <2>3. worker' = [worker EXCEPT ![w] = v]
    BY <1>14, <2>1 DEF ChunkDone
  <2> HIDE DEF next
  <2>4. LocalOK(v)
    <3>1. a \in {"lookup", "delete"}
      OBVIOUS
    <3> HIDE DEF a
    <3>2. v \in WorkerType /\ v.at = a /\ v.pos = next /\ v.key = worker[w].key
      BY <2>1, <2>2 DEF WorkerType
    <3> HIDE DEF v
    <3> QED
      BY <2>1, <2>2, <3>1, <3>2 DEF LocalOK
  <2> HIDE DEF v
  <2>5. Locals'
    BY <2>3, <2>4, LocalStep
  <2> QED
    BY <1>14, <2>5 DEF ChunkDone, Types, TypeOK, Locals
<1>15. ASSUME NEW w \in Workers, DeleteBatch(w) PROVE Types'
  <2>1. Locals'
    BY <1>15, EndStep DEF DeleteBatch
  <2>2. RedisOK'
    BY <1>15, DeleteStep DEF DeleteBatch, Types
  <2> QED
    BY <1>15, <2>1, <2>2 DEF DeleteBatch, RedisOK, Types, TypeOK, Locals
<1>16. ASSUME NEW w \in Workers, BatchFails(w) PROVE Types'
  <2>1. Locals'
    BY <1>16, MoveStep DEF BatchFails, WorkerSteps
  <2>2. RedisOK'
    BY <1>16, DeleteStep DEF BatchFails, Types, TypeOK, RedisOK
  <2>3. failures' \in [Batches -> Nat]
    <3>1. worker[w].key[1] \in Batches
      BY <1>16 DEF BatchFails, Types, Locals, LocalOK
    <3>2. failures \in [Batches -> Nat] /\ failures[worker[w].key[1]] + 1 \in Nat
      BY <3>1 DEF Types, TypeOK
    <3>3. failures' = [failures EXCEPT ![worker[w].key[1]] = failures[worker[w].key[1]] + 1]
      BY <1>16 DEF BatchFails, CountsFailure
    <3> QED
      BY <3>2, <3>3, ExceptType
  <2>4. faults' \in 0 .. MaxFaults
    BY <1>16 DEF BatchFails, Fault, Types, TypeOK
  <2>5. UNCHANGED <<status, active, producer, mail, attempts, queued, excused,
                    overlapped, late>>
    BY <1>16, Zenon DEF BatchFails, CountsFailure
  <2> QED
    BY <2>1, <2>2, <2>3, <2>4, <2>5 DEF RedisOK, Types, TypeOK, Locals
<1>17. ASSUME NEW w \in Workers, ReadRetries(w) PROVE Types'
  <2> DEFINE n == counter[RetryKey(worker[w].key)]
             a == IF n >= MAX_RETRIES THEN "giveUpKey" ELSE "retrySet"
             v == [worker[w] EXCEPT !.retries = n, !.ids = <<>>, !.at = a]
  <2>1. worker[w] \in WorkerType /\ worker[w].key \in Batches \X (0 .. MaxDepth)
    BY <1>17 DEF ReadRetries, Types, Locals, LocalOK
  <2>2. RetryKey(worker[w].key) \in Batches \X Depths
    BY <2>1 DEF RetryKey, Depths
  <2>3. n \in 0 .. MAX_RETRIES /\ a \in WorkerSteps
    BY <2>2 DEF Types, TypeOK, WorkerSteps
  <2>4. worker' = [worker EXCEPT ![w] = v]
    BY <1>17 DEF ReadRetries
  <2> HIDE DEF n
  <2>5. LocalOK(v)
    <3>1. a = "giveUpKey" \/ (a = "retrySet" /\ n < MAX_RETRIES)
      BY <2>3, SMT
    <3> HIDE DEF a
    <3>2. v \in WorkerType /\ v.at = a /\ v.retries = n /\ v.key = worker[w].key
      <4>1. <<>> \in Seq(Recipients)
        OBVIOUS
      <4> QED
        BY <2>1, <2>3, <4>1 DEF WorkerType
    <3> HIDE DEF v
    <3> QED
      BY <2>1, <3>1, <3>2 DEF LocalOK
  <2> HIDE DEF v
  <2>6. Locals'
    BY <2>4, <2>5, LocalStep
  <2> QED
    BY <1>17, <2>6 DEF ReadRetries, Types, TypeOK, Locals
<1>18. ASSUME NEW w \in Workers, CountRetry(w) PROVE Types'
  <2>1. Locals'
    BY <1>18, EndStep DEF CountRetry
  <2>2. worker[w].retries + 1 \in 0 .. MAX_RETRIES
    BY <1>18, Fields DEF CountRetry, Types, Locals, LocalOK
  <2>3. counter' \in [Batches \X Depths -> 0 .. MAX_RETRIES]
    BY <1>18, <2>2, ExceptType DEF CountRetry, Types, TypeOK
  <2> QED
    BY <1>18, <2>1, <2>3 DEF CountRetry, Types, TypeOK, Locals
<1>19. ASSUME NEW w \in Workers, GiveUpKey(w) PROVE Types'
  <2>1. Locals'
    BY <1>19, MoveStep DEF GiveUpKey, WorkerSteps
  <2>2. RedisOK'
    BY <1>19, DeleteStep DEF GiveUpKey, Types
  <2>3. worker[w].key[1] \in Batches
    BY <1>19 DEF GiveUpKey, Types, Locals, LocalOK
  <2>4. Range(payload[worker[w].key[1]]) \subseteq Recipients
    BY <2>3, RangeOfSeq DEF Types, TypeOK
  <2>5. excused' \subseteq Recipients
    BY <1>19, <2>4 DEF GiveUpKey, Types, TypeOK
  <2> QED
    BY <1>19, <2>1, <2>2, <2>5 DEF GiveUpKey, RedisOK, Types, TypeOK, Locals
<1>20. ASSUME NEW w \in Workers, GiveUpCounter(w) PROVE Types'
  <2>1. Locals'
    BY <1>20, EndStep DEF GiveUpCounter
  <2>2. RedisOK'
    BY <1>20, DeleteStep DEF GiveUpCounter, Types
  <2> QED
    BY <1>20, <2>1, <2>2 DEF GiveUpCounter, RedisOK, Types, TypeOK, Locals
<1>21. ASSUME NEW w \in Workers, RoundFails(w) PROVE Types'
  <2>1. Locals'
    BY <1>21, EndStep DEF RoundFails
  <2> QED
    BY <1>21, <2>1 DEF RoundFails, Fault, Types, TypeOK, Locals
<1>22. ASSUME NEW w \in Workers, Crash(w) PROVE Types'
  <2>1. Locals'
    BY <1>22, EndStep DEF Crash
  <2> QED
    BY <1>22, <2>1 DEF Crash, Fault, Types, TypeOK, Locals
<1>23. ASSUME NEW t \in tasks, NEW logged \in BOOLEAN, MailAccepted(t, logged)
       PROVE  Types'
  <2>1. tasks' \subseteq TaskType /\ t.r \in Recipients
    BY <1>23, TaskTyped DEF MailAccepted, Types
  <2>2. delivered' \in [Recipients -> Nat]
    BY <1>23, <2>1 DEF MailAccepted, Types, TypeOK
  <2> QED
    BY <1>0, <1>23, <2>1, <2>2 DEF MailAccepted, Types, TypeOK, Locals
<1>24. ASSUME NEW t \in tasks, MailRefused(t) PROVE Types'
  <2>1. tasks' \subseteq TaskType /\ t.r \in Recipients /\ t.w \in Workers
    BY <1>24, TaskTyped DEF MailRefused, Types
  <2> QED
    BY <1>0, <1>24, <2>1 DEF MailRefused, Types, TypeOK, Locals
<1>25. ASSUME NEW t \in tasks, LogWritten(t) PROVE Types'
  <2>1. tasks' \subseteq TaskType /\ t.r \in Recipients /\ t.w \in Workers
    BY <1>25, UpdateTask DEF LogWritten, Becomes, Types, TypeOK, TaskType
  <2> QED
    BY <1>0, <1>25, <2>1 DEF LogWritten, Types, TypeOK, Locals
<1>26. ASSUME NEW t \in tasks, LogSentFails(t) PROVE Types'
  <2>1. tasks' \subseteq TaskType /\ t.r \in Recipients /\ t.w \in Workers
    BY <1>26, TaskTyped DEF LogSentFails, Types
  <2> QED
    BY <1>0, <1>26, <2>1 DEF LogSentFails, Fault, Types, TypeOK, Locals
<1>27. ASSUME NEW t \in tasks, LogFailedFails(t) PROVE Types'
  <2>1. tasks' \subseteq TaskType /\ t.r \in Recipients /\ t.w \in Workers
    BY <1>27, UpdateTask DEF LogFailedFails, Becomes, Types, TypeOK, TaskType
  <2>2. Locals'
    BY <1>0, <1>27, <2>1, MoveStep DEF LogFailedFails, WorkerSteps
  <2> QED
    BY <1>0, <1>27, <2>1, <2>2 DEF LogFailedFails, CountsFailure, Types, TypeOK, Locals
<1>28. CASE UNCHANGED vars
  BY <1>0, <1>28 DEF vars, Types, TypeOK, Locals
<1> QED
  BY <1>1, <1>2, <1>3, <1>4, <1>5, <1>6, <1>7, <1>8, <1>9, <1>10, <1>11, <1>12,
     <1>13, <1>14, <1>15, <1>16, <1>17, <1>18, <1>19, <1>20, <1>21, <1>22, <1>23,
     <1>24, <1>25, <1>26, <1>27, <1>28
     DEF Next, WorkerStep, CallStep, MailStep
-----------------------------------------------------------------------------
(* What the steps of a worker do to the local variables                    *)

Resting == {"idle", "keys", "complete"}
Mailers == {"lookup", "await", "delete"}

LEMMA EndsFacts ==
  ASSUME Types, NEW w \in Workers, Ends(w)
  PROVE  /\ worker'[w].at = "idle" /\ worker'[w].ids = <<>>
         /\ \A v \in Workers \ {w} : worker'[v] = worker[v]
BY DEF Ends, Idle, Types, Locals

LEMMA MovesFacts ==
  ASSUME Types, NEW w \in Workers, NEW a \in WorkerSteps, Moves(w, a)
  PROVE  /\ worker'[w].at = a /\ worker'[w].key = worker[w].key
         /\ worker'[w].ids = worker[w].ids /\ worker'[w].pos = worker[w].pos
         /\ worker'[w].attempt = worker[w].attempt
         /\ \A v \in Workers \ {w} : worker'[v] = worker[v]
<1> DEFINE u == [worker[w] EXCEPT !.at = a]
<1>1. worker[w] \in WorkerType /\ worker \in [Workers -> WorkerType]
  BY DEF Types, Locals
<1>2. /\ u.at = a /\ u.key = worker[w].key /\ u.pos = worker[w].pos
      /\ u.ids = worker[w].ids /\ u.attempt = worker[w].attempt
  BY <1>1, UpdateAt
<1>3. worker' = [worker EXCEPT ![w] = u]
  BY DEF Moves
<1> HIDE DEF u
<1>4. worker'[w] = u /\ \A v \in Workers \ {w} : worker'[v] = worker[v]
  BY <1>1, <1>3
<1> QED
  BY <1>2, <1>4

\* A worker sets out on a key that KEYS returned, or finds that there is none.
LEMMA FindBatchFacts ==
  ASSUME Types, NEW w \in Workers, FindBatch(w)
  PROVE  /\ \A v \in Workers \ {w} : worker'[v] = worker[v]
         /\ worker[w].at = "keys" /\ worker'[w].ids \in {worker[w].ids, <<>>}
         /\ \/ worker'[w].at = "idle"
            \/ worker'[w].at = "get" /\ worker'[w].key \in BatchKeys
            \/ worker'[w].at = "complete" /\ BatchKeys = {} /\ worker'[w].seen = queued
<1>1. worker[w] \in WorkerType /\ worker \in [Workers -> WorkerType]
  BY DEF Types, Locals
<1>2. CASE BatchKeys = {} /\ worker' = [worker EXCEPT ![w].at = "complete", ![w].seen = queued]
  <2> DEFINE u == [worker[w] EXCEPT !.at = "complete", !.seen = queued]
  <2>1. u.at = "complete" /\ u.seen = queued /\ u.ids = worker[w].ids
    BY <1>1 DEF WorkerType
  <2>2. worker' = [worker EXCEPT ![w] = u]
    BY <1>2
  <2> HIDE DEF u
  <2> QED
    BY <1>1, <1>2, <2>1, <2>2 DEF FindBatch
<1>3. ASSUME NEW k \in BatchKeys,
             worker' = [worker EXCEPT ![w].at = "get", ![w].key = k]
      PROVE  /\ \A v \in Workers \ {w} : worker'[v] = worker[v]
             /\ worker[w].at = "keys" /\ worker'[w].ids \in {worker[w].ids, <<>>}
             /\ worker'[w].at = "get" /\ worker'[w].key \in BatchKeys
  <2> DEFINE u == [worker[w] EXCEPT !.at = "get", !.key = k]
  <2>1. u.at = "get" /\ u.key = k /\ u.ids = worker[w].ids
    BY <1>1 DEF WorkerType
  <2>2. worker' = [worker EXCEPT ![w] = u]
    BY <1>3
  <2> HIDE DEF u
  <2> QED
    BY <1>1, <1>3, <2>1, <2>2 DEF FindBatch
<1>4. CASE Ends(w)
  BY <1>4, EndsFacts DEF FindBatch
<1> QED
  BY <1>2, <1>3, <1>4 DEF FindBatch

LEMMA GetBatchFacts ==
  ASSUME Types, NEW w \in Workers, GetBatch(w)
  PROVE  /\ \A v \in Workers \ {w} : worker'[v] = worker[v]
         /\ worker'[w].at = "lookup" /\ worker'[w].key = worker[w].key
         /\ worker'[w].ids = payload[worker[w].key[1]] /\ worker'[w].pos = 1
<1> DEFINE ids == payload[worker[w].key[1]]
           n == attempts[worker[w].key[1]] + 1
           u == [worker[w] EXCEPT !.at = "lookup", !.ids = ids, !.pos = 1, !.attempt = n]
<1>1. worker[w] \in WorkerType /\ worker \in [Workers -> WorkerType]
  BY DEF Types, Locals
<1>2. worker' = [worker EXCEPT ![w] = u]
  BY DEF GetBatch
<1> HIDE DEF ids, n
<1>3. u.at = "lookup" /\ u.key = worker[w].key /\ u.ids = ids /\ u.pos = 1
  BY <1>1 DEF WorkerType
<1> HIDE DEF u
<1>4. worker'[w] = u /\ \A v \in Workers \ {w} : worker'[v] = worker[v]
  BY <1>1, <1>2
<1> QED
  BY <1>3, <1>4 DEF ids

LEMMA ChunkDoneFacts ==
  ASSUME Types, NEW w \in Workers, ChunkDone(w)
  PROVE  /\ \A v \in Workers \ {w} : worker'[v] = worker[v]
         /\ worker'[w].at = IF worker[w].pos + BATCH_SIZE <= Len(worker[w].ids)
                            THEN "lookup" ELSE "delete"
         /\ worker'[w].key = worker[w].key /\ worker'[w].ids = worker[w].ids
         /\ worker'[w].pos = worker[w].pos + BATCH_SIZE
<1> DEFINE next == worker[w].pos + BATCH_SIZE
           a == IF next <= Len(worker[w].ids) THEN "lookup" ELSE "delete"
           u == [worker[w] EXCEPT !.pos = next, !.at = a]
<1>1. worker[w] \in WorkerType /\ worker \in [Workers -> WorkerType]
  BY DEF Types, Locals
<1>2. worker' = [worker EXCEPT ![w] = u]
  BY <1>1 DEF ChunkDone
<1> HIDE DEF a
<1>3. u.at = a /\ u.key = worker[w].key /\ u.ids = worker[w].ids /\ u.pos = next
  BY <1>1 DEF WorkerType
<1> HIDE DEF u
<1>4. worker'[w] = u /\ \A v \in Workers \ {w} : worker'[v] = worker[v]
  BY <1>1, <1>2
<1> QED
  BY <1>3, <1>4 DEF a

LEMMA ReadRetriesFacts ==
  ASSUME Types, NEW w \in Workers, ReadRetries(w)
  PROVE  /\ \A v \in Workers \ {w} : worker'[v] = worker[v]
         /\ worker'[w].at \in {"giveUpKey", "retrySet"}
         /\ worker'[w].key = worker[w].key /\ worker'[w].ids = <<>>
<1> DEFINE n == counter[RetryKey(worker[w].key)]
           a == IF n >= MAX_RETRIES THEN "giveUpKey" ELSE "retrySet"
           u == [worker[w] EXCEPT !.retries = n, !.ids = <<>>, !.at = a]
<1>1. worker[w] \in WorkerType /\ worker \in [Workers -> WorkerType]
  BY DEF Types, Locals
<1>2. worker' = [worker EXCEPT ![w] = u]
  BY DEF ReadRetries
<1>3. a \in {"giveUpKey", "retrySet"}
  OBVIOUS
<1> HIDE DEF n, a
<1>4. u.at = a /\ u.key = worker[w].key /\ u.ids = <<>>
  BY <1>1 DEF WorkerType
<1> HIDE DEF u
<1>5. worker'[w] = u /\ \A v \in Workers \ {w} : worker'[v] = worker[v]
  BY <1>1, <1>2
<1> QED
  BY <1>3, <1>4, <1>5

\* How a worker comes to where it is after a step of its own.
CameAbout(w) ==
  /\ worker'[w].at \in Mailers => GetBatch(w) \/ LookUpChunk(w) \/ ChunkDone(w)
  /\ worker'[w].at \notin Resting =>
       \/ FindBatch(w) /\ worker'[w].at = "get" /\ worker'[w].key \in BatchKeys
       \/ worker'[w].key = worker[w].key /\ worker[w].at \notin Resting
  /\ worker'[w].at = "drop" => GetNothing(w)
  /\ worker'[w].at = "keys" => ProcessCampaign(w)
  /\ worker'[w].at = "get" => FindBatch(w)
  /\ worker'[w].at = "complete" =>
       FindBatch(w) /\ BatchKeys = {} /\ worker'[w].seen = queued
  /\ worker'[w].ids \in {worker[w].ids, <<>>} \/ GetBatch(w)

LEMMA OwnStep ==
  ASSUME Types, NEW w \in Workers, WorkerStep(w) \/ Crash(w)
  PROVE  CameAbout(w) /\ \A v \in Workers \ {w} : worker'[v] = worker[v]
<1> USE DEF Resting, Mailers
<1>1. CASE Ends(w)
  BY <1>1, EndsFacts DEF CameAbout
<1>2. CASE ProcessCampaign(w)
  BY <1>2, MovesFacts DEF ProcessCampaign, CameAbout, WorkerSteps
<1>3. CASE FindBatch(w)
  BY <1>3, FindBatchFacts DEF CameAbout
<1>4. CASE GetBatch(w)
  <2>1. worker[w].at = "get"
    BY <1>4 DEF GetBatch
  <2> QED
    BY <1>4, <2>1, GetBatchFacts DEF CameAbout
<1>5. CASE GetCounter(w)
  BY <1>5, MovesFacts DEF GetCounter, CameAbout, WorkerSteps
<1>6. CASE GetNothing(w)
  <2>1. worker[w].at = "get" /\ Moves(w, "drop")
    BY <1>6 DEF GetNothing
  <2> QED
    BY <1>6, <2>1, MovesFacts DEF CameAbout, WorkerSteps
<1>7. CASE LookUpChunk(w)
  <2>1. worker[w].at = "lookup" /\ Moves(w, "await")
    BY <1>7 DEF LookUpChunk
  <2> QED
    BY <1>7, <2>1, MovesFacts DEF CameAbout, WorkerSteps
<1>8. CASE ChunkDone(w)
  <2>1. worker[w].at = "await"
    BY <1>8 DEF ChunkDone
  <2> QED
    BY <1>8, <2>1, ChunkDoneFacts DEF CameAbout
<1>9. CASE BatchFails(w)
  <2>1. worker[w].at \in {"lookup", "delete"} /\ Moves(w, "retryGet")
    BY <1>9 DEF BatchFails
  <2> QED
    BY <2>1, MovesFacts DEF CameAbout, WorkerSteps
<1>10. CASE ReadRetries(w)
  <2>1. worker[w].at = "retryGet"
    BY <1>10 DEF ReadRetries
  <2> QED
    BY <1>10, <2>1, ReadRetriesFacts DEF CameAbout
<1>11. CASE GiveUpKey(w)
  <2>1. worker[w].at = "giveUpKey" /\ Moves(w, "giveUpCounter")
    BY <1>11 DEF GiveUpKey
  <2> QED
    BY <2>1, MovesFacts DEF CameAbout, WorkerSteps
<1>12. \/ Ends(w) \/ ProcessCampaign(w) \/ FindBatch(w) \/ GetBatch(w) \/ GetCounter(w)
       \/ GetNothing(w) \/ LookUpChunk(w) \/ ChunkDone(w) \/ BatchFails(w)
       \/ ReadRetries(w) \/ GiveUpKey(w)
  BY DEF WorkerStep, CallStep, CompleteCampaign, DropKey, DeleteBatch, CountRetry,
         GiveUpCounter, RoundFails, Crash
<1> QED
  BY <1>1, <1>2, <1>3, <1>4, <1>5, <1>6, <1>7, <1>8, <1>9, <1>10, <1>11, <1>12
-----------------------------------------------------------------------------
(* What the other steps do                                                 *)

\* The steps of the mails of a chunk: none changes what a worker holds, except
\* that a worker whose chunk fails goes to its catch block.
LEMMA TaskStep ==
  ASSUME Types, NEW t \in tasks, MailStep(t)
  PROVE  /\ \A w \in Workers :
              \/ worker'[w] = worker[w]
              \/ /\ worker[w].at = "await" /\ worker'[w].at = "retryGet"
                 /\ worker'[w].key = worker[w].key /\ worker'[w].ids = worker[w].ids
         /\ UNCHANGED <<status, payload, producer, queued, excused, late>>
         /\ events \subseteq events'
         /\ \A s \in tasks' : s \in tasks \/ (s.w = t.w /\ s.key = t.key
                                /\ s.attempt = t.attempt /\ s.r = t.r)
         /\ \A s \in tasks : s \in tasks' \/ s = t
         /\ \/ \E s \in tasks' : /\ s.w = t.w /\ s.key = t.key
                                 /\ s.attempt = t.attempt /\ s.r = t.r
            \/ t.r \in Logged'
            \/ worker[t.w].at = "await" /\ t \in TasksOf(t.w)
                 => worker'[t.w].at = "retryGet"
<1>1. t \in TaskType /\ t.w \in Workers
  BY DEF Types, TypeOK, TaskType
<1>2. ASSUME NEW a \in {"mail", "logSent", "logFailed"}, Becomes(t, a)
      PROVE  /\ \A s \in tasks' : s \in tasks \/ (s.w = t.w /\ s.key = t.key
                                    /\ s.attempt = t.attempt /\ s.r = t.r)
             /\ \A s \in tasks : s \in tasks' \/ s = t
             /\ \E s \in tasks' : /\ s.w = t.w /\ s.key = t.key
                                  /\ s.attempt = t.attempt /\ s.r = t.r
  <2> DEFINE u == [t EXCEPT !.at = a]
  <2>1. u.w = t.w /\ u.key = t.key /\ u.attempt = t.attempt /\ u.r = t.r
    BY <1>1, UpdateTask
  <2>2. tasks' = (tasks \ {t}) \union {u}
    BY <1>2 DEF Becomes
  <2> HIDE DEF u
  <2> QED
    BY <2>1, <2>2
<1>3. ASSUME NEW logged \in BOOLEAN, MailAccepted(t, logged)
      PROVE  Becomes(t, "logSent") /\ events \subseteq events'
             /\ UNCHANGED <<status, payload, producer, queued, excused, late, worker>>
  BY <1>3 DEF MailAccepted, redis, history
<1>4. CASE MailRefused(t) \/ LogSentFails(t)
  <2>1. /\ Becomes(t, "logSent") \/ Becomes(t, "logFailed")
        /\ UNCHANGED <<status, payload, producer, queued, excused, late, worker, events>>
    BY <1>4 DEF MailRefused, LogSentFails, redis, history
  <2> QED
    BY <1>2, <2>1
<1>5. CASE LogWritten(t)
  <2>1. t.r \in Logged'
    <3>1. PICK x : <<t.r, x>> \in events'
      BY <1>5 DEF LogWritten
    <3> QED
      BY <3>1 DEF Logged
  <2> QED
    BY <1>5, <2>1 DEF LogWritten, redis, history
<1>6. CASE LogFailedFails(t)
  <2>1. tasks' = tasks \ {t}
        /\ UNCHANGED <<status, payload, producer, queued, excused, late, events>>
    BY <1>6 DEF LogFailedFails, redis, history, CountsFailure
  <2>2. CASE worker[t.w].at = "await" /\ t \in TasksOf(t.w)
    <3>1. Moves(t.w, "retryGet")
      BY <1>6, <2>2 DEF LogFailedFails
    <3> QED
      BY <1>1, <2>1, <2>2, <3>1, MovesFacts DEF WorkerSteps
  <2>3. CASE ~(worker[t.w].at = "await" /\ t \in TasksOf(t.w))
    <3>1. worker' = worker
      BY <1>6, <2>3 DEF LogFailedFails
    <3> QED
      BY <2>1, <2>3, <3>1
  <2> QED
    BY <2>2, <2>3
<1> QED
  BY <1>2, <1>3, <1>4, <1>5, <1>6 DEF MailStep

\* What a step of a worker leaves to itself: the tasks of the others, the queue
\* of recipients and the mail events.
LEMMA WorkerFrame ==
  ASSUME Types, NEW w \in Workers, WorkerStep(w) \/ Crash(w)
  PROVE  /\ UNCHANGED <<producer, queued, events>> /\ excused \subseteq excused'
         /\ \A t \in tasks : t.w # w => t \in tasks'
         /\ LookUpChunk(w) \/ tasks' \subseteq tasks
         /\ LookUpChunk(w) \/ GiveUpKey(w) \/ excused' = excused
<1> USE DEF redis, mail, history
<1>1. CASE LookUpChunk(w)
  BY <1>1 DEF LookUpChunk
<1>2. CASE GiveUpKey(w)
  BY <1>2 DEF GiveUpKey
<1>3. CASE Crash(w)
  BY <1>3 DEF Crash
<1>4. CASE BatchFails(w)
  BY <1>4 DEF BatchFails, CountsFailure
<1>5. CASE ProcessCampaign(w) \/ FindBatch(w) \/ CompleteCampaign(w) \/ RoundFails(w)
  BY <1>5 DEF ProcessCampaign, FindBatch, CompleteCampaign, RoundFails
<1>6. CASE GetBatch(w) \/ GetCounter(w) \/ GetNothing(w) \/ DropKey(w)
  BY <1>6 DEF GetBatch, GetCounter, GetNothing, DropKey
<1>7. CASE ChunkDone(w) \/ DeleteBatch(w) \/ ReadRetries(w)
  BY <1>7 DEF ChunkDone, DeleteBatch, ReadRetries
<1>8. CASE CountRetry(w) \/ GiveUpCounter(w)
  BY <1>8 DEF CountRetry, GiveUpCounter
<1> QED
  BY <1>1, <1>2, <1>3, <1>4, <1>5, <1>6, <1>7, <1>8 DEF WorkerStep, CallStep

\* The steps of everybody else.
OtherStep ==
  \/ StartSending \/ Cancel \/ \E r \in Leavers : Unsubscribe(r)
  \/ AddToCampaignQueue \/ AddToCampaignQueueFails \/ UNCHANGED vars

LEMMA NextCases ==
  [Next]_vars <=> \/ OtherStep
                  \/ \E w \in Workers : WorkerStep(w) \/ Crash(w)
                  \/ \E t \in tasks : MailStep(t)
BY DEF Next, OtherStep

LEMMA OtherFrame ==
  ASSUME OtherStep
  PROVE  /\ UNCHANGED <<worker, tasks, events, excused>> /\ queued \subseteq queued'
         /\ \/ AddToCampaignQueue
            \/ UNCHANGED <<payload, queued>>
         /\ \/ AddToCampaignQueue \/ AddToCampaignQueueFails \/ producer' = producer
BY DEF OtherStep, StartSending, Cancel, Unsubscribe, AddToCampaignQueue,
       AddToCampaignQueueFails, vars, redis, mail, history

-----------------------------------------------------------------------------
(* Types, and how far a worker goes on after a cancel                      *)

LEMMA TypeInit == Init => Types
<1> SUFFICES ASSUME Init PROVE Types
  OBVIOUS
<1>1. <<>> \in Seq(Recipients) /\ 0 \in 0 .. MAX_RETRIES /\ 0 \in 0 .. MaxFaults
  OBVIOUS
<1>2. LocalOK(Idle) /\ Idle \in WorkerType
  BY <1>1 DEF LocalOK, Idle, WorkerType, WorkerSteps
<1>3. Locals
  BY <1>2 DEF Init, Locals
<1>4. producer \in [call : 1 .. Len(Calls) + 1, batch : Batches \union {1}]
  BY LenProperties DEF Init
<1> QED
  BY <1>1, <1>3, <1>4 DEF Init, Types, TypeOK, Locals

\* All variables keep their types (the module's variables as declared).
THEOREM TypeCorrect == Spec => []TypeOK
<1>1. Init => Types
  BY TypeInit
<1>2. Types /\ [Next]_vars => Types'
  BY TypeStep
<1>3. Types => TypeOK
  BY DEF Types
<1> QED
  BY <1>1, <1>2, <1>3, PTL DEF Spec

\* A worker that has looked at the status lately has begun nothing since.
LateOK ==
  /\ status = "SENDING" => \A w \in Workers : late[w] = 0
  /\ \A w \in Workers : worker[w].at \in {"keys", "get"} => late[w] = 0
  /\ StopsAfterOneBatch

LEMMA LateStep == Types /\ LateOK /\ [Next]_vars => LateOK'
<1> SUFFICES ASSUME Types, LateOK, [Next]_vars PROVE LateOK'
  OBVIOUS
<1> USE DEF redis, mail, history
<1>0. late \in [Workers -> Nat]
  BY DEF Types, TypeOK
<1>1. CASE OtherStep
  <2>1. CASE StartSending
    <3>1. \A w \in Workers : late'[w] = 0
      BY <2>1 DEF StartSending
    <3> QED
      BY <3>1 DEF LateOK, StopsAfterOneBatch
  <2>2. CASE ~StartSending
    <3>1. UNCHANGED late /\ (status' = "SENDING" => status = "SENDING")
      BY <1>1, <2>2 DEF OtherStep, Cancel, Unsubscribe, AddToCampaignQueue,
                        AddToCampaignQueueFails, vars
    <3> QED
      BY <1>1, <3>1, OtherFrame DEF LateOK, StopsAfterOneBatch
  <2> QED
    BY <2>1, <2>2
<1>2. ASSUME NEW w \in Workers, GetBatch(w) PROVE LateOK'
  <2>1. worker'[w].at = "lookup" /\ \A v \in Workers \ {w} : worker'[v] = worker[v]
    BY <1>2, GetBatchFacts
  <2>2. late[w] = 0 /\ status' = status
    BY <1>2 DEF GetBatch, LateOK
  <2>3. \A v \in Workers \ {w} : late'[v] = late[v]
    BY <1>0, <1>2 DEF GetBatch
  <2>4. late'[w] = IF status = "SENDING" THEN 0 ELSE 1
    BY <1>0, <1>2, <2>2 DEF GetBatch
  <2> QED
    BY <2>1, <2>2, <2>3, <2>4 DEF LateOK, StopsAfterOneBatch
<1>3. ASSUME NEW w \in Workers, WorkerStep(w) \/ Crash(w), ~GetBatch(w) PROVE LateOK'
  <2>1. CameAbout(w) /\ \A v \in Workers \ {w} : worker'[v] = worker[v]
    BY <1>3, OwnStep
  <2>2. UNCHANGED late /\ (status' = "SENDING" => status = "SENDING")
    BY <1>3 DEF WorkerStep, CallStep, Crash, ProcessCampaign, FindBatch,
         CompleteCampaign, GetCounter, GetNothing, DropKey, LookUpChunk, ChunkDone,
         DeleteBatch, BatchFails, CountsFailure, ReadRetries, CountRetry, GiveUpKey,
         GiveUpCounter, RoundFails
  <2>3. ASSUME worker'[w].at \in {"keys", "get"} PROVE late[w] = 0
    <3>1. CASE ProcessCampaign(w)
      BY <3>1 DEF ProcessCampaign, LateOK
    <3>2. CASE FindBatch(w)
      BY <3>2 DEF FindBatch, LateOK
    <3> QED
      BY <2>1, <2>3, <3>1, <3>2 DEF CameAbout
  <2> QED
    BY <2>1, <2>2, <2>3 DEF LateOK, StopsAfterOneBatch
<1>4. ASSUME NEW t \in tasks, MailStep(t) PROVE LateOK'
  <2>1. /\ UNCHANGED <<status, late>>
        /\ \A w \in Workers : worker'[w] = worker[w] \/ worker'[w].at = "retryGet"
    BY <1>4, TaskStep
  <2> QED
    BY <2>1 DEF LateOK, StopsAfterOneBatch
<1> QED
  BY <1>1, <1>2, <1>3, <1>4, NextCases

\* After a campaign has stopped, each worker begins one more batch at most, for
\* any number of batches, workers, calls and faults (processCampaign 122-130).
THEOREM CancelStops == Spec => []StopsAfterOneBatch
<1>1. Init => Types /\ LateOK
  BY TypeInit DEF Init, LateOK, StopsAfterOneBatch
<1>2. Types /\ LateOK /\ [Next]_vars => (Types /\ LateOK)'
  BY TypeStep, LateStep
<1>3. LateOK => StopsAfterOneBatch
  BY DEF LateOK
<1> QED
  BY <1>1, <1>2, <1>3, PTL DEF Spec
-----------------------------------------------------------------------------
(* No recipient is lost. With one call of addToCampaignQueue, a key once       *)
(* written holds its batch of that call or nothing, and a worker's positions   *)
(* in a batch say who has been dealt with; what DEL takes away is then settled *)

\* The first call's batches never collide with those of another.
OneCall == Len(Calls) <= 1

Settled == Logged \union excused
Produced(b) == producer.call > 1 \/ b < producer.batch

Payloads == \A b \in Batches :
  payload[b] # <<>> => Produced(b) /\ payload[b] = Batch(Calls[1], b)

Picked == \A w \in Workers :
  worker[w].at \notin Resting /\ worker[w].key[2] = 0 =>
    /\ Produced(worker[w].key[1])
    /\ worker[w].at = "drop" => payload[worker[w].key[1]] = <<>>

\* The first position that the present chunk does not reach.
Reached(w) == worker[w].pos + (IF worker[w].at = "await" THEN BATCH_SIZE ELSE 0)

Mailed(w) ==
  worker[w].at \in Mailers =>
    /\ worker[w].ids = Batch(Calls[1], worker[w].key[1])
    /\ \A i \in 1 .. Len(worker[w].ids) :
         \/ worker[w].ids[i] \in Settled
         \/ worker[w].at # "delete" /\ i >= Reached(w)
         \/ worker[w].at = "await" /\ \E t \in TasksOf(w) : t.r = worker[w].ids[i]

Mailing == \A w \in Workers : Mailed(w)

InQueue ==
  /\ \A b \in Batches : Range(payload[b]) \subseteq queued
  /\ \A w \in Workers : Range(worker[w].ids) \subseteq queued
  /\ \A t \in tasks : t.r \in queued

IInv == /\ Types /\ Payloads /\ Picked /\ Mailing /\ InQueue
        /\ NoRecipientLost /\ CompletedMeansHandled

\* Nobody settled is ever owed again, and nobody leaves `queued'.
LEMMA SettledGrows ==
  ASSUME Types, [Next]_vars
  PROVE  Settled \subseteq Settled' /\ queued \subseteq queued'
<1>1. events \subseteq events' /\ excused \subseteq excused' /\ queued \subseteq queued'
  BY NextCases, OtherFrame, WorkerFrame, TaskStep
<1> QED
  BY <1>1 DEF Settled, Logged

LEMMA BatchesFact == Batches \subseteq Nat \ {0}
BY DEF Batches

\* The call that is under way writes its batches in order.
LEMMA AddFacts ==
  ASSUME OneCall, Types, AddToCampaignQueue
  PROVE  /\ producer.call = 1 /\ producer.batch \in Batches
         /\ payload' = [payload EXCEPT ![producer.batch] = Batch(Calls[1], producer.batch)]
         /\ queued' = queued \union Range(Batch(Calls[1], producer.batch))
         /\ \/ producer'.call > 1
            \/ producer'.call = 1 /\ producer'.batch = producer.batch + 1
<1>1. producer \in [call : 1 .. Len(Calls) + 1, batch : Batches \union {1}]
  BY DEF Types, TypeOK
<1>2. producer.call = 1 /\ 1 \in DOMAIN Calls
  BY <1>1, LenProperties DEF OneCall, AddToCampaignQueue
<1>3. Calls[1] \in Seq(Recipients)
  BY <1>2, ElementOfSeq, LenProperties
<1>4. BatchCount(Calls[1]) \in Int
  BY <1>3, CountFacts
<1>5. producer.batch \in Batches
  BY <1>1, <1>2, <1>4, BatchesFact DEF AddToCampaignQueue, Batches
<1>6. \/ producer' = [producer EXCEPT !.batch = producer.batch + 1]
      \/ producer' = [call |-> producer.call + 1, batch |-> 1]
  BY DEF AddToCampaignQueue
<1>7. \/ producer'.call > 1
      \/ producer'.call = 1 /\ producer'.batch = producer.batch + 1
  BY <1>1, <1>2, <1>6
<1> QED
  BY <1>2, <1>5, <1>7 DEF AddToCampaignQueue

\* A batch that was written stays written.
LEMMA ProducedStays ==
  ASSUME OneCall, Types, [Next]_vars, NEW b \in Batches, Produced(b)
  PROVE  Produced(b)'
<1>0. producer \in [call : 1 .. Len(Calls) + 1, batch : Batches \union {1}]
  BY DEF Types, TypeOK
<1>1. producer.call \in Nat /\ producer.batch \in Nat /\ b \in Nat
  <2>1. producer.call \in 1 .. Len(Calls) + 1 /\ producer.batch \in Batches \union {1}
    BY <1>0
  <2>2. Len(Calls) \in Nat
    OBVIOUS
  <2>3. producer.call \in Nat
    BY <2>1, <2>2
  <2>4. \A x \in Batches \union {1} : x \in Nat
    BY BatchesFact
  <2> QED
    BY <2>1, <2>3, <2>4
<1>2. CASE AddToCampaignQueue
  BY <1>1, <1>2, AddFacts DEF Produced
<1>3. CASE AddToCampaignQueueFails
  <2>1. producer' = [call |-> producer.call + 1, batch |-> 1] /\ producer.call >= 1
    BY <1>3 DEF AddToCampaignQueueFails, Types, TypeOK
  <2> QED
    BY <1>1, <2>1 DEF Produced
<1>4. CASE producer' = producer
  BY <1>4 DEF Produced
<1> QED
  BY <1>2, <1>3, <1>4, NextCases, OtherFrame, WorkerFrame, TaskStep

\* What DEL of a key takes out of the queue.
LEMMA DeleteFacts ==
  ASSUME Types, NEW k, Delete(k), NEW b \in Batches
  PROVE  payload'[b] = payload[b] \/ (payload'[b] = <<>> /\ k[2] = 0 /\ b = k[1])
BY DEF Delete, PayloadWithout, Types, TypeOK

\* A key is deleted only when its recipients are settled, or become excused.
LEMMA PayloadStep ==
  ASSUME OneCall, IInv, [Next]_vars, NEW b \in Batches
  PROVE  \/ payload'[b] = payload[b]
         \/ payload'[b] = <<>> /\ Range(payload[b]) \subseteq Settled'
         \/ AddToCampaignQueue /\ b = producer.batch
<1> DEFINE Gone == payload'[b] = <<>> /\ Range(payload[b]) \subseteq Settled'
<1>0. Types /\ Settled \subseteq Settled'
  BY SettledGrows DEF IInv
<1>e. Range(<<>>) = {}
  BY DEF Range
<1>1. CASE OtherStep
  <2>1. CASE AddToCampaignQueue
    BY <1>0, <2>1, AddFacts DEF Types, TypeOK
  <2> QED
    BY <1>1, <2>1, OtherFrame
<1>2. ASSUME NEW w \in Workers, DropKey(w) PROVE payload'[b] = payload[b] \/ Gone
  <2>1. worker[w].at = "drop" /\ Delete(worker[w].key)
    BY <1>2 DEF DropKey
  <2>2. worker[w].key[2] = 0 => payload[worker[w].key[1]] = <<>>
    BY <2>1 DEF IInv, Picked, Resting
  <2> QED
    BY <1>0, <1>e, <2>1, <2>2, DeleteFacts
<1>3. ASSUME NEW w \in Workers, worker[w].at = "delete", Delete(worker[w].key)
      PROVE  payload'[b] = payload[b] \/ Gone
  <2>1. /\ worker[w].ids = Batch(Calls[1], worker[w].key[1])
        /\ \A i \in 1 .. Len(worker[w].ids) : worker[w].ids[i] \in Settled
    BY <1>3 DEF IInv, Mailing, Mailed, Mailers
  <2>2. worker[w].ids \in Seq(Recipients)
    BY <1>0, Fields DEF Types, Locals
  <2>3. Range(worker[w].ids) \subseteq Settled
    BY <2>1, <2>2, LenProperties DEF Range
  <2>4. ASSUME payload[b] # <<>>, b = worker[w].key[1] PROVE payload[b] = worker[w].ids
    BY <2>1, <2>4 DEF IInv, Payloads
  <2> QED
    BY <1>0, <1>e, <1>3, <2>3, <2>4, DeleteFacts
<1>4. ASSUME NEW w \in Workers, GiveUpKey(w) PROVE payload'[b] = payload[b] \/ Gone
  <2>1. Delete(worker[w].key)
    BY <1>4 DEF GiveUpKey
  <2>2. worker[w].key[2] = 0 => Range(payload[worker[w].key[1]]) \subseteq Settled'
    BY <1>4 DEF GiveUpKey, Settled
  <2> QED
    BY <1>0, <2>1, <2>2, DeleteFacts
<1>5. ASSUME NEW w \in Workers, GiveUpCounter(w) PROVE payload' = payload
  <2>1. RetryKey(worker[w].key)[2] # 0
    BY <1>0, <1>5 DEF GiveUpCounter, RetryKey, Types, Locals, LocalOK
  <2> QED
    BY <1>5, <2>1 DEF GiveUpCounter, Delete, PayloadWithout
<1>6. ASSUME NEW w \in Workers, WorkerStep(w) \/ Crash(w)
      PROVE  \/ payload' = payload
             \/ DropKey(w) \/ GiveUpKey(w) \/ GiveUpCounter(w)
             \/ worker[w].at = "delete" /\ Delete(worker[w].key)
  BY <1>6 DEF WorkerStep, CallStep, Crash, ProcessCampaign, FindBatch,
       CompleteCampaign, GetBatch, GetCounter, GetNothing, LookUpChunk, ChunkDone,
       DeleteBatch, BatchFails, ReadRetries, CountRetry, RoundFails, redis
<1>7. ASSUME NEW t \in tasks, MailStep(t) PROVE payload' = payload
  BY <1>0, <1>7, TaskStep
<1> QED
  BY <1>1, <1>2, <1>3, <1>4, <1>5, <1>6, <1>7, NextCases

LEMMA PayloadsStep == OneCall /\ IInv /\ [Next]_vars => Payloads'
<1> SUFFICES ASSUME OneCall, IInv, [Next]_vars, NEW b \in Batches, payload'[b] # <<>>
             PROVE  Produced(b)' /\ payload'[b] = Batch(Calls[1], b)
  BY DEF Payloads
<1>0. Types
  BY DEF IInv
<1>1. CASE payload'[b] = payload[b]
  BY <1>0, <1>1, ProducedStays DEF IInv, Payloads
<1>2. CASE AddToCampaignQueue /\ b = producer.batch
  <2>1. payload'[b] = Batch(Calls[1], b)
    BY <1>0, <1>2, AddFacts DEF Types, TypeOK
  <2>2. b \in Nat
    BY BatchesFact
  <2>3. Produced(b)'
    BY <1>0, <1>2, <2>2, AddFacts DEF Produced
  <2> QED
    BY <2>1, <2>3
<1> QED
  BY <1>1, <1>2, PayloadStep

\* A batch that was written and is gone stays away.
LEMMA GoneStays ==
  ASSUME OneCall, IInv, [Next]_vars, NEW b \in Batches, Produced(b), payload[b] = <<>>
  PROVE  payload'[b] = <<>>
<1>1. ASSUME AddToCampaignQueue PROVE b # producer.batch
  BY <1>1, AddFacts, BatchesFact DEF IInv, Produced
<1> QED
  BY <1>1, PayloadStep

LEMMA PickedStep == OneCall /\ IInv /\ [Next]_vars => Picked'
<1> SUFFICES ASSUME OneCall, IInv, [Next]_vars, NEW w \in Workers,
                    worker'[w].at \notin Resting, worker'[w].key[2] = 0
             PROVE  /\ Produced(worker[w].key[1])'
                    /\ worker'[w].at = "drop" => payload'[worker'[w].key[1]] = <<>>
  BY DEF Picked
<1>0. Types /\ Types'
  BY TypeStep DEF IInv
<1>1. PICK b \in Batches : b = worker'[w].key[1]
  BY <1>0 DEF Types, Locals, LocalOK, Resting
<1> SUFFICES Produced(b)' /\ (worker'[w].at = "drop" => payload'[b] = <<>>)
  BY <1>1 DEF Produced
<1>2. CASE /\ worker'[w].key = worker[w].key /\ worker[w].at \notin Resting
           /\ worker'[w].at = "drop" => worker[w].at = "drop" \/ payload[b] = <<>>
  <2>1. /\ Produced(worker[w].key[1])
        /\ worker[w].at = "drop" => payload[worker[w].key[1]] = <<>>
    BY <1>2 DEF IInv, Picked
  <2>2. Produced(b) /\ (worker'[w].at = "drop" => payload[b] = <<>>)
    BY <1>1, <1>2, <2>1
  <2> QED
    BY <1>0, <2>2, ProducedStays, GoneStays
<1>3. CASE WorkerStep(w) \/ Crash(w)
  <2>1. CameAbout(w)
    BY <1>0, <1>3, OwnStep
  <2>2. ASSUME worker'[w].at = "get", worker'[w].key \in BatchKeys PROVE Produced(b)
    <3>1. payload[b] # <<>>
      BY <2>2, <1>1 DEF BatchKeys, Depths
    <3> QED
      BY <1>1, <3>1 DEF IInv, Payloads
  <2>3. ASSUME GetNothing(w), worker'[w].key = worker[w].key PROVE payload[b] = <<>>
    BY <1>1, <2>3 DEF GetNothing
  <2>4. CASE worker'[w].at = "get" /\ worker'[w].key \in BatchKeys
    BY <1>0, <2>2, <2>4, ProducedStays
  <2>5. CASE worker'[w].key = worker[w].key /\ worker[w].at \notin Resting
    BY <1>2, <2>1, <2>3, <2>5 DEF CameAbout
  <2> QED
    BY <2>1, <2>4, <2>5 DEF CameAbout
<1>4. ASSUME NEW v \in Workers \ {w}, WorkerStep(v) \/ Crash(v) PROVE worker'[w] = worker[w]
  BY <1>0, <1>4, OwnStep
<1>5. CASE worker'[w] = worker[w]
  BY <1>2, <1>5
<1>6. ASSUME NEW t \in tasks, MailStep(t)
      PROVE  \/ worker'[w] = worker[w]
             \/ /\ worker'[w].at = "retryGet" /\ worker'[w].key = worker[w].key
                /\ worker[w].at \notin Resting
  BY <1>0, <1>6, TaskStep DEF Resting
<1> QED
  BY <1>2, <1>3, <1>4, <1>5, <1>6, NextCases, OtherFrame

\* A worker that does not move has dealt with whom it had dealt with, as long as
\* its mails are under way or have left an event.
LEMMA MailedStays ==
  ASSUME Types, [Next]_vars, NEW w \in Workers, Mailed(w), worker'[w] = worker[w],
         worker[w].at = "await" =>
           \A t \in TasksOf(w) : \/ t.r \in Settled'
                                 \/ \E s \in TasksOf(w)' : s.r = t.r
  PROVE  Mailed(w)'
<1>1. Settled \subseteq Settled'
  BY SettledGrows
<1>2. Reached(w)' = Reached(w)
  BY DEF Reached
<1> QED
  BY <1>1, <1>2 DEF Mailed

LEMMA MailingStep == OneCall /\ IInv /\ [Next]_vars => Mailing'
<1> SUFFICES ASSUME OneCall, IInv, [Next]_vars, NEW w \in Workers PROVE Mailed(w)'
  BY DEF Mailing
<1>0. Types /\ Mailed(w) /\ Settled \subseteq Settled'
  BY SettledGrows DEF IInv, Mailing
<1>1. CASE worker'[w].at \notin Mailers
  BY <1>1 DEF Mailed
<1>2. CASE worker' = worker /\ tasks' = tasks
  BY <1>0, <1>2, MailedStays DEF TasksOf
<1>3. ASSUME NEW v \in Workers \ {w}, WorkerStep(v) \/ Crash(v) PROVE Mailed(w)'
  <2>1. worker'[w] = worker[w] /\ \A t \in tasks : t.w # v => t \in tasks'
    BY <1>0, <1>3, OwnStep, WorkerFrame
  <2>2. \A t \in TasksOf(w) : t \in TasksOf(w)'
    BY <2>1 DEF TasksOf
  <2> QED
    BY <1>0, <2>1, <2>2, MailedStays
<1>4. CASE GetBatch(w)
  <2>1. /\ worker'[w].at = "lookup" /\ worker'[w].key = worker[w].key
        /\ worker'[w].ids = payload[worker[w].key[1]] /\ worker'[w].pos = 1
    BY <1>0, <1>4, GetBatchFacts
  <2>2. worker[w].key[1] \in Batches /\ payload[worker[w].key[1]] # <<>>
    BY <1>0, <1>4 DEF GetBatch, Types, Locals, LocalOK
  <2>3. worker'[w].ids = Batch(Calls[1], worker'[w].key[1])
    BY <2>1, <2>2 DEF IInv, Payloads
  <2>4. Reached(w)' = 1
    BY <2>1 DEF Reached
  <2> QED
    BY <2>1, <2>3, <2>4 DEF Mailed
<1>5. CASE LookUpChunk(w)
  <2> DEFINE ids == worker[w].ids
             pos == worker[w].pos
             chunk == Range(Slice(ids, pos, BATCH_SIZE))
  <2>1. worker[w].at = "lookup" /\ Moves(w, "await")
    BY <1>5 DEF LookUpChunk
  <2>2. /\ worker'[w].at = "await" /\ worker'[w].ids = ids /\ worker'[w].pos = pos
        /\ worker'[w].key = worker[w].key /\ worker'[w].attempt = worker[w].attempt
    BY <1>0, <2>1, MovesFacts DEF WorkerSteps
  <2>3. ids \in Seq(Recipients) /\ pos \in Nat \ {0}
    BY <1>0, <2>1, Fields DEF Types, Locals, LocalOK
  <2>4. \A i \in pos .. pos + BATCH_SIZE - 1 : i <= Len(ids) => ids[i] \in chunk
    BY <2>3, SliceFacts
  <2>5. \A r \in chunk : r \in Settled' \/ \E t \in TasksOf(w)' : t.r = r
    <3> SUFFICES ASSUME NEW r \in chunk
                 PROVE  r \in Settled' \/ \E t \in TasksOf(w)' : t.r = r
      OBVIOUS
    <3>1. CASE r \in active
      <4> DEFINE t == [w |-> w, key |-> worker[w].key, attempt |-> worker[w].attempt,
                       r |-> r, at |-> "mail"]
      <4>1. t \in tasks'
        BY <1>5, <3>1 DEF LookUpChunk
      <4>2. t.w = w /\ t.key = worker[w].key /\ t.attempt = worker[w].attempt /\ t.r = r
        OBVIOUS
      <4> HIDE DEF t
      <4> QED
        BY <2>2, <4>1, <4>2 DEF TasksOf
    <3>2. CASE r \notin active
      BY <1>5, <3>2 DEF LookUpChunk, Settled
    <3> QED
      BY <3>1, <3>2
  <2>6. Reached(w) = pos /\ Reached(w)' = pos + BATCH_SIZE
    BY <2>1, <2>2, <2>3 DEF Reached
  <2>7. /\ ids = Batch(Calls[1], worker[w].key[1])
        /\ \A i \in 1 .. Len(ids) : ids[i] \in Settled \/ i >= pos
    BY <1>0, <2>1, <2>6 DEF Mailed, Mailers
  <2> HIDE DEF ids, pos, chunk
  <2>8. ASSUME NEW i \in 1 .. Len(ids)
        PROVE  \/ ids[i] \in Settled' \/ i >= pos + BATCH_SIZE
               \/ \E t \in TasksOf(w)' : t.r = ids[i]
    <3>1. Len(ids) \in Nat
      BY <2>3, LenProperties
    <3>2. i < pos \/ i >= pos + BATCH_SIZE \/ i \in pos .. pos + BATCH_SIZE - 1
      BY <2>3, <3>1
    <3>3. CASE i \in pos .. pos + BATCH_SIZE - 1
      <4>1. ids[i] \in chunk
        BY <2>3, <2>4, <3>1, <3>3
      <4> QED
        BY <2>5, <4>1
    <3>4. CASE i < pos
      BY <1>0, <2>3, <2>7, <3>1, <3>4
    <3> QED
      BY <3>2, <3>3, <3>4
  <2>9. Len(worker'[w].ids) = Len(ids) /\ \A i \in 1 .. Len(ids) : worker'[w].ids[i] = ids[i]
    BY <2>2
  <2> QED
    BY <2>2, <2>6, <2>7, <2>8, <2>9 DEF Mailed
<1>6. CASE ChunkDone(w)
  <2> DEFINE ids == worker[w].ids
             next == worker[w].pos + BATCH_SIZE
  <2>1. worker[w].at = "await" /\ TasksOf(w) = {}
    BY <1>6 DEF ChunkDone
  <2>2. /\ worker'[w].at = IF next <= Len(ids) THEN "lookup" ELSE "delete"
        /\ worker'[w].ids = ids /\ worker'[w].pos = next
        /\ worker'[w].key = worker[w].key
    BY <1>0, <1>6, ChunkDoneFacts
  <2>3. ids \in Seq(Recipients) /\ worker[w].pos \in Nat \ {0}
    BY <1>0, <2>1, Fields DEF Types, Locals, LocalOK
  <2>4. next \in Nat /\ Len(ids) \in Nat
    BY <2>3, LenProperties
  <2>5. /\ ids = Batch(Calls[1], worker[w].key[1])
        /\ \A i \in 1 .. Len(ids) : ids[i] \in Settled \/ i >= next
    BY <1>0, <2>1 DEF Mailed, Mailers, Reached
  <2> HIDE DEF ids, next
  <2>6. worker'[w].at # "await" /\ Reached(w)' = next
    BY <2>2, <2>4 DEF Reached
  <2>7. worker'[w].at = "delete" => \A i \in 1 .. Len(ids) : i < next
    BY <2>2, <2>4
  <2>8. \A i \in 1 .. Len(ids) :
          ids[i] \in Settled' \/ (worker'[w].at # "delete" /\ i >= next)
    BY <1>0, <2>4, <2>5, <2>7
  <2> QED
    BY <2>2, <2>5, <2>6, <2>8 DEF Mailed
<1>7. CASE (WorkerStep(w) \/ Crash(w)) /\ ~GetBatch(w) /\ ~LookUpChunk(w) /\ ~ChunkDone(w)
  BY <1>0, <1>1, <1>7, OwnStep DEF CameAbout
<1>8. ASSUME NEW t \in tasks, MailStep(t) PROVE Mailed(w)'
  <2>1. CASE worker'[w].at = "retryGet"
    BY <1>1, <2>1 DEF Mailers
  <2>2. CASE worker'[w] = worker[w] /\ worker'[w].at # "retryGet"
    <3>1. ASSUME worker[w].at = "await", NEW s \in TasksOf(w)
          PROVE  s.r \in Settled' \/ \E u \in TasksOf(w)' : u.r = s.r
      <4>1. CASE s \in tasks'
        BY <2>2, <4>1 DEF TasksOf
      <4>2. CASE s = t
        <5>1. \/ \E u \in tasks' : /\ u.w = t.w /\ u.key = t.key
                                   /\ u.attempt = t.attempt /\ u.r = t.r
              \/ t.r \in Logged'
              \/ worker[t.w].at = "await" /\ t \in TasksOf(t.w)
                   => worker'[t.w].at = "retryGet"
          BY <1>0, <1>8, TaskStep
        <5>2. t.w = w /\ t \in TasksOf(w)
          BY <4>2 DEF TasksOf
        <5> QED
          BY <2>2, <3>1, <4>2, <5>1, <5>2 DEF TasksOf, Settled
      <4> QED
        BY <1>0, <1>8, <4>1, <4>2, TaskStep DEF TasksOf
    <3> QED
      BY <1>0, <2>2, <3>1, MailedStays
  <2> QED
    BY <1>0, <1>8, <2>1, <2>2, TaskStep
<1> QED
  BY <1>2, <1>3, <1>4, <1>5, <1>6, <1>7, <1>8, NextCases, OtherFrame

LEMMA InQueueStep == OneCall /\ IInv /\ [Next]_vars => InQueue'
<1> SUFFICES ASSUME OneCall, IInv, [Next]_vars PROVE InQueue'
  OBVIOUS
<1>0. Types /\ InQueue /\ queued \subseteq queued' /\ Range(<<>>) = {}
  BY SettledGrows DEF IInv, Range
<1>1. ASSUME NEW b \in Batches PROVE Range(payload'[b]) \subseteq queued'
  <2>1. CASE payload'[b] = payload[b] \/ payload'[b] = <<>>
    BY <1>0, <2>1 DEF InQueue
  <2>2. CASE AddToCampaignQueue /\ b = producer.batch
    BY <1>0, <2>2, AddFacts DEF Types, TypeOK
  <2> QED
    BY <2>1, <2>2, PayloadStep
<1>2. ASSUME NEW w \in Workers PROVE Range(worker'[w].ids) \subseteq queued'
  <2>1. CASE worker'[w].ids \in {worker[w].ids, <<>>}
    BY <1>0, <2>1 DEF InQueue
  <2>2. CASE GetBatch(w)
    <3>1. worker'[w].ids = payload[worker[w].key[1]] /\ worker[w].key[1] \in Batches
      BY <1>0, <2>2, GetBatchFacts DEF GetBatch, Types, Locals, LocalOK
    <3> QED
      BY <1>0, <3>1 DEF InQueue
  <2>3. ASSUME NEW v \in Workers, WorkerStep(v) \/ Crash(v)
        PROVE  worker'[w].ids \in {worker[w].ids, <<>>} \/ GetBatch(w)
    BY <1>0, <2>3, OwnStep DEF CameAbout
  <2>4. ASSUME NEW t \in tasks, MailStep(t) PROVE worker'[w].ids = worker[w].ids
    BY <1>0, <2>4, TaskStep
  <2> QED
    BY <2>1, <2>2, <2>3, <2>4, NextCases, OtherFrame
<1>3. ASSUME NEW t \in tasks' PROVE t.r \in queued'
  <2>1. CASE t \in tasks
    BY <1>0, <2>1 DEF InQueue
  <2>2. ASSUME NEW w \in Workers, LookUpChunk(w), t \notin tasks PROVE t.r \in queued'
    <3> DEFINE slice == Slice(worker[w].ids, worker[w].pos, BATCH_SIZE)
    <3>1. worker[w].ids \in Seq(Recipients) /\ worker[w].pos \in Nat \ {0}
      BY <1>0, <2>2, Fields DEF LookUpChunk, Types, Locals, LocalOK
    <3>2. Range(slice) \subseteq Range(worker[w].ids)
      BY <3>1, SliceFacts
    <3>3. t.r \in Range(slice)
      BY <2>2 DEF LookUpChunk
    <3> QED
      BY <1>0, <3>2, <3>3 DEF InQueue
  <2>3. ASSUME NEW u \in tasks, MailStep(u) PROVE t.r \in queued'
    <3>1. t \in tasks \/ t.r = u.r
      BY <1>0, <2>3, TaskStep
    <3> QED
      BY <1>0, <3>1 DEF InQueue
  <2> QED
    BY <1>0, <2>1, <2>2, <2>3, NextCases, OtherFrame, WorkerFrame
<1> QED
  BY <1>1, <1>2, <1>3 DEF InQueue

LEMMA NoneLostStep == OneCall /\ IInv /\ [Next]_vars => NoRecipientLost'
<1> SUFFICES ASSUME OneCall, IInv, [Next]_vars, NEW r \in queued'
             PROVE  r \in Waiting' \/ r \in Settled'
  BY DEF NoRecipientLost, Settled
<1>0. Types /\ Settled \subseteq Settled'
  BY SettledGrows DEF IInv
<1>1. CASE r \in queued
  <2>1. CASE r \in Settled
    BY <1>0, <2>1
  <2>2. CASE r \notin Settled
    <3>1. PICK b \in Batches : r \in Range(payload[b])
      BY <1>1, <2>2 DEF IInv, NoRecipientLost, Waiting, Settled
    <3>2. ASSUME AddToCampaignQueue PROVE b # producer.batch
      <4>1. payload[b] # <<>>
        BY <3>1 DEF Range
      <4> QED
        BY <1>0, <3>2, <4>1, AddFacts, BatchesFact DEF IInv, Payloads, Produced
    <3>3. payload'[b] = payload[b] \/ Range(payload[b]) \subseteq Settled'
      BY <3>2, PayloadStep
    <3> QED
      BY <3>1, <3>3 DEF Waiting
  <2> QED
    BY <2>1, <2>2
<1>2. CASE r \notin queued
  <2>1. AddToCampaignQueue
    BY <1>0, <1>2, NextCases, OtherFrame, WorkerFrame, TaskStep
  <2>2. /\ producer.batch \in Batches
        /\ payload'[producer.batch] = Batch(Calls[1], producer.batch)
        /\ r \in Range(Batch(Calls[1], producer.batch))
    BY <1>0, <1>2, <2>1, AddFacts DEF Types, TypeOK
  <2> QED
    BY <2>2 DEF Waiting
<1> QED
  BY <1>1, <1>2

\* Nothing waits when KEYS returns nothing.
LEMMA NoKeys == ASSUME NoRecipientLost, BatchKeys = {} PROVE queued \subseteq Settled
<1>1. \A b \in Batches : payload[b] = <<>>
  BY DEF BatchKeys
<1>2. Waiting = {}
  BY <1>1 DEF Waiting, Range
<1> QED
  BY <1>2 DEF NoRecipientLost, Settled

LEMMA HandledStep == OneCall /\ IInv /\ [Next]_vars => CompletedMeansHandled'
<1> SUFFICES ASSUME OneCall, IInv, [Next]_vars, NEW w \in Workers,
                    worker'[w].at = "complete"
             PROVE  worker'[w].seen \subseteq Settled'
  BY DEF CompletedMeansHandled, Settled
<1>0. Types /\ Settled \subseteq Settled'
  BY SettledGrows DEF IInv
<1>1. CASE worker'[w] = worker[w]
  BY <1>0, <1>1 DEF IInv, CompletedMeansHandled, Settled
<1>2. CASE WorkerStep(w) \/ Crash(w)
  BY <1>0, <1>2, OwnStep, NoKeys DEF CameAbout, IInv
<1>3. ASSUME NEW v \in Workers \ {w}, WorkerStep(v) \/ Crash(v) PROVE worker'[w] = worker[w]
  BY <1>0, <1>3, OwnStep
<1>4. ASSUME NEW t \in tasks, MailStep(t) PROVE worker'[w] = worker[w]
  BY <1>0, <1>4, TaskStep
<1> QED
  BY <1>1, <1>2, <1>3, <1>4, NextCases, OtherFrame

LEMMA IInvInit == Init => IInv
<1> SUFFICES ASSUME Init PROVE IInv
  OBVIOUS
<1>1. Types
  BY TypeInit
<1>2. /\ \A b \in Batches : payload[b] = <<>>
      /\ \A w \in Workers : worker[w].at = "idle" /\ worker[w].ids = <<>>
      /\ tasks = {} /\ queued = {} /\ Range(<<>>) = {}
  BY DEF Init, Idle, Range
<1> QED
  BY <1>1, <1>2 DEF IInv, Payloads, Picked, Resting, Mailing, Mailed, Mailers, InQueue,
       NoRecipientLost, CompletedMeansHandled

LEMMA IInvStep == OneCall /\ IInv /\ [Next]_vars => IInv'
<1>1. IInv /\ [Next]_vars => Types'
  BY TypeStep DEF IInv
<1> QED
  BY <1>1, PayloadsStep, PickedStep, MailingStep, InQueueStep, NoneLostStep, HandledStep
     DEF IInv

\* Whatever fails or dies, and however many workers compete, a recipient who was
\* queued waits in a key, has a mail event or was passed over, when the campaign
\* is enqueued once (addToCampaignQueue 287-305, processCampaign 151-189).
THEOREM NoneIsLost == ASSUME OneCall PROVE Spec => []NoRecipientLost
<1>1. IInv /\ [Next]_vars => IInv'
  BY IInvStep
<1>2. IInv => NoRecipientLost
  BY DEF IInv
<1> QED
  BY IInvInit, <1>1, <1>2, PTL DEF Spec

\* A worker about to set COMPLETED has seen everyone queued until then dealt with
\* (processCampaign 136-148).
THEOREM CompletionIsEarned == ASSUME OneCall PROVE Spec => []CompletedMeansHandled
<1>1. IInv /\ [Next]_vars => IInv'
  BY IInvStep
<1>2. IInv => CompletedMeansHandled
  BY DEF IInv
<1> QED
  BY IInvInit, <1>1, <1>2, PTL DEF Spec

-----------------------------------------------------------------------------
(* The queue implements Delivery                                           *)

LEMMA DeliveryInit == Init => D!Init
BY DEF Init, Idle, D!Init, Logged

\* Who decides that the campaign is complete, and when.
LEMMA JudgedStep ==
  ASSUME IInv, [Next]_vars
  PROVE  \/ /\ (\E w \in Workers : worker'[w].at = "complete")
            /\ (\E w \in Workers : worker[w].at = "complete") \/ queued \subseteq Settled
         \/ ~ \E w \in Workers : worker'[w].at = "complete"
<1> SUFFICES ASSUME NEW w \in Workers, worker'[w].at = "complete",
                    worker[w].at # "complete"
             PROVE  queued \subseteq Settled
  OBVIOUS
<1>0. Types
  BY DEF IInv
<1>1. CASE WorkerStep(w) \/ Crash(w)
  BY <1>0, <1>1, OwnStep, NoKeys DEF CameAbout, IInv
<1>2. ASSUME NEW v \in Workers \ {w}, WorkerStep(v) \/ Crash(v) PROVE FALSE
  BY <1>0, <1>2, OwnStep
<1>3. ASSUME NEW t \in tasks, MailStep(t) PROVE FALSE
  BY <1>0, <1>3, TaskStep
<1> QED
  BY <1>1, <1>2, <1>3, NextCases, OtherFrame

Judged == \E w \in Workers : worker[w].at = "complete"
Completed == status = "COMPLETED"

\* What Delivery asks of a step, by what changes.
LEMMA Stutters ==
  ASSUME queued' = queued, Settled' = Settled, Judged' <=> Judged, Completed' <=> Completed
  PROVE  UNCHANGED D!vars
<1>1. Judged' = Judged /\ Completed' = Completed
  BY Zenon
<1> QED
  BY <1>1, Zenon DEF D!vars, Settled, Judged, Completed

LEMMA Queues ==
  ASSUME NEW S \in SUBSET Recipients, queued' = queued \union S, Settled' = Settled,
         Judged' <=> Judged, Completed' <=> Completed
  PROVE  D!Next
<1>1. Judged' = Judged /\ Completed' = Completed
  BY Zenon
<1>2. D!Queue(S)
  BY <1>1, Zenon DEF D!Queue, Settled, Judged, Completed
<1> QED
  BY <1>2, Zenon DEF D!Next

LEMMA Settles ==
  ASSUME IInv, queued' = queued, Settled \subseteq Settled',
         Settled' \subseteq Settled \union queued,
         Judged' <=> Judged, Completed' <=> Completed
  PROVE  D!Next
<1> DEFINE S == Settled' \ Settled
<1>1. Judged' = Judged /\ Completed' = Completed
  BY Zenon
<1>2. S \subseteq queued /\ S \in SUBSET Recipients /\ Settled' = Settled \union S
  BY DEF IInv, Types, TypeOK
<1> HIDE DEF S
<1>3. D!Settle(S)
  BY <1>1, <1>2, Zenon DEF D!Settle, Settled, Judged, Completed
<1> QED
  BY <1>2, <1>3, Zenon DEF D!Next

LEMMA Judges ==
  ASSUME IInv, [Next]_vars, queued' = queued, Settled' = Settled, Completed' <=> Completed
  PROVE  [D!Next]_D!vars
<1>0. Completed' = Completed
  BY Zenon
<1>1. CASE ~Judged'
  <2>1. Judged' = FALSE
    BY <1>1 DEF Judged
  <2>2. D!Forget
    BY <1>0, <2>1, Zenon DEF D!Forget, Settled, Judged, Completed
  <2> QED
    BY <2>2, Zenon DEF D!Next
<1>2. CASE Judged' /\ Judged
  BY <1>2, Stutters
<1>3. CASE Judged' /\ queued \subseteq Settled
  <2>1. Judged' = TRUE
    BY <1>3, Zenon
  <2>2. D!Judge
    BY <1>0, <1>3, <2>1, Zenon DEF D!Judge, Settled, Judged, Completed
  <2> QED
    BY <2>2, Zenon DEF D!Next
<1> QED
  BY <1>1, <1>2, <1>3, JudgedStep DEF Judged

LEMMA Completes ==
  ASSUME Judged, Completed', queued' = queued, Settled' = Settled
  PROVE  D!Next
<1>1. Completed' = TRUE /\ Judged' \in BOOLEAN
  BY Zenon DEF Judged
<1>2. D!Complete
  BY <1>1, Zenon DEF D!Complete, Settled, Judged, Completed
<1> QED
  BY <1>2, Zenon DEF D!Next

LEMMA Reopens ==
  ASSUME ~Completed', Judged' <=> Judged, queued' = queued, Settled' = Settled
  PROVE  D!Next
<1>1. Completed' = FALSE
  BY DEF Completed
<1>2. Judged' = Judged
  BY Zenon
<1>3. D!Reopen
  BY <1>1, <1>2, Zenon DEF D!Reopen, Settled, Judged, Completed
<1> QED
  BY <1>3, Zenon DEF D!Next

LEMMA DeliveryStep == OneCall /\ IInv /\ [Next]_vars => [D!Next]_D!vars
<1> SUFFICES ASSUME OneCall, IInv, [Next]_vars PROVE [D!Next]_D!vars
  OBVIOUS
<1>0. Types /\ InQueue
  BY DEF IInv
<1>1. ASSUME OtherStep PROVE [D!Next]_D!vars
  <2>1. (Judged' <=> Judged) /\ Settled' = Settled
    BY <1>1, OtherFrame DEF Judged, Settled, Logged
  <2>2. CASE StartSending \/ Cancel
    <3>1. ~Completed' /\ queued' = queued
      BY <2>2 DEF StartSending, Cancel, Completed, history
    <3> QED
      BY <2>1, <3>1, Reopens
  <2>3. CASE AddToCampaignQueue
    <3>1. queued' = queued \union Range(Batch(Calls[1], producer.batch))
          /\ producer.batch \in Batches /\ producer.call = 1
      BY <1>0, <2>3, AddFacts
    <3>2. queued' \subseteq Recipients
      BY TypeStep DEF IInv, Types, TypeOK
    <3>3. Range(Batch(Calls[1], producer.batch)) \in SUBSET Recipients
      BY <3>1, <3>2
    <3>4. Completed' <=> Completed
      BY <2>3 DEF AddToCampaignQueue, Completed
    <3> QED
      BY <2>1, <3>1, <3>3, <3>4, Queues
  <2>4. CASE ~StartSending /\ ~Cancel /\ ~AddToCampaignQueue
    <3>1. (Completed' <=> Completed) /\ queued' = queued
      BY <1>1, <2>4 DEF OtherStep, Unsubscribe, AddToCampaignQueueFails, vars, history,
                        Completed
    <3> QED
      BY <2>1, <3>1, Stutters
  <2> QED
    BY <2>2, <2>3, <2>4
<1>2. ASSUME NEW w \in Workers, CompleteCampaign(w) PROVE [D!Next]_D!vars
  <2>1. Judged /\ Completed' /\ queued' = queued /\ Settled' = Settled
    BY <1>2 DEF CompleteCampaign, mail, history, Judged, Completed, Settled, Logged
  <2> QED
    BY <2>1, Completes
<1>3. ASSUME NEW w \in Workers, LookUpChunk(w) \/ GiveUpKey(w) PROVE [D!Next]_D!vars
  <2>1. worker[w].at # "complete" /\ worker'[w].at # "complete"
    <3>1. worker[w].at # "complete" /\ (Moves(w, "await") \/ Moves(w, "giveUpCounter"))
      BY <1>3 DEF LookUpChunk, GiveUpKey
    <3> QED
      BY <1>0, <3>1, MovesFacts DEF WorkerSteps
  <2>2. \A v \in Workers \ {w} : worker'[v] = worker[v]
    BY <1>0, <1>3, OwnStep DEF WorkerStep, CallStep
  <2>3. Judged' <=> Judged
    BY <2>1, <2>2 DEF Judged
  <2>4. queued' = queued /\ (Completed' <=> Completed) /\ events' = events
    BY <1>3 DEF LookUpChunk, GiveUpKey, mail, Completed
  <2>5. excused \subseteq excused' /\ excused' \subseteq excused \union queued
    <3>1. CASE LookUpChunk(w)
      <4> DEFINE slice == Slice(worker[w].ids, worker[w].pos, BATCH_SIZE)
      <4>1. worker[w].ids \in Seq(Recipients) /\ worker[w].pos \in Nat \ {0}
        BY <1>0, <3>1, Fields DEF LookUpChunk, Types, Locals, LocalOK
      <4>2. Range(slice) \subseteq Range(worker[w].ids)
        BY <4>1, SliceFacts
      <4>3. excused' = excused \union (Range(slice) \ active)
        BY <3>1 DEF LookUpChunk
      <4> QED
        BY <1>0, <4>2, <4>3 DEF InQueue
    <3>2. CASE GiveUpKey(w)
      <4>1. worker[w].key[1] \in Batches
        BY <1>0, <3>2 DEF GiveUpKey, Types, Locals, LocalOK
      <4> QED
        BY <1>0, <3>2, <4>1 DEF GiveUpKey, InQueue
    <3> QED
      BY <1>3, <3>1, <3>2
  <2>6. Settled \subseteq Settled' /\ Settled' \subseteq Settled \union queued
    BY <2>4, <2>5 DEF Settled, Logged
  <2> QED
    BY <2>3, <2>4, <2>6, Settles
<1>4. ASSUME NEW w \in Workers, WorkerStep(w) \/ Crash(w), ~CompleteCampaign(w),
             ~LookUpChunk(w), ~GiveUpKey(w)
      PROVE  [D!Next]_D!vars
  <2>1. UNCHANGED <<queued, events, excused>>
    BY <1>0, <1>4, WorkerFrame
  <2>2. UNCHANGED status
    BY <1>4 DEF WorkerStep, CallStep, Crash, ProcessCampaign, FindBatch, GetBatch,
         GetCounter, GetNothing, DropKey, ChunkDone, DeleteBatch, BatchFails,
         ReadRetries, CountRetry, GiveUpCounter, RoundFails
  <2>3. queued' = queued /\ Settled' = Settled /\ (Completed' <=> Completed)
    BY <2>1, <2>2 DEF Settled, Logged, Completed
  <2> QED
    BY <2>3, Judges
<1>5. ASSUME NEW t \in tasks, MailStep(t) PROVE [D!Next]_D!vars
  <2>1. Judged' <=> Judged
    <3>1. \A w \in Workers : worker'[w].at = "complete" <=> worker[w].at = "complete"
      BY <1>0, <1>5, TaskStep
    <3> QED
      BY <3>1 DEF Judged
  <2>2. queued' = queued /\ (Completed' <=> Completed) /\ excused' = excused
    BY <1>0, <1>5, TaskStep DEF Completed
  <2>3. events \subseteq events' /\ \A e \in events' : e \in events \/ e[1] = t.r
    BY <1>5 DEF MailStep, MailAccepted, MailRefused, LogWritten, LogSentFails,
                LogFailedFails, history
  <2>4. t.r \in queued
    BY <1>0 DEF InQueue
  <2>5. Settled \subseteq Settled' /\ Settled' \subseteq Settled \union queued
    BY <2>2, <2>3, <2>4 DEF Settled, Logged
  <2> QED
    BY <2>1, <2>2, <2>5, Settles
<1> QED
  BY <1>1, <1>2, <1>3, <1>4, <1>5, NextCases

\* The queue does what Delivery promises, with any number of workers, failures and
\* crashes, for a campaign enqueued once (addToCampaignQueue 271-310,
\* processCampaign 116-190).
THEOREM QueueImplementsDelivery == ASSUME OneCall PROVE Spec => DeliverySpec
<1>1. IInv /\ [Next]_vars => IInv'
  BY IInvStep
<1>2. IInv /\ [Next]_vars => [D!Next]_D!vars
  BY DeliveryStep
<1> QED
  BY IInvInit, DeliveryInit, <1>1, <1>2, PTL DEF Spec, DeliverySpec, D!Spec
=============================================================================
