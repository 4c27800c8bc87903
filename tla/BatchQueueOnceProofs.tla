------------------------ MODULE BatchQueueOnceProofs ------------------------
(* Proofs about BatchQueue: a recipient mailed twice has a cause. Without a   *)
(* fault and without two workers at a batch, the position a worker has        *)
(* reached in its batch separates the recipients who may have been mailed     *)
(* from those who cannot have been.                                           *)
EXTENDS BatchQueueProofs, SumFacts

USE DataAssumption, LimitsAssumption DEF DataAssumption, LimitsAssumption

-----------------------------------------------------------------------------
(* A recipient has one place in the batches                                *)

\* No recipient is in a call twice, as campaign_recipients has no recipient of a
\* campaign twice. (A list that names one twice has him mailed in two chunks.)
Unique == \A c \in DOMAIN Calls : IsInjective(Calls[c])

\* The elements of a slice, by their place in the sequence.
LEMMA SlicePlaces ==
  ASSUME NEW S, NEW ids \in Seq(S), NEW first \in Nat \ {0}, NEW n \in Nat,
         NEW i \in DOMAIN Slice(ids, first, n)
  PROVE  /\ i \in 1 .. n /\ first + i - 1 \in DOMAIN ids
         /\ Slice(ids, first, n)[i] = ids[first + i - 1]
<1> DEFINE last == IF first + n - 1 < Len(ids) THEN first + n - 1 ELSE Len(ids)
           slice == SubSeq(ids, first, last)
<1>1. last \in Int /\ first \in Int /\ last <= Len(ids) /\ last <= first + n - 1
  BY LenProperties
<1>2. \A j \in first .. last : j \in 1 .. Len(ids) /\ ids[j] \in S
  BY <1>1, LenProperties, ElementOfSeq
<1>3. /\ slice \in Seq(S)
      /\ Len(slice) = IF first <= last THEN last - first + 1 ELSE 0
      /\ \A j \in 1 .. last - first + 1 : slice[j] = ids[first + j - 1]
  BY <1>1, <1>2, SubSeqProperties
<1>4. i \in DOMAIN slice
  BY DEF Slice
<1> HIDE DEF slice
<1>5. i \in 1 .. last - first + 1
  BY <1>1, <1>3, <1>4, LenProperties
<1>6. first + i - 1 \in first .. last
  BY <1>1, <1>5
<1>7. slice[i] = ids[first + i - 1] /\ i \in 1 .. n
  BY <1>1, <1>3, <1>5
<1>8. first + i - 1 \in DOMAIN ids
  BY <1>2, <1>6, LenProperties
<1> QED
  BY <1>7, <1>8 DEF Slice, slice

\* Where the recipients of a chunk are in their batch.
LEMMA ChunkPlaces ==
  ASSUME NEW ids \in Seq(Recipients), NEW pos \in Nat \ {0},
         NEW r \in Range(Slice(ids, pos, BATCH_SIZE))
  PROVE  \E i \in DOMAIN ids : /\ i \in Nat /\ ids[i] = r
                               /\ i >= pos /\ i < pos + BATCH_SIZE
<1>1. PICK k \in DOMAIN Slice(ids, pos, BATCH_SIZE) : Slice(ids, pos, BATCH_SIZE)[k] = r
  BY DEF Range
<1>2. BATCH_SIZE \in Nat
  OBVIOUS
<1>3. /\ k \in 1 .. BATCH_SIZE /\ pos + k - 1 \in DOMAIN ids
      /\ ids[pos + k - 1] = r
  BY <1>1, <1>2, SlicePlaces
<1> QED
  BY <1>3

\* Different batches begin a batch apart.
LEMMA Apart ==
  ASSUME NEW b \in Nat \ {0}, NEW c \in Nat \ {0}, b < c
  PROVE  (c - 1) * BatchLimit >= (b - 1) * BatchLimit + BatchLimit
<1>1. \A L \in Nat, k \in Nat, d \in Nat : (k + 1 + d) * L = k * L + L + d * L /\ d * L \in Nat
  OBVIOUS
<1> DEFINE k == b - 1
           d == c - 1 - b
<1>2. k \in Nat /\ d \in Nat /\ c - 1 = k + 1 + d /\ b - 1 = k
  OBVIOUS
<1>3. k * BatchLimit \in Nat
  BY <1>2
<1> HIDE DEF k, d
<1> QED
  BY <1>1, <1>2, <1>3

LEMMA OnePlace ==
  ASSUME OneCall, Unique, NEW b \in Batches, NEW c \in Batches,
         NEW i \in DOMAIN Batch(Calls[1], b), NEW j \in DOMAIN Batch(Calls[1], c),
         Batch(Calls[1], b)[i] = Batch(Calls[1], c)[j]
  PROVE  b = c /\ i = j
<1> DEFINE start(x) == (x - 1) * BatchLimit
<1>1. b \in Nat \ {0} /\ c \in Nat \ {0} /\ 1 \in DOMAIN Calls
  BY BatchesFact, LenProperties DEF OneCall, Batches
<1>2. Calls[1] \in Seq(Recipients) /\ IsInjective(Calls[1])
  BY <1>1, ElementOfSeq, LenProperties DEF Unique
<1>3. start(b) \in Nat /\ start(c) \in Nat
  <2>1. \A k \in Nat : k * BatchLimit \in Nat
    BY SMT
  <2> QED
    BY <1>1, <2>1
<1>4. /\ b < c => start(c) >= start(b) + BatchLimit
      /\ c < b => start(b) >= start(c) + BatchLimit
  BY <1>1, Apart
<1> DEFINE p == start(b)
           q == start(c)
<1>5. /\ i \in 1 .. BatchLimit /\ p + 1 + i - 1 \in DOMAIN Calls[1]
      /\ Batch(Calls[1], b)[i] = Calls[1][p + 1 + i - 1]
  <2>1. p + 1 \in Nat \ {0} /\ Batch(Calls[1], b) = Slice(Calls[1], p + 1, BatchLimit)
    BY <1>3 DEF Batch
  <2> HIDE DEF p
  <2> QED
    BY <1>2, <2>1, SlicePlaces
<1>6. /\ j \in 1 .. BatchLimit /\ q + 1 + j - 1 \in DOMAIN Calls[1]
      /\ Batch(Calls[1], c)[j] = Calls[1][q + 1 + j - 1]
  <2>1. q + 1 \in Nat \ {0} /\ Batch(Calls[1], c) = Slice(Calls[1], q + 1, BatchLimit)
    BY <1>3 DEF Batch
  <2> HIDE DEF q
  <2> QED
    BY <1>2, <2>1, SlicePlaces
<1>7. p + 1 + i - 1 = q + 1 + j - 1
  BY <1>2, <1>5, <1>6 DEF IsInjective
<1>8. p \in Nat /\ q \in Nat /\ (b < c => q >= p + BatchLimit) /\ (c < b => p >= q + BatchLimit)
  BY <1>3, <1>4
<1>9. b = c => p = q
  OBVIOUS
<1> HIDE DEF p, q
<1> QED
  BY <1>1, <1>5, <1>6, <1>7, <1>8, <1>9

-----------------------------------------------------------------------------
(* Without faults and without two workers at a batch                       *)

Clear == faults = 0 /\ ~overlapped

\* The catch block is not entered, and no counter is written.
Calm ==
  /\ \A w \in Workers :
       worker[w].at \notin {"retryGet", "retrySet", "giveUpKey", "giveUpCounter"}
  /\ \A k \in Batches \X Depths : counter[k] = 0
  /\ \A t \in tasks : t.at # "logFailed"

\* A batch is mailed by one worker at a time, and its key is there meanwhile.
Alone ==
  /\ \A w \in Workers : worker[w].at \in Mailers => payload[worker[w].key[1]] # <<>>
  /\ \A v, w \in Workers :
       worker[v].at \in Mailers /\ worker[w].at \in Mailers
         /\ worker[v].key[1] = worker[w].key[1] => v = w

\* Position i of batch b has been looked up.
Begun(b, i) ==
  /\ Produced(b)
  /\ payload[b] # <<>> =>
       \E w \in Workers :
         worker[w].at \in Mailers /\ worker[w].key[1] = b /\ i < Reached(w)

Passed(r) ==
  \E b \in Batches : \E i \in DOMAIN Batch(Calls[1], b) :
    Batch(Calls[1], b)[i] = r /\ Begun(b, i)

Mails == {t \in tasks : t.at = "mail"}

\* Who was mailed, or is being mailed, has been looked up, and only once.
Once ==
  /\ \A r \in Recipients : delivered[r] <= 1
  /\ \A r \in Recipients : delivered[r] > 0 => Passed(r)
  /\ \A t \in Mails : delivered[t.r] = 0 /\ Passed(t.r)
  /\ \A s, t \in Mails : s.r = t.r => s = t

ClearInv == Clear => Calm /\ Alone /\ Once

\* The steps that count no fault.
SafeWorkerStep(w) ==
  \/ ProcessCampaign(w) \/ FindBatch(w) \/ CompleteCampaign(w) \/ GetBatch(w)
  \/ GetNothing(w) \/ DropKey(w) \/ LookUpChunk(w) \/ ChunkDone(w) \/ DeleteBatch(w)

SafeMailStep(t) ==
  (\E logged \in BOOLEAN : MailAccepted(t, logged)) \/ MailRefused(t) \/ LogWritten(t)

\* A fault leaves its trace: whatever is clear was clear before, and the step
\* was one without a fault.
LEMMA ClearSteps ==
  ASSUME IInv, ClearInv, [Next]_vars, Clear'
  PROVE  /\ Clear /\ Calm /\ Alone /\ Once
         /\ \/ OtherStep
            \/ \E w \in Workers : SafeWorkerStep(w)
            \/ \E t \in tasks : SafeMailStep(t)
<1> USE DEF redis, mail, history
<1>0. faults \in Nat /\ faults' = 0 /\ ~overlapped' /\ Types
  BY DEF IInv, Types, TypeOK, Clear
<1>1. ~Fault
  BY <1>0 DEF Fault
<1>2. CASE OtherStep
  <2>1. UNCHANGED <<faults, overlapped>>
    BY <1>1, <1>2 DEF OtherStep, StartSending, Cancel, Unsubscribe, AddToCampaignQueue,
         AddToCampaignQueueFails, vars
  <2> QED
    BY <1>0, <1>2, <2>1 DEF Clear, ClearInv
<1>3. ASSUME NEW w \in Workers, WorkerStep(w) \/ Crash(w)
      PROVE  Clear /\ Calm /\ Alone /\ Once /\ SafeWorkerStep(w)
  <2>1. ~Crash(w) /\ ~BatchFails(w) /\ ~RoundFails(w)
    BY <1>1 DEF Crash, BatchFails, RoundFails
  <2>2. CASE GetBatch(w)
    BY <1>0, <2>2 DEF GetBatch, Clear, ClearInv, SafeWorkerStep
  <2>3. CASE ReadRetries(w) \/ CountRetry(w) \/ GiveUpKey(w) \/ GiveUpCounter(w)
    <3>1. UNCHANGED <<faults, overlapped>>
      BY <2>3 DEF ReadRetries, CountRetry, GiveUpKey, GiveUpCounter
    <3>2. Calm
      BY <1>0, <3>1 DEF Clear, ClearInv
    <3> QED
      BY <2>3, <3>2 DEF Calm, ReadRetries, CountRetry, GiveUpKey, GiveUpCounter
  <2>4. CASE GetCounter(w)
    <3>1. UNCHANGED <<faults, overlapped>>
      BY <2>4 DEF GetCounter
    <3>2. Calm
      BY <1>0, <3>1 DEF Clear, ClearInv
    <3>3. worker[w].key \in Batches \X Depths
      <4>1. worker[w].key \in Batches \X (0 .. MaxDepth) /\ worker[w].key[2] > 0
        BY <1>0, <2>4 DEF GetCounter, Types, Locals, LocalOK
      <4>2. \A k \in Batches \X (0 .. MaxDepth) : k[2] > 0 => k \in Batches \X Depths
        BY DEF Depths
      <4> QED
        BY <4>1, <4>2
    <3> QED
      BY <2>4, <3>2, <3>3 DEF Calm, GetCounter
  <2>5. CASE \/ ProcessCampaign(w) \/ FindBatch(w) \/ CompleteCampaign(w)
             \/ GetNothing(w) \/ DropKey(w)
    <3>1. UNCHANGED <<faults, overlapped>>
      BY <2>5 DEF ProcessCampaign, FindBatch, CompleteCampaign, GetNothing, DropKey
    <3> QED
      BY <1>0, <2>5, <3>1 DEF Clear, ClearInv, SafeWorkerStep
  <2>6. CASE LookUpChunk(w) \/ ChunkDone(w) \/ DeleteBatch(w)
    <3>1. UNCHANGED <<faults, overlapped>>
      BY <2>6 DEF LookUpChunk, ChunkDone, DeleteBatch
    <3> QED
      BY <1>0, <2>6, <3>1 DEF Clear, ClearInv, SafeWorkerStep
  <2> QED
    BY <1>3, <2>1, <2>2, <2>3, <2>4, <2>5, <2>6 DEF WorkerStep, CallStep
<1>4. ASSUME NEW t \in tasks, MailStep(t)
      PROVE  Clear /\ Calm /\ Alone /\ Once /\ SafeMailStep(t)
  <2>1. ~LogSentFails(t)
    BY <1>1 DEF LogSentFails
  <2>2. UNCHANGED <<faults, overlapped>>
    BY <1>4, <2>1 DEF MailStep, MailAccepted, MailRefused, LogWritten, LogFailedFails,
         CountsFailure
  <2>3. Clear /\ Calm /\ Alone /\ Once
    BY <1>0, <2>2 DEF Clear, ClearInv
  <2>4. ~LogFailedFails(t)
    BY <2>3 DEF Calm, LogFailedFails
  <2> QED
    BY <1>4, <2>1, <2>3, <2>4 DEF MailStep, SafeMailStep
<1> QED
  BY <1>2, <1>3, <1>4, NextCases

\* What becomes of a worker when nothing fails: it goes on with its batch, begins
\* one, or has nothing to do with one.
LEMMA Goings ==
  ASSUME IInv, ClearInv, [Next]_vars, Clear', NEW w \in Workers
  PROVE  \/ worker'[w] = worker[w]
         \/ GetBatch(w) \/ LookUpChunk(w) \/ ChunkDone(w)
         \/ DeleteBatch(w) /\ worker'[w].at = "idle"
         \/ worker[w].at \notin Mailers /\ worker'[w].at \notin Mailers
<1>0. Types
  BY DEF IInv
<1>1. CASE OtherStep
  BY <1>1, OtherFrame
<1>2. CASE SafeWorkerStep(w)
  <2>1. CASE GetBatch(w) \/ LookUpChunk(w) \/ ChunkDone(w)
    BY <2>1
  <2>2. CASE DeleteBatch(w)
    BY <1>0, <2>2, EndsFacts DEF DeleteBatch
  <2>3. CASE ProcessCampaign(w) \/ FindBatch(w) \/ CompleteCampaign(w)
    <3>1. worker[w].at \in {"idle", "keys", "complete"} /\ CameAbout(w)
      BY <1>0, <2>3, OwnStep DEF ProcessCampaign, FindBatch, CompleteCampaign, WorkerStep,
           CallStep
    <3> QED
      BY <3>1 DEF CameAbout, Mailers, GetBatch, LookUpChunk, ChunkDone
  <2>4. CASE GetNothing(w) \/ DropKey(w)
    <3>1. worker[w].at \in {"get", "drop"} /\ (Moves(w, "drop") \/ Ends(w))
      BY <2>4 DEF GetNothing, DropKey
    <3>2. worker'[w].at \in {"drop", "idle"}
      BY <1>0, <3>1, MovesFacts, EndsFacts DEF WorkerSteps
    <3> QED
      BY <3>1, <3>2 DEF Mailers
  <2> QED
    BY <1>2, <2>1, <2>2, <2>3, <2>4 DEF SafeWorkerStep
<1>3. ASSUME NEW v \in Workers \ {w}, SafeWorkerStep(v) PROVE worker'[w] = worker[w]
  <2>1. WorkerStep(v)
    BY <1>3 DEF SafeWorkerStep, WorkerStep, CallStep
  <2> QED
    BY <1>0, <2>1, OwnStep
<1>4. ASSUME NEW t \in tasks, SafeMailStep(t) PROVE worker' = worker
  BY <1>4 DEF SafeMailStep, MailAccepted, MailRefused, LogWritten
<1> QED
  BY <1>1, <1>2, <1>3, <1>4, ClearSteps

LEMMA CalmStep == ASSUME IInv, ClearInv, [Next]_vars, Clear' PROVE Calm'
<1>0. Types /\ Calm
  BY ClearSteps DEF IInv
<1>1. CASE OtherStep
  <2>1. UNCHANGED <<worker, tasks, counter>>
    BY <1>1 DEF OtherStep, StartSending, Cancel, Unsubscribe, AddToCampaignQueue,
         AddToCampaignQueueFails, vars, redis, mail
  <2> QED
    BY <1>0, <2>1 DEF Calm
<1>2. ASSUME NEW w \in Workers, SafeWorkerStep(w) PROVE Calm'
  <2>1. \A v \in Workers \ {w} : worker'[v] = worker[v]
    BY <1>0, <1>2, OwnStep DEF SafeWorkerStep, WorkerStep, CallStep
  <2>2. worker'[w].at \notin {"retryGet", "retrySet", "giveUpKey", "giveUpCounter"}
    <3>1. CASE GetBatch(w) \/ ChunkDone(w)
      BY <1>0, <3>1, GetBatchFacts, ChunkDoneFacts
    <3>2. CASE FindBatch(w)
      BY <1>0, <3>2, FindBatchFacts
    <3>3. CASE ProcessCampaign(w) \/ GetNothing(w) \/ LookUpChunk(w)
      <4>1. Moves(w, "keys") \/ Moves(w, "drop") \/ Moves(w, "await")
        BY <3>3 DEF ProcessCampaign, GetNothing, LookUpChunk
      <4> QED
        BY <1>0, <4>1, MovesFacts DEF WorkerSteps
    <3>4. CASE CompleteCampaign(w) \/ DropKey(w) \/ DeleteBatch(w)
      BY <1>0, <3>4, EndsFacts DEF CompleteCampaign, DropKey, DeleteBatch
    <3> QED
      BY <1>2, <3>1, <3>2, <3>3, <3>4 DEF SafeWorkerStep
  <2>3. \A k \in Batches \X Depths : counter'[k] = 0
    <3>1. CASE DropKey(w) \/ DeleteBatch(w)
      BY <1>0, <3>1 DEF DropKey, DeleteBatch, Delete, CounterWithout, Calm, Types, TypeOK
    <3>2. CASE ~DropKey(w) /\ ~DeleteBatch(w)
      <4>1. counter' = counter
        BY <1>2, <3>2 DEF SafeWorkerStep, ProcessCampaign, FindBatch, CompleteCampaign,
             GetBatch, GetNothing, LookUpChunk, ChunkDone, redis
      <4> QED
        BY <1>0, <4>1 DEF Calm
    <3> QED
      BY <3>1, <3>2
  <2>4. \A t \in tasks' : t.at # "logFailed"
    <3>1. CASE LookUpChunk(w)
      BY <1>0, <3>1 DEF LookUpChunk, Calm
    <3>2. CASE ~LookUpChunk(w)
      <4>1. tasks' = tasks
        BY <1>2, <3>2 DEF SafeWorkerStep, ProcessCampaign, FindBatch, CompleteCampaign,
             GetBatch, GetNothing, DropKey, DeleteBatch, ChunkDone, mail
      <4> QED
        BY <1>0, <4>1 DEF Calm
    <3> QED
      BY <3>1, <3>2
  <2> QED
    BY <1>0, <2>1, <2>2, <2>3, <2>4 DEF Calm
<1>3. ASSUME NEW t \in tasks, SafeMailStep(t) PROVE Calm'
  <2>1. UNCHANGED <<worker, counter>> /\ (Becomes(t, "logSent") \/ tasks' = tasks \ {t})
    BY <1>3 DEF SafeMailStep, MailAccepted, MailRefused, LogWritten, redis
  <2>2. t \in TaskType
    BY <1>0 DEF Types, TypeOK
  <2>3. [t EXCEPT !.at = "logSent"].at = "logSent"
    BY <2>2 DEF TaskType
  <2>4. \A s \in tasks' : s.at # "logFailed"
    BY <1>0, <2>1, <2>3 DEF Becomes, Calm
  <2> QED
    BY <1>0, <2>1, <2>4 DEF Calm
<1> QED
  BY <1>1, <1>2, <1>3, ClearSteps

\* The key of the batch a worker mails.
LEMMA MailerKey ==
  ASSUME Types, NEW w \in Workers, worker[w].at \in Mailers
  PROVE  worker[w].key[1] \in Batches /\ worker[w].key = <<worker[w].key[1], 0>>
<1>1. worker[w].key \in Batches \X (0 .. MaxDepth) /\ worker[w].key[2] = 0
  BY DEF Types, Locals, LocalOK, Mailers
<1> QED
  BY <1>1

\* A delivery begins only where no other is under way.
LEMMA BegunAlone ==
  ASSUME IInv, Clear', NEW w \in Workers, GetBatch(w)
  PROVE  /\ worker[w].key[1] \in Batches /\ payload[worker[w].key[1]] # <<>>
         /\ \A v \in Workers \ {w} :
              worker[v].at \in Mailers => worker[v].key[1] # worker[w].key[1]
<1> DEFINE b == worker[w].key[1]
<1>0. Types
  BY DEF IInv
<1>1. b \in Batches /\ payload[b] # <<>>
  BY <1>0 DEF GetBatch, Types, Locals, LocalOK
<1>2. ASSUME NEW v \in Workers \ {w}, worker[v].at \in Mailers, worker[v].key[1] = b
      PROVE  FALSE
  <2>1. worker[v].key = <<b, 0>>
    BY <1>0, <1>2, MailerKey
  <2>2. worker[v].ids = Batch(Calls[1], b) /\ payload[b] = Batch(Calls[1], b)
    BY <1>1, <1>2 DEF IInv, Mailing, Mailed, Payloads
  <2>3. worker[v].ids # <<>>
    BY <1>1, <2>2
  <2> QED
    BY <2>1, <2>3 DEF GetBatch, Clear
<1> QED
  BY <1>1, <1>2

\* Who mails a batch after a step mailed it before, or begins.
LEMMA MailerOrigin ==
  ASSUME IInv, ClearInv, [Next]_vars, Clear', NEW w \in Workers, worker'[w].at \in Mailers
  PROVE  /\ worker'[w].key = worker[w].key
         /\ worker[w].at \in Mailers \/ GetBatch(w)
<1>0. Types
  BY DEF IInv
<1>1. CASE GetBatch(w)
  BY <1>0, <1>1, GetBatchFacts
<1>2. CASE LookUpChunk(w)
  <2>1. worker[w].at = "lookup" /\ Moves(w, "await")
    BY <1>2 DEF LookUpChunk
  <2> QED
    BY <1>0, <2>1, MovesFacts DEF WorkerSteps, Mailers
<1>3. CASE ChunkDone(w)
  <2>1. worker[w].at = "await"
    BY <1>3 DEF ChunkDone
  <2> QED
    BY <1>0, <1>3, <2>1, ChunkDoneFacts DEF Mailers
<1> QED
  BY <1>1, <1>2, <1>3, Goings DEF Mailers

\* Without a fault a batch leaves the queue by the worker that has mailed it.
LEMMA PayloadGoes ==
  ASSUME OneCall, IInv, ClearInv, [Next]_vars, Clear', NEW b \in Batches, payload[b] # <<>>
  PROVE  \/ payload'[b] = payload[b]
         \/ \E u \in Workers : /\ DeleteBatch(u) /\ worker[u].at \in Mailers
                               /\ worker[u].key[1] = b /\ payload'[b] = <<>>
<1>0. Types
  BY DEF IInv
<1>1. CASE OtherStep
  <2>1. CASE AddToCampaignQueue
    <3>1. b # producer.batch
      BY <1>0, <2>1, AddFacts, BatchesFact DEF IInv, Payloads, Produced
    <3> QED
      BY <1>0, <2>1, <3>1, AddFacts DEF Types, TypeOK
  <2> QED
    BY <1>1, <2>1, OtherFrame
<1>2. ASSUME NEW u \in Workers, DropKey(u) PROVE payload'[b] = payload[b]
  <2>1. worker[u].at = "drop" /\ Delete(worker[u].key)
    BY <1>2 DEF DropKey
  <2>2. worker[u].key[2] = 0 => payload[worker[u].key[1]] = <<>>
    BY <2>1 DEF IInv, Picked, Resting
  <2> QED
    BY <1>0, <2>1, <2>2, DeleteFacts
<1>3. ASSUME NEW u \in Workers, DeleteBatch(u), payload'[b] # payload[b]
      PROVE  worker[u].at \in Mailers /\ worker[u].key[1] = b /\ payload'[b] = <<>>
  <2>1. worker[u].at = "delete" /\ Delete(worker[u].key)
    BY <1>3 DEF DeleteBatch
  <2> QED
    BY <1>0, <1>3, <2>1, DeleteFacts DEF Mailers
<1>4. ASSUME NEW u \in Workers, SafeWorkerStep(u), ~DropKey(u), ~DeleteBatch(u)
      PROVE  payload' = payload
  BY <1>4 DEF SafeWorkerStep, ProcessCampaign, FindBatch, CompleteCampaign, GetBatch,
       GetNothing, LookUpChunk, ChunkDone, redis
<1>5. ASSUME NEW t \in tasks, SafeMailStep(t) PROVE payload' = payload
  BY <1>5 DEF SafeMailStep, MailAccepted, MailRefused, LogWritten, redis
<1> QED
  BY <1>1, <1>2, <1>3, <1>4, <1>5, ClearSteps

LEMMA AloneStep == ASSUME OneCall, IInv, ClearInv, [Next]_vars, Clear' PROVE Alone'
<1>0. Types /\ Alone
  BY ClearSteps DEF IInv
<1>1. ASSUME NEW w \in Workers, worker'[w].at \in Mailers
      PROVE  payload'[worker'[w].key[1]] # <<>>
  <2> DEFINE b == worker[w].key[1]
  <2>1. worker'[w].key = worker[w].key /\ (worker[w].at \in Mailers \/ GetBatch(w))
    BY <1>1, MailerOrigin
  <2>2. b \in Batches /\ payload[b] # <<>>
    BY <1>0, <2>1, MailerKey, BegunAlone DEF Alone
  <2> HIDE DEF b
  <2>3. ASSUME NEW u \in Workers, DeleteBatch(u), worker[u].at \in Mailers,
               worker[u].key[1] = b, payload'[b] = <<>>
        PROVE  FALSE
    <3>1. CASE worker[w].at \in Mailers
      <4>1. u = w
        BY <1>0, <2>3, <3>1 DEF Alone, b
      <4>2. worker'[w].at = "idle"
        BY <1>0, <2>3, <4>1, EndsFacts DEF DeleteBatch
      <4> QED
        BY <1>1, <4>2 DEF Mailers
    <3>2. CASE GetBatch(w)
      BY <2>2, <2>3, <3>2 DEF GetBatch, redis
    <3> QED
      BY <2>1, <3>1, <3>2
  <2>4. payload'[b] # <<>>
    BY <2>2, <2>3, PayloadGoes
  <2> QED
    BY <2>1, <2>4 DEF b
<1>2. ASSUME NEW v \in Workers, NEW w \in Workers, worker'[v].at \in Mailers,
             worker'[w].at \in Mailers, worker'[v].key[1] = worker'[w].key[1], v # w
      PROVE  FALSE
  <2>1. /\ worker'[v].key = worker[v].key /\ worker'[w].key = worker[w].key
        /\ worker[v].at \in Mailers \/ GetBatch(v)
        /\ worker[w].at \in Mailers \/ GetBatch(w)
    BY <1>2, MailerOrigin
  <2>2. ~(worker[v].at \in Mailers /\ worker[w].at \in Mailers)
    BY <1>0, <1>2, <2>1 DEF Alone
  <2>3. ASSUME NEW x \in Workers, NEW y \in Workers, x # y, GetBatch(x),
               worker'[y].at \in Mailers, worker[x].key[1] = worker[y].key[1]
        PROVE  FALSE
    <3>1. worker'[y] = worker[y]
      BY <1>0, <2>3, GetBatchFacts
    <3> QED
      BY <2>3, <3>1, BegunAlone
  <2> QED
    BY <1>2, <2>1, <2>2, <2>3
<1> QED
  BY <1>1, <1>2 DEF Alone

\* What has been looked up stays so.
LEMMA BegunStays ==
  ASSUME OneCall, IInv, ClearInv, [Next]_vars, Clear',
         NEW b \in Batches, NEW i \in Nat, Begun(b, i)
  PROVE  Begun(b, i)'
<1>0. Types /\ Alone
  BY ClearSteps DEF IInv
<1>1. Produced(b)'
  BY <1>0, ProducedStays DEF Begun
<1>2. CASE payload[b] = <<>>
  <2>1. payload'[b] = <<>>
    BY <1>2, GoneStays DEF Begun
  <2> QED
    BY <1>1, <2>1 DEF Begun
<1>3. CASE payload[b] # <<>> /\ payload'[b] # <<>>
  <2>1. PICK w \in Workers : worker[w].at \in Mailers /\ worker[w].key[1] = b
                             /\ i < Reached(w)
    BY <1>3 DEF Begun
  <2>2. worker[w].pos \in Nat
    BY <1>0, Fields DEF Types, Locals
  <2>3. CASE worker'[w] = worker[w]
    <3>1. Reached(w)' = Reached(w)
      BY <2>3 DEF Reached
    <3> QED
      BY <1>1, <2>1, <2>3, <3>1 DEF Begun
  <2>4. CASE LookUpChunk(w)
    <3>1. worker[w].at = "lookup" /\ Moves(w, "await")
      BY <2>4 DEF LookUpChunk
    <3>2. worker'[w].at = "await" /\ worker'[w].pos = worker[w].pos
          /\ worker'[w].key = worker[w].key
      BY <1>0, <3>1, MovesFacts DEF WorkerSteps
    <3>3. Reached(w) = worker[w].pos /\ Reached(w)' = worker[w].pos + BATCH_SIZE
      BY <2>2, <3>1, <3>2 DEF Reached
    <3>4. i < Reached(w)'
      BY <2>1, <2>2, <3>3
    <3> QED
      BY <1>1, <2>1, <3>2, <3>4 DEF Begun, Mailers
  <2>5. CASE ChunkDone(w)
    <3>1. worker[w].at = "await"
      BY <2>5 DEF ChunkDone
    <3>2. worker'[w].at \in {"lookup", "delete"} /\ worker'[w].key = worker[w].key
          /\ worker'[w].pos = worker[w].pos + BATCH_SIZE
      BY <1>0, <2>5, ChunkDoneFacts
    <3>3. Reached(w)' = Reached(w)
      BY <2>2, <3>1, <3>2 DEF Reached
    <3> QED
      BY <1>1, <2>1, <3>2, <3>3 DEF Begun, Mailers
  <2>6. CASE DeleteBatch(w)
    <3>1. payload'[b] = <<>>
      <4>1. Delete(worker[w].key) /\ worker[w].key = <<b, 0>>
        BY <1>0, <2>1, <2>6, MailerKey DEF DeleteBatch
      <4> QED
        BY <1>0, <4>1 DEF Delete, PayloadWithout, Types, TypeOK
    <3> QED
      BY <1>3, <3>1
  <2>7. ~GetBatch(w)
    BY <2>1 DEF GetBatch, Mailers
  <2> QED
    BY <2>1, <2>3, <2>4, <2>5, <2>6, <2>7, Goings
<1>4. CASE payload'[b] = <<>>
  BY <1>1, <1>4 DEF Begun
<1> QED
  BY <1>2, <1>3, <1>4

\* Nobody looked up now has been looked up before.
LEMMA ChunkIsNew ==
  ASSUME OneCall, Unique, IInv, Alone, NEW w \in Workers, LookUpChunk(w),
         NEW r \in Range(Slice(worker[w].ids, worker[w].pos, BATCH_SIZE))
  PROVE  ~Passed(r)
<1>0. Types /\ worker[w].at = "lookup" /\ worker[w].at \in Mailers
  BY DEF IInv, LookUpChunk, Mailers
<1>1. PICK b \in Batches : b = worker[w].key[1] /\ payload[b] # <<>>
  BY <1>0, MailerKey DEF Alone
<1>2. /\ worker[w].ids \in Seq(Recipients) /\ worker[w].pos \in Nat \ {0}
      /\ worker[w].ids = Batch(Calls[1], b)
  BY <1>0, <1>1, Fields DEF IInv, Types, Locals, LocalOK, Mailing, Mailed
<1>3. PICK i \in DOMAIN Batch(Calls[1], b) :
        i \in Nat /\ Batch(Calls[1], b)[i] = r /\ i >= worker[w].pos
  BY <1>2, ChunkPlaces
<1> SUFFICES ASSUME NEW c \in Batches, NEW j \in DOMAIN Batch(Calls[1], c),
                    Batch(Calls[1], c)[j] = r, Begun(c, j)
             PROVE  FALSE
  BY DEF Passed
<1>4. c = b /\ j = i
  BY <1>3, OnePlace
<1>5. PICK v \in Workers : worker[v].at \in Mailers /\ worker[v].key[1] = b
                           /\ i < Reached(v)
  BY <1>1, <1>4 DEF Begun
<1>6. v = w
  BY <1>0, <1>1, <1>5 DEF Alone
<1>7. Reached(w) = worker[w].pos
  BY <1>0, <1>2 DEF Reached
<1> QED
  BY <1>2, <1>3, <1>5, <1>6, <1>7

\* And then he has been.
LEMMA ChunkIsPassed ==
  ASSUME OneCall, IInv, ClearInv, [Next]_vars, Clear', NEW w \in Workers, LookUpChunk(w),
         NEW r \in Range(Slice(worker[w].ids, worker[w].pos, BATCH_SIZE))
  PROVE  Passed(r)'
<1>0. Types /\ worker[w].at = "lookup" /\ worker[w].at \in Mailers /\ Moves(w, "await")
  BY DEF IInv, LookUpChunk, Mailers
<1>1. PICK b \in Batches : b = worker[w].key[1]
  BY <1>0, MailerKey
<1>2. /\ worker[w].ids \in Seq(Recipients) /\ worker[w].pos \in Nat \ {0}
      /\ worker[w].ids = Batch(Calls[1], b)
  BY <1>0, <1>1, Fields DEF IInv, Types, Locals, LocalOK, Mailing, Mailed
<1>3. PICK i \in DOMAIN Batch(Calls[1], b) :
        Batch(Calls[1], b)[i] = r /\ i < worker[w].pos + BATCH_SIZE
  BY <1>2, ChunkPlaces
<1>4. /\ worker'[w].at = "await" /\ worker'[w].key = worker[w].key
      /\ worker'[w].pos = worker[w].pos
  BY <1>0, MovesFacts DEF WorkerSteps
<1>5. i < Reached(w)'
  BY <1>3, <1>4 DEF Reached
<1>6. Produced(b)'
  <2>1. worker[w].at \notin Resting /\ worker[w].key[2] = 0
    BY <1>0, MailerKey DEF Resting
  <2>2. Produced(worker[w].key[1])
    BY <2>1 DEF IInv, Picked
  <2>3. Produced(b)
    BY <1>1, <2>2
  <2> QED
    BY <1>0, <2>3, ProducedStays
<1>7. Begun(b, i)'
  BY <1>1, <1>4, <1>5, <1>6 DEF Begun, Mailers
<1> QED
  BY <1>3, <1>7 DEF Passed

\* Where no mail is begun or accepted, everything stays as it was.
LEMMA OnceStays ==
  ASSUME Once, UNCHANGED delivered, Mails' \subseteq Mails,
         \A r \in Recipients : Passed(r) => Passed(r)', Mails \subseteq TaskType
  PROVE  Once'
<1>1. \A t \in Mails : t.r \in Recipients
  BY DEF TaskType
<1> QED
  BY <1>1 DEF Once

LEMMA OnceStep ==
  ASSUME OneCall, Unique, IInv, ClearInv, [Next]_vars, Clear' PROVE Once'
<1>0. Types /\ Alone /\ Once
  BY ClearSteps DEF IInv
<1>1. ASSUME NEW r \in Recipients, Passed(r) PROVE Passed(r)'
  <2>1. PICK b \in Batches : \E i \in DOMAIN Batch(Calls[1], b) :
               Batch(Calls[1], b)[i] = r /\ Begun(b, i)
    BY <1>1 DEF Passed
  <2>2. PICK i \in DOMAIN Batch(Calls[1], b) :
               Batch(Calls[1], b)[i] = r /\ Begun(b, i)
    BY <2>1
  <2>3. i \in Nat
    <3>1. 1 \in DOMAIN Calls /\ b \in Nat \ {0}
      BY BatchesFact, LenProperties DEF OneCall, Batches
    <3>2. Batch(Calls[1], b) \in Seq(Recipients)
      BY <3>1, BatchFacts
    <3> QED
      BY <3>2, LenProperties
  <2>4. Begun(b, i)'
    BY <2>2, <2>3, BegunStays
  <2> QED
    BY <2>2, <2>4 DEF Passed
<1>2. Mails \subseteq TaskType /\ \A t \in Mails : t.r \in Recipients
  BY <1>0 DEF Types, TypeOK, Mails, TaskType
<1>3. CASE UNCHANGED <<delivered, tasks>>
  <2>1. Mails' = Mails
    BY <1>3 DEF Mails
  <2> QED
    BY <1>0, <1>1, <1>2, <1>3, <2>1, OnceStays
<1>4. ASSUME NEW w \in Workers, LookUpChunk(w) PROVE Once'
  <2> DEFINE chunk == Range(Slice(worker[w].ids, worker[w].pos, BATCH_SIZE))
             mailOf(r) == [w |-> w, key |-> worker[w].key, attempt |-> worker[w].attempt,
                           r |-> r, at |-> "mail"]
  <2>1. tasks' = tasks \union {mailOf(r) : r \in chunk \intersect active}
        /\ delivered' = delivered
    BY <1>4 DEF LookUpChunk
  <2>2. active \subseteq Recipients
    BY <1>0 DEF Types, TypeOK
  <2>3. \A r \in chunk : ~Passed(r) /\ Passed(r)'
    BY <1>0, <1>4, ChunkIsNew, ChunkIsPassed
  <2>4. \A r \in chunk : mailOf(r).r = r
    OBVIOUS
  <2> HIDE DEF mailOf, chunk
  <2>5. \A t \in Mails' : t \in Mails \/ \E r \in chunk \intersect active : t = mailOf(r)
    BY <2>1 DEF Mails
  <2>6. \A r \in chunk \intersect active :
          delivered[r] = 0 /\ \A t \in Mails : t.r # r
    <3> SUFFICES ASSUME NEW r \in chunk \intersect active
                 PROVE  delivered[r] = 0 /\ \A t \in Mails : t.r # r
      OBVIOUS
    <3>1. r \in Recipients /\ ~Passed(r) /\ delivered[r] \in Nat
      BY <1>0, <2>2, <2>3 DEF Types, TypeOK
    <3>2. ~(delivered[r] > 0)
      BY <1>0, <3>1 DEF Once
    <3>3. \A t \in Mails : t.r # r
      BY <1>0, <3>1 DEF Once
    <3> QED
      BY <3>1, <3>2, <3>3
  <2>7. \A r \in Recipients : delivered'[r] <= 1 /\ (delivered'[r] > 0 => Passed(r)')
    BY <1>0, <1>1, <2>1 DEF Once
  <2>8. \A t \in Mails' : delivered'[t.r] = 0 /\ Passed(t.r)'
    BY <1>0, <1>1, <1>2, <2>1, <2>3, <2>4, <2>5, <2>6 DEF Once
  <2>9. \A s, t \in Mails' : s.r = t.r => s = t
    BY <1>0, <2>4, <2>5, <2>6 DEF Once
  <2> QED
    BY <2>7, <2>8, <2>9 DEF Once
<1>5. ASSUME NEW w \in Workers, SafeWorkerStep(w), ~LookUpChunk(w)
      PROVE  UNCHANGED <<delivered, tasks>>
  BY <1>5 DEF SafeWorkerStep, ProcessCampaign, FindBatch, CompleteCampaign,
       GetBatch, GetNothing, DropKey, DeleteBatch, ChunkDone, mail
<1>6. ASSUME NEW t \in tasks, SafeMailStep(t) PROVE Once'
  <2>1. t \in TaskType /\ t.r \in Recipients
    BY <1>0 DEF Types, TypeOK, TaskType
  <2>2. [t EXCEPT !.at = "logSent"].at = "logSent"
    BY <2>1 DEF TaskType
  <2>3. Becomes(t, "logSent") \/ tasks' = tasks \ {t}
    BY <1>6 DEF SafeMailStep, MailAccepted, MailRefused, LogWritten
  <2>4. Mails' \subseteq Mails \ {t}
    BY <2>2, <2>3 DEF Mails, Becomes
  <2>5. CASE UNCHANGED delivered
    BY <1>0, <1>1, <1>2, <2>4, <2>5, OnceStays
  <2>6. ASSUME NEW logged \in BOOLEAN, MailAccepted(t, logged) PROVE Once'
    <3>1. t \in Mails /\ delivered' = [delivered EXCEPT ![t.r] = @ + 1]
      BY <2>6 DEF MailAccepted, Mails
    <3>2. delivered[t.r] = 0 /\ Passed(t.r) /\ \A s \in Mails \ {t} : s.r # t.r
      BY <1>0, <3>1 DEF Once
    <3>3. delivered \in [Recipients -> Nat]
      BY <1>0 DEF Types, TypeOK
    <3>4. delivered'[t.r] = 1 /\ \A r \in Recipients \ {t.r} : delivered'[r] = delivered[r]
      BY <2>1, <3>1, <3>2, <3>3
    <3>5. \A r \in Recipients : delivered'[r] <= 1 /\ (delivered'[r] > 0 => Passed(r)')
      BY <1>0, <1>1, <2>1, <3>2, <3>4 DEF Once
    <3>6. \A s \in Mails' : delivered'[s.r] = 0 /\ Passed(s.r)'
      BY <1>0, <1>1, <1>2, <2>4, <3>2, <3>4 DEF Once
    <3>7. \A s, u \in Mails' : s.r = u.r => s = u
      BY <1>0, <2>4 DEF Once
    <3> QED
      BY <3>5, <3>6, <3>7 DEF Once
  <2> QED
    BY <1>6, <2>5, <2>6 DEF SafeMailStep, MailRefused, LogWritten
<1>7. OtherStep => UNCHANGED <<delivered, tasks>>
  BY DEF OtherStep, StartSending, Cancel, Unsubscribe, AddToCampaignQueue,
       AddToCampaignQueueFails, vars, mail
<1> QED
  BY <1>3, <1>4, <1>5, <1>6, <1>7, ClearSteps

LEMMA ClearInit == Init => ClearInv
<1> SUFFICES ASSUME Init PROVE Calm /\ Alone /\ Once
  BY DEF ClearInv
<1>1. /\ \A w \in Workers : worker[w].at = "idle"
      /\ \A k \in Batches \X Depths : counter[k] = 0
      /\ tasks = {} /\ \A r \in Recipients : delivered[r] = 0
  BY DEF Init, Idle
<1> QED
  BY <1>1 DEF Calm, Alone, Once, Mails, Mailers

LEMMA ClearStep == OneCall /\ Unique /\ IInv /\ ClearInv /\ [Next]_vars => ClearInv'
BY CalmStep, AloneStep, OnceStep DEF ClearInv

LEMMA OnceIsEnough == ClearInv /\ Types => DuplicatesHaveCause
<1> SUFFICES ASSUME ClearInv, Types, NEW r \in Recipients, delivered[r] > 1,
                    ~(faults > 0), ~overlapped
             PROVE  FALSE
  BY DEF DuplicatesHaveCause
<1>1. faults = 0
  BY DEF Types, TypeOK
<1>2. delivered[r] <= 1 /\ delivered[r] \in Nat
  BY <1>1 DEF ClearInv, Clear, Once, Types, TypeOK
<1> QED
  BY <1>2

\* For any batches, chunks and number of workers, a campaign enqueued once with
\* each recipient once mails nobody twice, unless a call failed, a process died or
\* two workers were at the same batch (processCampaign 151-174).
THEOREM DuplicatesAreExplained == ASSUME OneCall, Unique PROVE Spec => []DuplicatesHaveCause
<1>1. Init => IInv /\ ClearInv
  BY IInvInit, ClearInit
<1>2. IInv /\ ClearInv /\ [Next]_vars => (IInv /\ ClearInv)'
  BY IInvStep, ClearStep
<1>3. IInv /\ ClearInv => DuplicatesHaveCause
  BY OnceIsEnough DEF IInv
<1> QED
  BY <1>1, <1>2, <1>3, PTL DEF Spec

(***************************************************************************)
(* Mails and deliveries, whatever fails and whoever competes               *)
(*                                                                         *)
(* A delivery of a batch is worth one mail to each of its recipients: it   *)
(* is first in the place that the worker has not reached yet, then in a    *)
(* task, then accepted or spent. No number of calls, faults or workers is  *)
(* assumed here.                                                           *)
(***************************************************************************)

\* A call wrote these recipients to the key of batch b.
Content(b, ids) ==
  \E c \in DOMAIN Calls : b <= BatchCount(Calls[c]) /\ ids = Batch(Calls[c], b)

Contents == \A b \in Batches : payload[b] # <<>> => Content(b, payload[b])

\* No recipient is in a batch that is being mailed twice.
Held == \A w \in Workers : worker[w].at \in {"lookup", "await"} => IsInjective(worker[w].ids)

\* The worker has r before it in its batch.
Ahead(w, r) ==
  /\ worker[w].at \in {"lookup", "await"}
  /\ \E i \in DOMAIN worker[w].ids : worker[w].ids[i] = r /\ i >= Reached(w)

Before(r) == {w \in Workers : Ahead(w, r)}
To(r) == {t \in Mails : t.r = r}

Budget(r) ==
  /\ IsFiniteSet(To(r))
  /\ delivered[r] + Cardinality(To(r)) + Cardinality(Before(r)) <= Total(attempts, BatchesOf(r))

Budgets == \A r \in Recipients : Budget(r)

LEMMA BatchesFinite == \A r : IsFiniteSet(BatchesOf(r))
<1> DEFINE part == [c \in DOMAIN Calls |-> 1 .. BatchCount(Calls[c])]
           parts == {1 .. BatchCount(Calls[c]) : c \in DOMAIN Calls}
<1>1. IsFiniteSet(DOMAIN Calls)
  <2>1. DOMAIN Calls = 1 .. Len(Calls) /\ Len(Calls) \in Int
    BY LenProperties
  <2> QED
    BY <2>1, FS_Interval
<1>2. part \in Surjection(DOMAIN Calls, parts)
  BY DEF Surjection
<1>3. IsFiniteSet(parts)
  <2> HIDE DEF part, parts
  <2> QED
    BY <1>1, <1>2, FS_Surjection
<1>4. \A T \in parts : IsFiniteSet(T)
  <2> SUFFICES ASSUME NEW c \in DOMAIN Calls PROVE IsFiniteSet(1 .. BatchCount(Calls[c]))
    OBVIOUS
  <2>1. Calls[c] \in Seq(Recipients)
    BY ElementOfSeq
  <2>2. BatchCount(Calls[c]) \in Int
    BY <2>1, CountFacts
  <2> QED
    BY <2>2, FS_Interval
<1>5. IsFiniteSet(Batches)
  <2>1. Batches = UNION parts
    BY DEF Batches
  <2> HIDE DEF parts
  <2> QED
    BY <1>3, <1>4, <2>1, FS_UNION
<1> QED
  BY <1>5, FS_Subset DEF BatchesOf

\* The recipients of a batch of a call are different.
LEMMA ContentInjective ==
  ASSUME Unique, NEW b \in Batches, NEW ids, Content(b, ids)
  PROVE  /\ IsInjective(ids)
         /\ \A r \in Range(ids) : b \in BatchesOf(r)
<1>1. PICK c \in DOMAIN Calls : b <= BatchCount(Calls[c]) /\ ids = Batch(Calls[c], b)
  BY DEF Content
<1>2. Calls[c] \in Seq(Recipients) /\ IsInjective(Calls[c])
  BY ElementOfSeq DEF Unique
<1> DEFINE first == (b - 1) * BatchLimit + 1
<1>3. first \in Nat \ {0}
  <2>1. b - 1 \in Nat
    BY BatchesFact
  <2>2. \A k \in Nat : k * BatchLimit \in Nat
    BY SMT
  <2>3. \A k \in Nat : k + 1 \in Nat \ {0}
    OBVIOUS
  <2> QED
    BY <2>1, <2>2, <2>3, Zenon
<1>4. ids = Slice(Calls[c], first, BatchLimit)
  BY <1>1 DEF Batch
<1> HIDE DEF first
<1>5. ASSUME NEW i \in DOMAIN ids, NEW j \in DOMAIN ids, ids[i] = ids[j] PROVE i = j
  <2>1. /\ i \in 1 .. BatchLimit /\ first + i - 1 \in DOMAIN Calls[c]
        /\ ids[i] = Calls[c][first + i - 1]
    <3>1. i \in DOMAIN Slice(Calls[c], first, BatchLimit) /\ BatchLimit \in Nat
      BY <1>4
    <3>2. /\ i \in 1 .. BatchLimit /\ first + i - 1 \in DOMAIN Calls[c]
          /\ Slice(Calls[c], first, BatchLimit)[i] = Calls[c][first + i - 1]
      BY <1>2, <1>3, <3>1, SlicePlaces
    <3> QED
      BY <1>4, <3>2
  <2>2. /\ j \in 1 .. BatchLimit /\ first + j - 1 \in DOMAIN Calls[c]
        /\ ids[j] = Calls[c][first + j - 1]
    <3>1. j \in DOMAIN Slice(Calls[c], first, BatchLimit) /\ BatchLimit \in Nat
      BY <1>4
    <3>2. /\ j \in 1 .. BatchLimit /\ first + j - 1 \in DOMAIN Calls[c]
          /\ Slice(Calls[c], first, BatchLimit)[j] = Calls[c][first + j - 1]
      BY <1>2, <1>3, <3>1, SlicePlaces
    <3> QED
      BY <1>4, <3>2
  <2>3. first + i - 1 = first + j - 1
    BY <1>2, <1>5, <2>1, <2>2 DEF IsInjective
  <2> QED
    BY <1>3, <2>1, <2>2, <2>3
<1> QED
  BY <1>1, <1>5 DEF IsInjective, BatchesOf

-----------------------------------------------------------------------------
(* What the keys hold                                                      *)

LEMMA ContentsStep == Types /\ Contents /\ [Next]_vars => Contents'
<1> SUFFICES ASSUME Types, Contents, [Next]_vars, NEW b \in Batches, payload'[b] # <<>>
             PROVE  Content(b, payload'[b])
  BY DEF Contents, Content
<1>1. CASE payload'[b] = payload[b]
  BY <1>1 DEF Contents
<1>2. CASE AddToCampaignQueue
  <2> DEFINE c == producer.call
             k == producer.batch
  <2>1. /\ k <= BatchCount(Calls[c]) /\ payload' = [payload EXCEPT ![k] = Batch(Calls[c], k)]
        /\ c <= Len(Calls)
    BY <1>2 DEF AddToCampaignQueue
  <2>2. c \in DOMAIN Calls
    BY <2>1, LenProperties DEF Types, TypeOK
  <2>3. payload'[b] = IF b = k THEN Batch(Calls[c], k) ELSE payload[b]
    BY <2>1 DEF Types, TypeOK
  <2> QED
    BY <1>1, <2>1, <2>2, <2>3 DEF Content
<1>3. ASSUME NEW k, Delete(k) PROVE payload'[b] = payload[b]
  BY <1>3, DeleteFacts
<1>4. CASE OtherStep
  BY <1>1, <1>2, <1>4, OtherFrame
<1>5. ASSUME NEW w \in Workers, WorkerStep(w) \/ Crash(w)
      PROVE  payload' = payload \/ \E k : Delete(k)
  BY <1>5 DEF WorkerStep, CallStep, Crash, ProcessCampaign, FindBatch, CompleteCampaign,
     GetBatch, GetCounter, GetNothing, DropKey, LookUpChunk, ChunkDone, DeleteBatch,
     BatchFails, ReadRetries, CountRetry, GiveUpKey, GiveUpCounter, RoundFails, redis
<1>6. ASSUME NEW t \in tasks, MailStep(t) PROVE payload' = payload
  BY <1>6, TaskStep
<1> QED
  BY <1>1, <1>3, <1>4, <1>5, <1>6, NextCases

LEMMA HeldStep == Unique /\ Types /\ Contents /\ Held /\ [Next]_vars => Held'
<1> SUFFICES ASSUME Unique, Types, Contents, Held, [Next]_vars, NEW w \in Workers,
                    worker'[w].at \in {"lookup", "await"}
             PROVE  IsInjective(worker'[w].ids)
  BY DEF Held
<1>1. CASE worker'[w] = worker[w]
  BY <1>1 DEF Held
<1>2. CASE GetBatch(w)
  <2>0. payload[worker[w].key[1]] # <<>> /\ worker[w].at = "get"
    BY <1>2 DEF GetBatch
  <2>1. worker'[w].ids = payload[worker[w].key[1]]
    BY <1>2, GetBatchFacts
  <2>2. worker[w].key[1] \in Batches
    BY <2>0 DEF Types, Locals, LocalOK
  <2>3. Content(worker[w].key[1], payload[worker[w].key[1]])
    BY <2>0, <2>2 DEF Contents
  <2> QED
    BY <2>1, <2>2, <2>3, ContentInjective
<1>3. CASE LookUpChunk(w)
  <2>1. worker[w].at = "lookup" /\ worker'[w].ids = worker[w].ids
    BY <1>3, MovesFacts DEF LookUpChunk, WorkerSteps
  <2> QED
    BY <2>1 DEF Held
<1>4. CASE ChunkDone(w)
  <2>1. worker[w].at = "await" /\ worker'[w].ids = worker[w].ids
    BY <1>4, ChunkDoneFacts DEF ChunkDone
  <2> QED
    BY <2>1 DEF Held
<1>5. CASE OtherStep
  BY <1>1, <1>5, OtherFrame
<1>6. CASE WorkerStep(w) \/ Crash(w)
  BY <1>2, <1>3, <1>4, <1>6, OwnStep DEF CameAbout, Mailers
<1>7. ASSUME NEW v \in Workers \ {w}, WorkerStep(v) \/ Crash(v) PROVE worker'[w] = worker[w]
  BY <1>7, OwnStep
<1>8. ASSUME NEW t \in tasks, MailStep(t) PROVE worker'[w] = worker[w]
  BY <1>8, TaskStep
<1> QED
  BY <1>1, <1>5, <1>6, <1>7, <1>8, NextCases

-----------------------------------------------------------------------------
(* The budget of a recipient                                               *)

LEMMA BudgetTypes ==
  ASSUME Types, NEW r \in Recipients
  PROVE  /\ delivered[r] \in Nat
         /\ IsFiniteSet(Before(r)) /\ Cardinality(Before(r)) \in Nat
         /\ \A b \in BatchesOf(r) : attempts[b] \in Nat
         /\ Total(attempts, BatchesOf(r)) \in Nat
<1>1. delivered[r] \in Nat /\ \A b \in BatchesOf(r) : attempts[b] \in Nat
  BY DEF Types, TypeOK, BatchesOf
<1>2. Before(r) \in SUBSET Workers
  BY DEF Before
<1>3. IsFiniteSet(Before(r)) /\ Cardinality(Before(r)) \in Nat
  BY <1>2, WorkersAssumption, FS_Subset, FS_CardinalityType
<1>4. Total(attempts, BatchesOf(r)) \in Nat
  BY <1>1, BatchesFinite, SumRemove
<1> QED
  BY <1>1, <1>3, <1>4

\* Where no delivery begins and none of its mails is new, nothing is spent twice.
LEMMA BudgetStays ==
  ASSUME Types, Types', NEW r \in Recipients, Budget(r),
         delivered'[r] = delivered[r], UNCHANGED attempts,
         To(r)' \subseteq To(r), Before(r)' \subseteq Before(r)
  PROVE  Budget(r)'
<1>1. /\ IsFiniteSet(To(r)') /\ Cardinality(To(r)') <= Cardinality(To(r))
      /\ Cardinality(To(r)') \in Nat /\ Cardinality(To(r)) \in Nat
  <2>1. IsFiniteSet(To(r)) /\ To(r)' \in SUBSET To(r)
    BY DEF Budget
  <2> QED
    BY <2>1, FS_Subset, FS_CardinalityType
<1>2. /\ Cardinality(Before(r)') <= Cardinality(Before(r))
      /\ Cardinality(Before(r)') \in Nat /\ Cardinality(Before(r)) \in Nat
  <2>1. IsFiniteSet(Before(r)) /\ Before(r)' \in SUBSET Before(r)
    BY BudgetTypes
  <2> QED
    BY <2>1, FS_Subset, FS_CardinalityType
<1>3. /\ delivered[r] \in Nat /\ Total(attempts, BatchesOf(r)) \in Nat
      /\ delivered[r] + Cardinality(To(r)) + Cardinality(Before(r))
           <= Total(attempts, BatchesOf(r))
  BY BudgetTypes DEF Budget
<1>4. Total(attempts, BatchesOf(r))' = Total(attempts, BatchesOf(r))
  BY DEF BatchesOf
<1>5. delivered'[r] + Cardinality(To(r)') + Cardinality(Before(r)')
        <= Total(attempts, BatchesOf(r))'
  <2>1. \A d, n, m, s, i, j \in Nat :
          d + n + m <= s /\ i <= n /\ j <= m => d + i + j <= s
    OBVIOUS
  <2>2. delivered[r] + Cardinality(To(r)') + Cardinality(Before(r)')
          <= Total(attempts, BatchesOf(r))
    BY <1>1, <1>2, <1>3, <2>1, Zenon
  <2> QED
    BY <1>4, <2>2, Zenon
<1> QED
  BY <1>1, <1>5 DEF Budget

\* A worker that begins no delivery has nobody before it who was not.
LEMMA BeforeShrinks ==
  ASSUME Types, NEW r \in Recipients, NEW w \in Workers,
         WorkerStep(w) \/ Crash(w), ~GetBatch(w)
  PROVE  Before(r)' \subseteq Before(r)
<1> SUFFICES ASSUME NEW v \in Workers, Ahead(v, r)' PROVE Ahead(v, r)
  BY DEF Before
<1>1. CASE v # w
  <2>1. worker'[v] = worker[v]
    BY <1>1, OwnStep
  <2> QED
    BY <2>1 DEF Ahead, Reached
<1>2. CASE v = w
  <2>1. worker'[w].at \in {"lookup", "await"}
    BY <1>2 DEF Ahead
  <2>2. LookUpChunk(w) \/ ChunkDone(w)
    BY <2>1, OwnStep DEF CameAbout, Mailers
  <2>3. worker[w] \in WorkerType /\ worker[w].pos \in Nat /\ worker[w].ids \in Seq(Recipients)
    BY Fields DEF Types, Locals
  <2>4. PICK i \in DOMAIN worker'[w].ids : worker'[w].ids[i] = r /\ i >= Reached(w)'
    BY <1>2 DEF Ahead
  <2>5. CASE LookUpChunk(w)
    <3>1. /\ worker[w].at = "lookup" /\ worker'[w].at = "await"
          /\ worker'[w].ids = worker[w].ids /\ worker'[w].pos = worker[w].pos
      BY <2>5, MovesFacts DEF LookUpChunk, WorkerSteps
    <3>2. Reached(w) = worker[w].pos /\ Reached(w)' = worker[w].pos + BATCH_SIZE
      BY <2>3, <3>1 DEF Reached
    <3>3. i \in Nat /\ i \in DOMAIN worker[w].ids
      BY <2>3, <2>4, <3>1, LenProperties
    <3>4. i >= Reached(w)
      BY <2>3, <2>4, <3>2, <3>3
    <3> QED
      BY <1>2, <2>4, <3>1, <3>3, <3>4 DEF Ahead
  <2>6. CASE ChunkDone(w)
    <3>0. worker[w].at = "await"
      BY <2>6 DEF ChunkDone
    <3>1. /\ worker[w].at = "await" /\ worker'[w].at # "await"
          /\ worker'[w].ids = worker[w].ids /\ worker'[w].pos = worker[w].pos + BATCH_SIZE
      BY <2>6, <3>0, ChunkDoneFacts
    <3>2. Reached(w) = worker[w].pos + BATCH_SIZE /\ Reached(w)' = worker[w].pos + BATCH_SIZE
      BY <2>3, <3>1 DEF Reached
    <3> QED
      BY <1>2, <2>4, <3>1, <3>2 DEF Ahead
  <2> QED
    BY <2>2, <2>5, <2>6
<1> QED
  BY <1>1, <1>2

\* A recipient that is looked up is not before the worker any more.
LEMMA ChunkIsSpent ==
  ASSUME Types, Held, NEW r \in Recipients, NEW w \in Workers, LookUpChunk(w),
         r \in Range(Slice(worker[w].ids, worker[w].pos, BATCH_SIZE))
  PROVE  w \in Before(r) /\ w \notin Before(r)'
<1>1. /\ worker[w].at = "lookup" /\ worker'[w].at = "await"
      /\ worker'[w].ids = worker[w].ids /\ worker'[w].pos = worker[w].pos
  BY MovesFacts DEF LookUpChunk, WorkerSteps
<1>2. worker[w].ids \in Seq(Recipients) /\ worker[w].pos \in Nat \ {0}
  BY <1>1, Fields DEF Types, Locals, LocalOK
<1>3. PICK i \in DOMAIN worker[w].ids :
        i \in Nat /\ worker[w].ids[i] = r /\ i >= worker[w].pos /\ i < worker[w].pos + BATCH_SIZE
  BY <1>2, ChunkPlaces
<1>4. Reached(w) = worker[w].pos /\ Reached(w)' = worker[w].pos + BATCH_SIZE
  BY <1>1, <1>2 DEF Reached
<1>5. w \in Before(r)
  BY <1>1, <1>3, <1>4 DEF Before, Ahead
<1>6. ASSUME Ahead(w, r)' PROVE FALSE
  <2>1. PICK j \in DOMAIN worker[w].ids : worker[w].ids[j] = r /\ j >= worker[w].pos + BATCH_SIZE
    BY <1>1, <1>4, <1>6 DEF Ahead
  <2>2. j = i
    BY <1>1, <1>3, <2>1 DEF Held, IsInjective
  <2> QED
    BY <1>2, <1>3, <2>1, <2>2
<1> QED
  BY <1>5, <1>6 DEF Before

LEMMA BudgetLookUp ==
  ASSUME Types, Types', Held, NEW r \in Recipients, Budget(r), NEW w \in Workers, LookUpChunk(w)
  PROVE  Budget(r)'
<1> DEFINE chunk == Range(Slice(worker[w].ids, worker[w].pos, BATCH_SIZE))
           mailOf(q) == [w |-> w, key |-> worker[w].key, attempt |-> worker[w].attempt,
                         r |-> q, at |-> "mail"]
<1>1. /\ tasks' = tasks \union {mailOf(q) : q \in chunk \intersect active}
      /\ UNCHANGED <<delivered, attempts>>
  BY DEF LookUpChunk
<1>2. \A q : mailOf(q).r = q
  OBVIOUS
<1>3. Before(r)' \subseteq Before(r)
  <2>1. WorkerStep(w)
    BY DEF WorkerStep, CallStep
  <2>2. worker[w].at = "lookup"
    BY DEF LookUpChunk
  <2>3. ~GetBatch(w)
    BY <2>2 DEF GetBatch
  <2> QED
    BY <2>1, <2>3, BeforeShrinks
<1>4. r \in chunk => w \in Before(r) /\ w \notin Before(r)'
  BY ChunkIsSpent
<1> HIDE DEF mailOf, chunk
<1>5. To(r)' \subseteq To(r) \union {mailOf(r)} /\ (r \notin chunk => To(r)' \subseteq To(r))
  BY <1>1, <1>2 DEF To, Mails
<1>6. CASE r \notin chunk
  BY <1>1, <1>3, <1>5, <1>6, BudgetStays
<1>7. CASE r \in chunk
  <2>1. /\ IsFiniteSet(To(r)') /\ Cardinality(To(r)') <= Cardinality(To(r)) + 1
        /\ Cardinality(To(r)') \in Nat /\ Cardinality(To(r)) \in Nat
    <3>1. IsFiniteSet(To(r)) /\ To(r)' \in SUBSET (To(r) \union {mailOf(r)})
      BY <1>5 DEF Budget
    <3>2. /\ IsFiniteSet(To(r) \union {mailOf(r)})
          /\ Cardinality(To(r) \union {mailOf(r)})
               = IF mailOf(r) \in To(r) THEN Cardinality(To(r)) ELSE Cardinality(To(r)) + 1
      BY <3>1, FS_AddElement
    <3>3. /\ IsFiniteSet(To(r)')
          /\ Cardinality(To(r)') <= Cardinality(To(r) \union {mailOf(r)})
      BY <3>1, <3>2, FS_Subset
    <3>4. Cardinality(To(r)') \in Nat /\ Cardinality(To(r)) \in Nat
      BY <3>1, <3>3, FS_CardinalityType
    <3> QED
      BY <3>2, <3>3, <3>4
  <2>2. /\ Cardinality(Before(r)') <= Cardinality(Before(r)) - 1
        /\ Cardinality(Before(r)') \in Nat /\ Cardinality(Before(r)) \in Nat
    <3>1. IsFiniteSet(Before(r)) /\ Before(r)' \in SUBSET (Before(r) \ {w})
      BY <1>3, <1>4, <1>7, BudgetTypes
    <3>2. /\ IsFiniteSet(Before(r) \ {w})
          /\ Cardinality(Before(r) \ {w}) = Cardinality(Before(r)) - 1
      BY <1>4, <1>7, <3>1, FS_RemoveElement
    <3>3. /\ IsFiniteSet(Before(r)')
          /\ Cardinality(Before(r)') <= Cardinality(Before(r) \ {w})
      BY <3>1, <3>2, FS_Subset
    <3>4. Cardinality(Before(r)') \in Nat /\ Cardinality(Before(r)) \in Nat
      BY <3>1, <3>3, FS_CardinalityType
    <3> QED
      BY <3>2, <3>3, <3>4
  <2>3. /\ delivered[r] \in Nat /\ Total(attempts, BatchesOf(r)) \in Nat
        /\ delivered[r] + Cardinality(To(r)) + Cardinality(Before(r))
             <= Total(attempts, BatchesOf(r))
    BY BudgetTypes DEF Budget
  <2>4. Total(attempts, BatchesOf(r))' = Total(attempts, BatchesOf(r)) /\ delivered'[r] = delivered[r]
    BY <1>1 DEF BatchesOf
  <2>5. delivered[r] + Cardinality(To(r)') + Cardinality(Before(r)')
          <= Total(attempts, BatchesOf(r))
    <3>1. \A d, n, m, s, i, j \in Nat :
            d + n + m <= s /\ i <= n + 1 /\ j <= m - 1 => d + i + j <= s
      OBVIOUS
    <3> QED
      BY <2>1, <2>2, <2>3, <3>1, Zenon
  <2>6. delivered'[r] + Cardinality(To(r)') + Cardinality(Before(r)')
          <= Total(attempts, BatchesOf(r))'
    BY <2>4, <2>5, Zenon
  <2> QED
    BY <2>1, <2>6 DEF Budget
<1> QED
  BY <1>6, <1>7

\* A delivery begins: one mail more for whoever is in the batch.
LEMMA BudgetGetBatch ==
  ASSUME Unique, Types, Types', Contents, NEW r \in Recipients, Budget(r),
         NEW w \in Workers, GetBatch(w)
  PROVE  Budget(r)'
<1> DEFINE b == worker[w].key[1]
<1>1. /\ worker[w].at = "get" /\ payload[b] # <<>> /\ UNCHANGED <<delivered, tasks>>
      /\ attempts' = [attempts EXCEPT ![b] = @ + 1]
  BY DEF GetBatch, mail
<1>2. b \in Batches
  BY <1>1 DEF Types, Locals, LocalOK
<1>3. /\ \A v \in Workers \ {w} : worker'[v] = worker[v]
      /\ worker'[w].ids = payload[b]
  BY GetBatchFacts
<1>4. \A q \in Range(payload[b]) : b \in BatchesOf(q)
  BY <1>1, <1>2, ContentInjective DEF Contents
<1> HIDE DEF b
<1>5. \A v \in Workers \ {w} : v \in Before(r)' <=> v \in Before(r)
  BY <1>3 DEF Before, Ahead, Reached
<1>6. w \in Before(r)' => r \in Range(payload[b])
  BY <1>3 DEF Before, Ahead, Range
<1>7. w \notin Before(r)
  BY <1>1 DEF Before, Ahead
<1>8. To(r)' = To(r)
  BY <1>1 DEF To, Mails
<1>9. UNCHANGED BatchesOf(r)
  BY DEF BatchesOf
<1>10. /\ attempts' \in [Batches -> Nat] /\ attempts \in [Batches -> Nat]
       /\ attempts'[b] = attempts[b] + 1 /\ \A c \in Batches \ {b} : attempts'[c] = attempts[c]
       /\ BatchesOf(r) \subseteq Batches
  BY <1>1, <1>2 DEF Types, TypeOK, BatchesOf
<1>11. /\ Total(attempts, BatchesOf(r)) \in Nat /\ Total(attempts', BatchesOf(r)) \in Nat
       /\ Total(attempts', BatchesOf(r)) >= Total(attempts, BatchesOf(r))
       /\ b \in BatchesOf(r) =>
            Total(attempts', BatchesOf(r)) = Total(attempts, BatchesOf(r)) + 1
  <2>1. IsFiniteSet(BatchesOf(r)) /\ \A c \in BatchesOf(r) : attempts[c] \in Nat /\ attempts'[c] \in Nat
    BY <1>10, BatchesFinite
  <2>2. CASE b \in BatchesOf(r)
    <3> DEFINE f == attempts
               g == attempts'
               S == BatchesOf(r)
    <3>0. /\ IsFiniteSet(S) /\ b \in S /\ \A y \in S : f[y] \in Nat
          /\ g[b] \in Nat /\ \A y \in S \ {b} : g[y] = f[y]
      BY <1>10, <2>1, <2>2
    <3> HIDE DEF f, g, S
    <3>2. /\ Total(f, S) \in Nat /\ Total(g, S) \in Nat
          /\ Total(g, S) + f[b] = Total(f, S) + g[b]
      BY <3>0, SumChange
    <3>1. /\ Total(attempts, BatchesOf(r)) \in Nat /\ Total(attempts', BatchesOf(r)) \in Nat
          /\ Total(attempts', BatchesOf(r)) + attempts[b]
               = Total(attempts, BatchesOf(r)) + attempts'[b]
      BY <3>2 DEF f, g, S
    <3> QED
      BY <1>10, <2>1, <2>2, <3>1
  <2>3. CASE b \notin BatchesOf(r)
    <3>1. \A c \in BatchesOf(r) : attempts'[c] = attempts[c]
      BY <1>10, <2>3
    <3>2. Total(attempts', BatchesOf(r)) = Total(attempts, BatchesOf(r))
      BY <2>1, <3>1, SumSame
    <3> QED
      BY <2>3, <3>2, BudgetTypes
  <2> QED
    BY <2>2, <2>3
<1>12. /\ Cardinality(Before(r)) \in Nat
       /\ Before(r)' = Before(r) \/ Before(r)' = Before(r) \union {w}
       /\ Cardinality(Before(r)') =
            IF w \in Before(r)' THEN Cardinality(Before(r)) + 1 ELSE Cardinality(Before(r))
  <2>1. IsFiniteSet(Before(r)) /\ Cardinality(Before(r)) \in Nat
    BY BudgetTypes
  <2>2. Before(r) \subseteq Workers /\ Before(r)' \subseteq Workers
    BY DEF Before
  <2>3. Before(r)' = IF w \in Before(r)' THEN Before(r) \union {w} ELSE Before(r)
    <3>1. CASE w \in Before(r)'
      <4>1. \A v \in Workers : v \in Before(r)' <=> v \in Before(r) \union {w}
        BY <1>5, <3>1
      <4>2. Before(r)' = Before(r) \union {w}
        BY <2>2, <4>1
      <4> QED
        BY <3>1, <4>2
    <3>2. CASE w \notin Before(r)'
      <4>1. \A v \in Workers : v \in Before(r)' <=> v \in Before(r)
        BY <1>5, <1>7, <3>2
      <4>2. Before(r)' = Before(r)
        BY <2>2, <4>1
      <4> QED
        BY <3>2, <4>2
    <3> QED
      BY <3>1, <3>2
  <2>4. Cardinality(Before(r) \union {w}) = Cardinality(Before(r)) + 1
    BY <1>7, <2>1, FS_AddElement
  <2> QED
    BY <2>1, <2>3, <2>4
<1>13. /\ IsFiniteSet(To(r)) /\ Cardinality(To(r)) \in Nat
       /\ delivered[r] \in Nat /\ delivered'[r] = delivered[r]
       /\ delivered[r] + Cardinality(To(r)) + Cardinality(Before(r))
            <= Total(attempts, BatchesOf(r))
  BY <1>1, BudgetTypes, FS_CardinalityType DEF Budget
<1>14. Total(attempts, BatchesOf(r))' = Total(attempts', BatchesOf(r))
  BY <1>9
<1>15. delivered'[r] + Cardinality(To(r)') + Cardinality(Before(r)')
         <= Total(attempts, BatchesOf(r))'
  BY <1>4, <1>6, <1>8, <1>11, <1>12, <1>13, <1>14
<1> QED
  BY <1>8, <1>13, <1>15 DEF Budget

\* A step of a task leaves one mail less to send, or as many.
LEMMA MailsShrink ==
  ASSUME Types, NEW t \in tasks, MailStep(t)
  PROVE  /\ Mails' \subseteq Mails \ {t} /\ attempts' = attempts
         /\ \/ delivered' = delivered
            \/ t \in Mails /\ delivered' = [delivered EXCEPT ![t.r] = @ + 1]
<1>1. t \in TaskType
  BY DEF Types, TypeOK
<1>2. ASSUME NEW a \in {"logSent", "logFailed"}, Becomes(t, a) PROVE Mails' \subseteq Mails \ {t}
  <2>1. [t EXCEPT !.at = a].at = a
    BY <1>1 DEF TaskType
  <2> QED
    BY <1>2, <2>1 DEF Mails, Becomes
<1>3. ASSUME tasks' = tasks \ {t} PROVE Mails' \subseteq Mails \ {t}
  BY <1>3 DEF Mails
<1>4. CASE \E logged \in BOOLEAN : MailAccepted(t, logged)
  BY <1>2, <1>4 DEF MailAccepted, Mails, history
<1>5. CASE MailRefused(t)
  BY <1>2, <1>5 DEF MailRefused, history
<1>6. CASE LogWritten(t)
  BY <1>3, <1>6 DEF LogWritten, history
<1>7. CASE LogSentFails(t)
  BY <1>2, <1>7 DEF LogSentFails, history
<1>8. CASE LogFailedFails(t)
  BY <1>3, <1>8 DEF LogFailedFails, history, CountsFailure
<1> QED
  BY <1>4, <1>5, <1>6, <1>7, <1>8 DEF MailStep

\* A mail that is accepted goes from the tasks of its recipient to his deliveries.
LEMMA BudgetMail ==
  ASSUME Types, Types', NEW r \in Recipients, Budget(r), NEW t \in tasks, MailStep(t)
  PROVE  Budget(r)'
<1>1. Before(r)' \subseteq Before(r)
  <2> SUFFICES ASSUME NEW v \in Workers, Ahead(v, r)' PROVE Ahead(v, r)
    BY DEF Before
  <2>1. worker'[v] = worker[v]
    BY TaskStep DEF Ahead
  <2> QED
    BY <2>1 DEF Ahead, Reached
<1>2. To(r)' \subseteq To(r) \ {t} /\ attempts' = attempts
  BY MailsShrink DEF To
<1>3. CASE delivered'[r] = delivered[r]
  BY <1>1, <1>2, <1>3, BudgetStays
<1>4. CASE delivered'[r] # delivered[r]
  <2>1. t \in Mails /\ delivered' = [delivered EXCEPT ![t.r] = @ + 1]
    BY <1>4, MailsShrink
  <2>2. t.r = r /\ delivered'[r] = delivered[r] + 1
    BY <1>4, <2>1 DEF Types, TypeOK
  <2>3. t \in To(r)
    BY <2>1, <2>2 DEF To
  <2>4. /\ IsFiniteSet(To(r)') /\ Cardinality(To(r)') <= Cardinality(To(r)) - 1
        /\ Cardinality(To(r)') \in Nat /\ Cardinality(To(r)) \in Nat
    <3>1. IsFiniteSet(To(r)) /\ To(r)' \in SUBSET (To(r) \ {t})
      BY <1>2 DEF Budget
    <3>2. /\ IsFiniteSet(To(r) \ {t})
          /\ Cardinality(To(r) \ {t}) = Cardinality(To(r)) - 1
      BY <2>3, <3>1, FS_RemoveElement
    <3>3. IsFiniteSet(To(r)') /\ Cardinality(To(r)') <= Cardinality(To(r) \ {t})
      BY <3>1, <3>2, FS_Subset
    <3>4. Cardinality(To(r)') \in Nat /\ Cardinality(To(r)) \in Nat
      BY <3>1, <3>3, FS_CardinalityType
    <3> QED
      BY <3>2, <3>3, <3>4
  <2>5. /\ Cardinality(Before(r)') <= Cardinality(Before(r))
        /\ Cardinality(Before(r)') \in Nat /\ Cardinality(Before(r)) \in Nat
    <3>1. IsFiniteSet(Before(r)) /\ Before(r)' \in SUBSET Before(r)
      BY <1>1, BudgetTypes
    <3> QED
      BY <3>1, FS_Subset, FS_CardinalityType
  <2>6. /\ delivered[r] \in Nat /\ Total(attempts, BatchesOf(r)) \in Nat
        /\ delivered[r] + Cardinality(To(r)) + Cardinality(Before(r))
             <= Total(attempts, BatchesOf(r))
    BY BudgetTypes DEF Budget
  <2>7. delivered[r] + 1 + Cardinality(To(r)') + Cardinality(Before(r)')
          <= Total(attempts, BatchesOf(r))
    <3>1. \A d, n, m, s, i, j \in Nat :
            d + n + m <= s /\ i <= n - 1 /\ j <= m => d + 1 + i + j <= s
      OBVIOUS
    <3> QED
      BY <2>4, <2>5, <2>6, <3>1, Zenon
  <2>8. Total(attempts, BatchesOf(r))' = Total(attempts, BatchesOf(r))
    BY <1>2 DEF BatchesOf
  <2>9. delivered'[r] + Cardinality(To(r)') + Cardinality(Before(r)')
          <= Total(attempts, BatchesOf(r))'
    BY <2>2, <2>7, <2>8, Zenon
  <2> QED
    BY <2>4, <2>9 DEF Budget
<1> QED
  BY <1>3, <1>4

LEMMA BudgetsStep ==
  Unique /\ Types /\ Types' /\ Contents /\ Held /\ Budgets /\ [Next]_vars => Budgets'
<1> SUFFICES ASSUME Unique, Types, Types', Contents, Held, Budgets, [Next]_vars,
                    NEW r \in Recipients
             PROVE  Budget(r)'
  BY DEF Budgets
<1>0. Budget(r)
  BY DEF Budgets
<1>1. CASE OtherStep
  <2>1. UNCHANGED <<worker, tasks, delivered, attempts>>
    BY <1>1 DEF OtherStep, StartSending, Cancel, Unsubscribe, AddToCampaignQueue,
         AddToCampaignQueueFails, vars, mail, history
  <2>2. To(r)' \subseteq To(r) /\ Before(r)' \subseteq Before(r)
    BY <2>1 DEF To, Mails, Before, Ahead, Reached
  <2> QED
    BY <1>0, <2>1, <2>2, BudgetStays
<1>2. ASSUME NEW w \in Workers, GetBatch(w) PROVE Budget(r)'
  BY <1>0, <1>2, BudgetGetBatch
<1>3. ASSUME NEW w \in Workers, LookUpChunk(w) PROVE Budget(r)'
  BY <1>0, <1>3, BudgetLookUp
<1>4. ASSUME NEW w \in Workers, WorkerStep(w) \/ Crash(w), ~GetBatch(w), ~LookUpChunk(w)
      PROVE  Budget(r)'
  <2>1. UNCHANGED <<delivered, attempts>>
    BY <1>4 DEF WorkerStep, CallStep, Crash, ProcessCampaign, FindBatch, CompleteCampaign,
       GetCounter, GetNothing, DropKey, ChunkDone, DeleteBatch, BatchFails, ReadRetries,
       CountRetry, GiveUpKey, GiveUpCounter, RoundFails, mail, history, CountsFailure
  <2>2. tasks' \subseteq tasks
    BY <1>4, WorkerFrame
  <2>3. To(r)' \subseteq To(r)
    BY <2>2 DEF To, Mails
  <2>4. Before(r)' \subseteq Before(r)
    BY <1>4, BeforeShrinks
  <2> QED
    BY <1>0, <2>1, <2>3, <2>4, BudgetStays
<1>5. ASSUME NEW t \in tasks, MailStep(t) PROVE Budget(r)'
  BY <1>0, <1>5, BudgetMail
<1> QED
  BY <1>1, <1>2, <1>3, <1>4, <1>5, NextCases

Spending == Types /\ Contents /\ Held /\ Budgets

LEMMA SpendingInit == Init => Spending
<1> SUFFICES ASSUME Init PROVE Types /\ Contents /\ Held /\ Budgets
  BY DEF Spending
<1>1. Types
  BY TypeInit
<1>2. Contents /\ Held
  BY DEF Init, Contents, Held, Idle
<1>3. ASSUME NEW r \in Recipients PROVE Budget(r)
  <2>1. delivered[r] = 0 /\ To(r) = {} /\ Before(r) = {}
    BY DEF Init, To, Mails, Before, Ahead, Idle
  <2>2. IsFiniteSet(To(r)) /\ Cardinality(To(r)) = 0 /\ Cardinality(Before(r)) = 0
    BY <2>1, FS_EmptySet
  <2>3. Total(attempts, BatchesOf(r)) \in Nat
    BY <1>1, BudgetTypes
  <2> QED
    BY <2>1, <2>2, <2>3 DEF Budget
<1> QED
  BY <1>1, <1>2, <1>3 DEF Budgets

LEMMA SpendingStep == Unique /\ Spending /\ [Next]_vars => Spending'
BY TypeStep, ContentsStep, HeldStep, BudgetsStep DEF Spending

\* A mail takes a delivery of a batch of its recipient, and no delivery has two
\* for him: as many mails as deliveries at most, whatever the calls enqueue, and
\* however many workers fail, die or compete (processCampaign 168-171, processBatchChunk).
THEOREM OneMailPerDelivery ==
  ASSUME Unique PROVE Spec => []AtMostOneMailPerDelivery
<1>1. Init => Spending
  BY SpendingInit
<1>2. Spending /\ [Next]_vars => Spending'
  BY SpendingStep
<1>3. Spending => AtMostOneMailPerDelivery
  <2> SUFFICES ASSUME Spending, NEW r \in Recipients
               PROVE  delivered[r] <= SumFunctionOnSet(attempts, BatchesOf(r))
    BY DEF AtMostOneMailPerDelivery
  <2>1. /\ delivered[r] + Cardinality(To(r)) + Cardinality(Before(r))
             <= Total(attempts, BatchesOf(r))
        /\ IsFiniteSet(To(r))
    BY DEF Spending, Budgets, Budget
  <2>2. /\ delivered[r] \in Nat /\ Cardinality(To(r)) \in Nat
        /\ Cardinality(Before(r)) \in Nat /\ Total(attempts, BatchesOf(r)) \in Nat
    BY <2>1, BudgetTypes, FS_CardinalityType DEF Spending
  <2>3. delivered[r] <= Total(attempts, BatchesOf(r))
    BY <2>1, <2>2
  <2> QED
    BY <2>3 DEF Total
<1> QED
  BY <1>1, <1>2, <1>3, PTL DEF Spec
=============================================================================
