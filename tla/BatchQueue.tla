----------------------------- MODULE BatchQueue -----------------------------
(***************************************************************************)
(* MailQueueService: the queue of one campaign in Redis, from              *)
(* addToCampaignQueue to the mail and the end of the campaign.             *)
(*                                                                         *)
(* Queue keys are pairs <<b, d>>: <<b, 0>> is `...:batch:b' and holds the  *)
(* recipients of batch b, <<b, 1>> is `...:batch:b:retries' and counts its *)
(* failures. The pattern `...:batch:*' that looks for batches finds the    *)
(* counters too: a counter taken for a batch never parses, and gets the    *)
(* counter <<b, 2>> of its own, `...:batch:b:retries:retries', and so on.  *)
(*                                                                         *)
(* Workers are rounds of processQueue (module QueueLock says when two may  *)
(* be under way) that have come to this campaign. An action is an awaited  *)
(* call together with the code up to the next await; the mails of a chunk  *)
(* are sent concurrently, each by a task of its own.                       *)
(***************************************************************************)
EXTENDS Naturals, Sequences, FiniteSets, SequencesExt

CONSTANTS
  Recipients,
  Leavers,     \* recipients that may unsubscribe (a bound)
  Workers,
  Calls,       \* the recipientIds of the calls of addToCampaignQueue, in order
  BatchLimit,  \* recipients per key (1000 in addToCampaignQueue)
  BATCH_SIZE,  \* recipients mailed concurrently (50)
  MAX_RETRIES, \* 3
  MaxDepth,    \* counters deeper than this are not picked (a bound)
  MaxFaults    \* failed calls and crashes in one behaviour (a bound)

ASSUME DataAssumption == Calls \in Seq(Seq(Recipients)) /\ Leavers \subseteq Recipients
ASSUME WorkersAssumption == IsFiniteSet(Workers)
ASSUME LimitsAssumption ==
  /\ BatchLimit \in Nat \ {0}
  /\ BATCH_SIZE \in Nat \ {0}
  /\ MAX_RETRIES \in Nat
  /\ MaxDepth \in Nat
  /\ MaxFaults \in Nat

VARIABLES
  status,     \* campaign.status
  active,     \* recipients with status ACTIVE
  payload,    \* <<b, 0>>: batch number -> recipients, <<>> when absent
  counter,    \* <<b, d>>: batch number, depth -> failures, 0 when absent
  producer,   \* the call of addToCampaignQueue under way and its next batch
  worker,     \* per worker: where it is and its local variables
  tasks,      \* the mails under way
  events,     \* mailEvent rows: recipient and type
  delivered,  \* history: mails SES accepted, per recipient
  attempts,   \* history: deliveries begun, per batch
  failures,   \* history: deliveries that ended in the catch block, per batch
  queued,     \* history: recipients ever written to a key
  excused,    \* history: recipients skipped as inactive or given up
  overlapped, \* history: two workers were at the same batch
  late,       \* history: per worker, deliveries begun since the campaign stopped
  faults

vars == <<status, active, payload, counter, producer, worker, tasks, events,
          delivered, attempts, failures, queued, excused, overlapped, late, faults>>

redis == <<payload, counter>>
history == <<attempts, failures, queued, excused, overlapped, late>>
mail == <<tasks, events, delivered>>

-----------------------------------------------------------------------------
(* Keys and batches                                                        *)

\* Mutant: the end of a slice counted as part of it.
SliceThrough(ids, first, n) ==
  SubSeq(ids, first, IF first + n < Len(ids) THEN first + n ELSE Len(ids))

\* Ids from `first' on, at most n of them: Array.slice(first, first + n).
Slice(ids, first, n) ==
  SubSeq(ids, first, IF first + n - 1 < Len(ids) THEN first + n - 1 ELSE Len(ids))

\* Batches of a call: `for (i = 0; i < recipientIds.length; i += batchSize)'.
BatchCount(ids) == (Len(ids) + BatchLimit - 1) \div BatchLimit
Batch(ids, b) == Slice(ids, (b - 1) * BatchLimit + 1, BatchLimit)

Batches == UNION {1 .. BatchCount(Calls[c]) : c \in DOMAIN Calls}
Depths == 1 .. MaxDepth + 1

\* What KEYS `...:batch:*' returns, in no particular order.
BatchKeys == {<<b, 0>> : b \in {b \in Batches : payload[b] # <<>>}}
             \union {k \in Batches \X Depths : counter[k] # 0}

\* DEL of key k: one of the two functions changes.
PayloadWithout(k) == IF k[2] = 0 THEN [payload EXCEPT ![k[1]] = <<>>] ELSE payload
CounterWithout(k) == IF k[2] = 0 THEN counter ELSE [counter EXCEPT ![k] = 0]
Delete(k) == payload' = PayloadWithout(k) /\ counter' = CounterWithout(k)

RetryKey(k) == <<k[1], k[2] + 1>>

-----------------------------------------------------------------------------
(* Workers and tasks                                                       *)

Idle == [at |-> "idle", key |-> <<0, 0>>, ids |-> <<>>, pos |-> 0,
         attempt |-> 0, retries |-> 0, seen |-> {}]

\* The tasks a worker waits for: those of the chunk of its present attempt.
TasksOf(w) == {t \in tasks : t.w = w /\ t.key = worker[w].key
                             /\ t.attempt = worker[w].attempt}

Moves(w, at) == worker' = [worker EXCEPT ![w].at = at]
Ends(w) == worker' = [worker EXCEPT ![w] = Idle]

CountsFailure(b) ==
  /\ failures' = [failures EXCEPT ![b] = @ + 1]
  /\ UNCHANGED <<attempts, queued, excused, overlapped, late>>

Fault == faults < MaxFaults /\ faults' = faults + 1

WorkerSteps == {"idle", "keys", "complete", "get", "drop", "lookup", "await",
                "delete", "retryGet", "giveUpKey", "giveUpCounter", "retrySet"}

WorkerType ==
  [at : WorkerSteps, key : (Batches \union {0}) \X (Depths \union {0}),
   ids : Seq(Recipients), pos : Nat, attempt : Nat, retries : 0 .. MAX_RETRIES,
   seen : SUBSET Recipients]

TaskType == [w : Workers, key : Batches \X {0}, attempt : Nat, r : Recipients,
             at : {"mail", "logSent", "logFailed"}]

TypeOK ==
  /\ status \in {"DRAFT", "SENDING", "COMPLETED"}
  /\ active \subseteq Recipients
  /\ payload \in [Batches -> Seq(Recipients)]
  /\ counter \in [Batches \X Depths -> 0 .. MAX_RETRIES]
  /\ producer \in [call : 1 .. Len(Calls) + 1, batch : Batches \union {1}]
  /\ worker \in [Workers -> WorkerType]
  /\ tasks \subseteq TaskType
  /\ events \subseteq Recipients \X {"SENT", "FAILED"}
  /\ delivered \in [Recipients -> Nat]
  /\ attempts \in [Batches -> Nat]
  /\ failures \in [Batches -> Nat]
  /\ queued \subseteq Recipients
  /\ excused \subseteq Recipients
  /\ overlapped \in BOOLEAN
  /\ late \in [Workers -> Nat]
  /\ faults \in 0 .. MaxFaults

Init ==
  /\ status = "DRAFT"
  /\ active = Recipients
  /\ payload = [b \in Batches |-> <<>>]
  /\ counter = [k \in Batches \X Depths |-> 0]
  /\ producer = [call |-> 1, batch |-> 1]
  /\ worker = [w \in Workers |-> Idle]
  /\ tasks = {}
  /\ events = {}
  /\ delivered = [r \in Recipients |-> 0]
  /\ attempts = [b \in Batches |-> 0]
  /\ failures = [b \in Batches |-> 0]
  /\ queued = {}
  /\ excused = {}
  /\ overlapped = FALSE
  /\ late = [w \in Workers |-> 0]
  /\ faults = 0

-----------------------------------------------------------------------------
(* The rest of the service, as far as it matters here                      *)

\* updateCampaignStatus and enqueueCampaign set SENDING; enqueueCampaign takes
\* any campaign, since nothing ever sets the status SENT it looks for.
StartSending ==
  /\ status # "SENDING"
  /\ status' = "SENDING"
  /\ late' = [w \in Workers |-> 0]
  /\ UNCHANGED <<active, redis, producer, worker, mail, attempts, failures, queued,
                 excused, overlapped, faults>>

\* CampaignService.cancel: whatever the status was.
Cancel ==
  /\ status # "DRAFT"
  /\ status' = "DRAFT"
  /\ UNCHANGED <<active, redis, producer, worker, mail, history, faults>>

Unsubscribe(r) ==
  /\ r \in active
  /\ active' = active \ {r}
  /\ UNCHANGED <<status, redis, producer, worker, mail, history, faults>>

-----------------------------------------------------------------------------
(* addToCampaignQueue                                                      *)

\* One turn of the loop: a batch is written over what its key holds. The
\* numbers start again with every call.
AddToCampaignQueue ==
  /\ producer.call <= Len(Calls)
  /\ LET ids == Calls[producer.call]
         b == producer.batch
     IN  /\ b <= BatchCount(ids)
         /\ payload' = [payload EXCEPT ![b] = Batch(ids, b)]
         /\ queued' = queued \union Range(Batch(ids, b))
         /\ producer' = IF b < BatchCount(ids)
                        THEN [producer EXCEPT !.batch = b + 1]
                        ELSE [call |-> producer.call + 1, batch |-> 1]
  /\ UNCHANGED <<status, active, counter, worker, mail, attempts, failures,
                 excused, overlapped, late, faults>>

\* SET fails: the call throws, what it has written stays.
AddToCampaignQueueFails ==
  /\ producer.call <= Len(Calls)
  /\ Fault
  /\ producer' = [call |-> producer.call + 1, batch |-> 1]
  /\ UNCHANGED <<status, active, redis, worker, mail, history>>

-----------------------------------------------------------------------------
(* processCampaign                                                         *)

\* findUnique: only a campaign that is SENDING is gone on with.
ProcessCampaign(w) ==
  /\ worker[w].at = "idle"
  /\ status = "SENDING"
  /\ Moves(w, "keys")
  /\ UNCHANGED <<status, active, redis, producer, mail, history, faults>>

\* KEYS: the first key of an unordered reply, or none.
FindBatch(w) ==
  /\ worker[w].at = "keys"
  /\ \/ /\ BatchKeys = {}
        /\ worker' = [worker EXCEPT ![w].at = "complete", ![w].seen = queued]
     \/ \E k \in BatchKeys :
          /\ k[2] <= MaxDepth
          /\ worker' = [worker EXCEPT ![w].at = "get", ![w].key = k]
     \/ /\ BatchKeys # {} /\ \A k \in BatchKeys : k[2] > MaxDepth
        /\ Ends(w)
  /\ UNCHANGED <<status, active, redis, producer, mail, history, faults>>

\* Nobody looks whether the campaign is still SENDING or still has no batch.
CompleteCampaign(w) ==
  /\ worker[w].at = "complete"
  /\ status' = "COMPLETED"
  /\ Ends(w)
  /\ UNCHANGED <<active, redis, producer, mail, history, faults>>

\* Mutant: the batch is popped.
PopBatch(w) ==
  LET b == worker[w].key[1] IN
  /\ worker[w].at = "get" /\ worker[w].key[2] = 0 /\ payload[b] # <<>>
  /\ attempts' = [attempts EXCEPT ![b] = @ + 1]
  /\ payload' = [payload EXCEPT ![b] = <<>>]
  /\ worker' = [worker EXCEPT ![w].at = "lookup", ![w].ids = payload[b],
                              ![w].pos = 1, ![w].attempt = attempts[b] + 1]
  /\ UNCHANGED <<status, active, counter, producer, mail, failures, queued,
                 excused, overlapped, late, faults>>

\* GET finds the recipients of a batch: a delivery of the batch begins.
GetBatch(w) ==
  LET b == worker[w].key[1] IN
  /\ worker[w].at = "get" /\ worker[w].key[2] = 0 /\ payload[b] # <<>>
  /\ attempts' = [attempts EXCEPT ![b] = @ + 1]
  /\ overlapped' = (overlapped \/ \E v \in Workers \ {w} :
                      worker[v].ids # <<>> /\ worker[v].key = <<b, 0>>)
  /\ late' = [late EXCEPT ![w] = IF status = "SENDING" THEN 0 ELSE @ + 1]
  /\ worker' = [worker EXCEPT ![w].at = "lookup", ![w].ids = payload[b],
                              ![w].pos = 1, ![w].attempt = attempts[b] + 1]
  /\ UNCHANGED <<status, active, redis, producer, mail, failures, queued, excused,
                 faults>>

\* GET finds a counter: JSON.parse makes a number of it, which has no
\* recipientIds, and the TypeError counts as a failure of this key.
GetCounter(w) ==
  /\ worker[w].at = "get" /\ worker[w].key[2] > 0 /\ counter[worker[w].key] # 0
  /\ Moves(w, "retryGet")
  /\ UNCHANGED <<status, active, redis, producer, mail, history, faults>>

\* Mutant: a batch that is gone is taken for the end of the campaign.
GoneMeansComplete(w) ==
  LET k == worker[w].key IN
  /\ worker[w].at = "get"
  /\ IF k[2] = 0 THEN payload[k[1]] = <<>> ELSE counter[k] = 0
  /\ worker' = [worker EXCEPT ![w].at = "complete", ![w].seen = queued]
  /\ UNCHANGED <<status, active, redis, producer, mail, history, faults>>

\* GET finds nothing: the key is deleted, once more.
GetNothing(w) ==
  LET k == worker[w].key IN
  /\ worker[w].at = "get"
  /\ IF k[2] = 0 THEN payload[k[1]] = <<>> ELSE counter[k] = 0
  /\ Moves(w, "drop")
  /\ UNCHANGED <<status, active, redis, producer, mail, history, faults>>

DropKey(w) ==
  /\ worker[w].at = "drop"
  /\ Delete(worker[w].key)
  /\ Ends(w)
  /\ UNCHANGED <<status, active, producer, mail, history, faults>>

\* processBatchChunk: findMany returns the recipients of the chunk that are
\* ACTIVE now, and a task is started for each.
LookUpChunk(w) ==
  LET chunk == Range(Slice(worker[w].ids, worker[w].pos, BATCH_SIZE)) IN
  /\ worker[w].at = "lookup"
  /\ tasks' = tasks \union
       {[w |-> w, key |-> worker[w].key, attempt |-> worker[w].attempt,
         r |-> r, at |-> "mail"] : r \in chunk \intersect active}
  /\ excused' = excused \union (chunk \ active)
  /\ Moves(w, "await")
  /\ UNCHANGED <<status, active, redis, producer, events, delivered, attempts,
                 failures, queued, overlapped, late, faults>>

\* Promise.all resolves: the next chunk, or the end of the batch.
ChunkDone(w) ==
  /\ worker[w].at = "await" /\ TasksOf(w) = {}
  /\ worker' = [worker EXCEPT
       ![w].pos = @ + BATCH_SIZE,
       ![w].at = IF worker[w].pos + BATCH_SIZE <= Len(worker[w].ids)
                 THEN "lookup" ELSE "delete"]
  /\ UNCHANGED <<status, active, redis, producer, mail, history, faults>>

\* Mutant: the key of a finished batch stays.
KeepBatch(w) ==
  /\ worker[w].at = "delete"
  /\ Ends(w)
  /\ UNCHANGED <<status, active, redis, producer, mail, history, faults>>

\* Mutant: the worker goes on with the next batch.
DeleteAndGoOn(w) ==
  /\ worker[w].at = "delete"
  /\ Delete(worker[w].key)
  /\ worker' = [worker EXCEPT ![w] = [Idle EXCEPT !.at = "keys"]]
  /\ UNCHANGED <<status, active, producer, mail, history, faults>>

\* The batch is done: its key goes, a counter of its failures stays.
DeleteBatch(w) ==
  /\ worker[w].at = "delete"
  /\ Delete(worker[w].key)
  /\ Ends(w)
  /\ UNCHANGED <<status, active, producer, mail, history, faults>>

\* A call inside the try fails: findMany, or DEL (executed or not).
BatchFails(w) ==
  /\ worker[w].at \in {"lookup", "delete"}
  /\ Fault
  /\ \/ UNCHANGED redis
     \/ worker[w].at = "delete" /\ Delete(worker[w].key)
  /\ Moves(w, "retryGet")
  /\ CountsFailure(worker[w].key[1])
  /\ UNCHANGED <<status, active, producer, mail>>

\* Mutant: one retry more than MAX_RETRIES.
ReadRetriesOneMore(w) ==
  LET n == counter[RetryKey(worker[w].key)] IN
  /\ worker[w].at = "retryGet"
  /\ worker' = [worker EXCEPT
       ![w].retries = n, ![w].ids = <<>>,
       ![w].at = IF n > MAX_RETRIES THEN "giveUpKey" ELSE "retrySet"]
  /\ UNCHANGED <<status, active, redis, producer, mail, history, faults>>

\* The catch block reads the failures of the key so far.
ReadRetries(w) ==
  LET n == counter[RetryKey(worker[w].key)] IN
  /\ worker[w].at = "retryGet"
  /\ worker' = [worker EXCEPT
       ![w].retries = n, ![w].ids = <<>>,
       ![w].at = IF n >= MAX_RETRIES THEN "giveUpKey" ELSE "retrySet"]
  /\ UNCHANGED <<status, active, redis, producer, mail, history, faults>>

CountRetry(w) ==
  /\ worker[w].at = "retrySet"
  /\ counter' = [counter EXCEPT ![RetryKey(worker[w].key)] = worker[w].retries + 1]
  /\ Ends(w)
  /\ UNCHANGED <<status, active, payload, producer, mail, history, faults>>

\* Mutant: a key given up stays, only its counter goes.
GiveUpKeepsKey(w) ==
  LET k == worker[w].key IN
  /\ worker[w].at = "giveUpKey"
  /\ excused' = IF k[2] = 0 THEN excused \union Range(payload[k[1]]) ELSE excused
  /\ Moves(w, "giveUpCounter")
  /\ UNCHANGED <<status, active, redis, producer, mail, attempts, failures, queued,
                 overlapped, late, faults>>

\* Too many failures: the batch is skipped, then its counter is deleted.
GiveUpKey(w) ==
  LET k == worker[w].key IN
  /\ worker[w].at = "giveUpKey"
  /\ excused' = IF k[2] = 0 THEN excused \union Range(payload[k[1]]) ELSE excused
  /\ Delete(k)
  /\ Moves(w, "giveUpCounter")
  /\ UNCHANGED <<status, active, producer, mail, attempts, failures, queued,
                 overlapped, late, faults>>

GiveUpCounter(w) ==
  /\ worker[w].at = "giveUpCounter"
  /\ Delete(RetryKey(worker[w].key))
  /\ Ends(w)
  /\ UNCHANGED <<status, active, producer, mail, history, faults>>

\* A call outside the try fails: the round is over. One that was executed and
\* whose reply is lost leaves what its own action leaves.
RoundFails(w) ==
  /\ worker[w].at \in {"keys", "complete", "get", "drop", "retryGet", "retrySet",
                       "giveUpKey", "giveUpCounter"}
  /\ Fault
  /\ Ends(w)
  /\ UNCHANGED <<status, active, redis, producer, mail, history>>

\* The process dies, with the tasks it was running.
Crash(w) ==
  /\ worker[w].at # "idle" \/ \E t \in tasks : t.w = w
  /\ Fault
  /\ Ends(w)
  /\ tasks' = {t \in tasks : t.w # w}
  /\ UNCHANGED <<status, active, redis, producer, events, delivered, history>>

-----------------------------------------------------------------------------
(* One mail: sendTemplateEmail never throws, it reports success or not, and *)
(* the task logs SENT without looking at the report.                       *)

Becomes(t, at) == tasks' = (tasks \ {t}) \union {[t EXCEPT !.at = at]}

\* SES accepts the mail; the SENT row of MailService is written, or is not
\* and the report is `success: false'.
MailAccepted(t, logged) ==
  /\ t \in tasks /\ t.at = "mail"
  /\ delivered' = [delivered EXCEPT ![t.r] = @ + 1]
  /\ events' = IF logged THEN events \union {<<t.r, "SENT">>} ELSE events
  /\ Becomes(t, "logSent")
  /\ UNCHANGED <<status, active, redis, producer, worker, history, faults>>

MailRefused(t) ==
  /\ t \in tasks /\ t.at = "mail"
  /\ Becomes(t, "logSent")
  /\ UNCHANGED <<status, active, redis, producer, worker, events, delivered,
                 history, faults>>

LogWritten(t) ==
  /\ t \in tasks /\ t.at \in {"logSent", "logFailed"}
  /\ events' = events \union {<<t.r, IF t.at = "logSent" THEN "SENT" ELSE "FAILED">>}
  /\ tasks' = tasks \ {t}
  /\ UNCHANGED <<status, active, redis, producer, worker, delivered, history, faults>>

LogSentFails(t) ==
  /\ t \in tasks /\ t.at = "logSent"
  /\ Fault
  /\ Becomes(t, "logFailed")
  /\ UNCHANGED <<status, active, redis, producer, worker, events, delivered, history>>

\* Mutant: Promise.allSettled, the batch goes on.
LogFailedIgnored(t) ==
  /\ t \in tasks /\ t.at = "logFailed"
  /\ tasks' = tasks \ {t}
  /\ UNCHANGED <<status, active, redis, producer, worker, events, delivered,
                 history, faults>>

\* The FAILED row fails too (the outage that LogSentFails counted goes on):
\* Promise.all rejects at once, the other tasks of the chunk go on unobserved.
LogFailedFails(t) ==
  /\ t \in tasks /\ t.at = "logFailed"
  /\ tasks' = tasks \ {t}
  /\ IF worker[t.w].at = "await" /\ t \in TasksOf(t.w)
     THEN Moves(t.w, "retryGet") /\ CountsFailure(t.key[1])
     ELSE UNCHANGED <<worker, history>>
  /\ UNCHANGED <<status, active, redis, producer, events, delivered, faults>>

-----------------------------------------------------------------------------
CallStep(w) ==
  \/ FindBatch(w) \/ CompleteCampaign(w)
  \/ GetBatch(w) \/ GetCounter(w) \/ GetNothing(w) \/ DropKey(w)
  \/ LookUpChunk(w) \/ ChunkDone(w) \/ DeleteBatch(w) \/ BatchFails(w)
  \/ ReadRetries(w) \/ CountRetry(w) \/ GiveUpKey(w) \/ GiveUpCounter(w)
  \/ RoundFails(w)

WorkerStep(w) == ProcessCampaign(w) \/ CallStep(w)

MailStep(t) ==
  \/ \E logged \in BOOLEAN : MailAccepted(t, logged)
  \/ MailRefused(t) \/ LogWritten(t) \/ LogSentFails(t) \/ LogFailedFails(t)

Next ==
  \/ StartSending \/ Cancel \/ \E r \in Leavers : Unsubscribe(r)
  \/ AddToCampaignQueue \/ AddToCampaignQueueFails
  \/ \E w \in Workers : WorkerStep(w) \/ Crash(w)
  \/ \E t \in tasks : MailStep(t)

Spec == Init /\ [][Next]_vars

\* processQueue is run by a timer, awaited calls are answered, and so are the
\* calls of the tasks of each worker.
Fairness ==
  \A w \in Workers :
    /\ WF_vars(WorkerStep(w))
    /\ \A r \in Recipients :
         WF_vars(\E t \in tasks : t.w = w /\ t.r = r /\ MailStep(t))

FairSpec == Spec /\ Fairness

-----------------------------------------------------------------------------
(* Properties                                                              *)

Waiting == UNION {Range(payload[b]) : b \in Batches}
Logged == {e[1] : e \in events}

\* Whoever was written to the queue is still in it, or has a mail event, or was
\* not ACTIVE when looked up, or belonged to a batch given up after its
\* retries: no order of failures, crashes and competing workers loses one.
\* (addToCampaignQueue 287-305, processCampaign 151-189)
NoRecipientLost == queued \subseteq Waiting \union Logged \union excused

\* The worker that completes a campaign found it without a batch, and each
\* recipient queued until then was dealt with. (136-148)
CompletedMeansHandled ==
  \A w \in Workers :
    worker[w].at = "complete" => worker[w].seen \subseteq Logged \union excused

\* The batches a recipient may be in.
BatchesOf(r) ==
  {b \in Batches : \E c \in DOMAIN Calls :
     b <= BatchCount(Calls[c]) /\ r \in Range(Batch(Calls[c], b))}

\* A delivery of a batch mails no recipient twice, whatever its chunks; nobody
\* gets more mails than there were deliveries of his batches. (168-171)
AtMostOneMailPerDelivery ==
  \A r \in Recipients : delivered[r] <= SumFunctionOnSet(attempts, BatchesOf(r))

\* A second mail to the same recipient takes a failed call, a crash, or two
\* workers at the same batch. (processCampaign 151-174)
DuplicatesHaveCause ==
  (\E r \in Recipients : delivered[r] > 1) => faults > 0 \/ overlapped

\* After a cancel, or a completion by another, each worker begins one batch more
\* at most, however many wait: the status is looked at before every batch, though
\* not within one. (processCampaign 122-130)
StopsAfterOneBatch == \A w \in Workers : late[w] <= 1

\* The queue implements module Delivery: with workers that compete, fail and die
\* at any point, nobody settled becomes owed again, and a campaign is completed
\* only on finding that all who were queued are settled. (116-190, 271-310)
D == INSTANCE Delivery WITH
       settled <- Logged \union excused,
       judged <- \E w \in Workers : worker[w].at = "complete",
       completed <- status = "COMPLETED"
DeliverySpec == D!Spec

\* The delivery of a batch fails at most MAX_RETRIES times more after its first
\* failure, then the batch is skipped. (line 19, `maximal number of retries',
\* and the message of line 183)
RetriesBounded == \A b \in Batches : failures[b] <= 1 + MAX_RETRIES

\* A campaign that stays SENDING is completed, whatever calls failed and rounds
\* died on the way: a batch that fails is given up with its counter, and so is a
\* counter taken for a batch. It is not if the counters of counters are taken again
\* and again: each that is given up lets the counter it counted for start anew, and
\* an order of KEYS that has `...:retries:retries' before `...:retries' goes round
\* for ever. The last disjunct is the bound: deeper counters are not picked. (116-190)
CampaignCompletes ==
  <>[](\A w \in Workers : worker[w].key[2] < 2)
    => (status = "SENDING" ~>
          status # "SENDING" \/ (BatchKeys # {} /\ \A k \in BatchKeys : k[2] > MaxDepth))
=============================================================================
