# Verification of bulk_mail_project

TLA+ models of the NestJS application in `src/`: what its services do between two awaits, in which
orders that can happen, and what is left when a call fails or a process dies. TLC checks each model
on a small instance, TLAPS proves the theorems of `QueueLockProofs`, `BatchQueueProofs`,
`BatchQueueOnceProofs`, `CampaignLifecycleProofs`, `MailEventsProofs`, `AudienceProofs` and
`TemplateVersionsProofs` for every instance, from the lemmas on sums of `SumFacts` among others. All
safety properties that a run checks are proved.

    tlc -config QueueLock.cfg MCQueueLock        # any .cfg with the MC module of its name
    tlapm QueueLockProofs.tla                    # the other modules named ...Proofs, and SumFacts

## 1. The system

The application keeps users, groups, recipients, templates, campaigns and mail events in PostgreSQL
(through Prisma), parks batches of recipients and a copy of each campaign's status in Redis, emits
messages to Kafka and sends mail with Amazon SES. Everything runs in one Node process per instance:
code between two awaits is atomic, everything else interleaves; instances share the three stores.

| Component | Source (under `src/src/`) | State | Operations |
|---|---|---|---|
| Mail queue: one processor at a time | `modules/mail-queue/mail-queue.service.ts` 19-113 | `isProcessing`, the timer, the Redis key `QUEUE_LOCK` | `startProcessing`, `stopProcessing`, `processQueue` |
| Mail queue: batches | same file, 115-308 | Redis keys `...:batch:n` and `...:batch:n:retries`, `campaign.status`, `mailEvent` rows | `addToCampaignQueue`, `processCampaign`, `processBatchChunk` |
| Mail queue: events | same file, 373-463 | `mailEvent` rows, campaign counters | `handleMailEvent`, `handleFailedMail`, `checkCampaignCompletion` |
| Campaigns | `modules/campaign` | campaign row (status, scheduledAt, sentAt), its recipients, the copy of the status in Redis, parked batches, Kafka messages | `createCampaign`, `update`, `updateCampaignStatus`, `startSendingCampaign`, `send`, `cancel`, `remove`, `enqueueCampaign`; the two crons of `scheduler.service.ts` |
| Templates | `modules/template`, `modules/mail` | template row (version, content), `mailTemplateVersion` rows | `update`, `restoreVersion`, `remove`, `updateTemplate`, `deleteTemplate` |
| Mail sending | `modules/mail/services/mail.service.ts` | none | `sendTemplateEmail` |
| SES webhooks | `modules/webhook` | `mailEvent` rows | `handleSESEvent` |
| Analytics | `modules/analytics` | a cache in Redis, five minutes | queries |
| Recipients | `modules/recipient` | recipient rows (unique by email), memberships | `createRecipient`, `createRecipients`, `updateRecipientStatus`, `unsubscribe`, `update`, `addRecipientsToGroup`, `remove` |
| Upload | `modules/upload` | recipient rows, one transaction | `importRecipientsFromCsv` |
| Groups | `modules/group` | the group, its memberships, the campaigns that have it | `addRecipients`, `removeRecipients`, `remove` |
| Auth, users | `modules/auth`, `modules/user` | user rows | `register`, `login` |
| Redis, Kafka, Prisma clients | `infrastructure/redis`, `infrastructure/kafka`, `infrastructure/prisma` | connections | `set`, `get`, `del`, `keys`, `emit` |

**How they interact.** `CampaignService` writes the campaign row and then, in another call, the copy
of its status in Redis; a start parks batches in Redis. `SchedulerService` and the users both call
`updateCampaignStatus`. `MailQueueService` reads the campaign row, looks for batches in Redis, calls
`MailService` for each recipient, writes `mailEvent` rows and finally the campaign row. Nothing but
the database's own constraints and the lock in Redis keeps any of them apart.

**What is wired.** `app.module.ts` does not import the mail queue, webhook and analytics modules,
and nobody in `src/` calls `startProcessing`, `addToCampaignQueue`, `handleMailEvent` or subscribes to
Kafka; `README.md:148` of the repository promises `/schedule`, no controller has it. The models take
the operations as the services define them and let a caller use each in any order.

**What is hard, and what makes each part correct.**

* *Lock.* Overlapping timer rounds, several instances, a lock that expires, deletes by runs that do
  not own it, failed and half-executed commands, crashes. Correct: two runs process the queue together
  only after one lost its key; every instance goes on trying for it and the queue is polled on.
* *Batches.* A batch is sent in chunks of concurrent mails; anything may fail between mail, event row,
  delete and retry counter; two workers may be at one batch. Correct: nobody is lost, a delivery mails
  nobody twice, a campaign is completed only when everyone queued was dealt with, retries are bounded.
* *Campaigns.* Requests, crons and the worker read a status, await, and write it; the copy in Redis
  follows later. Correct: a campaign that claims to be sent was parked entirely, the copy agrees,
  MAIL_QUEUE hears of it once, a due campaign starts, completion means that its batches were processed.
* *Templates.* The history row and the template are written by two calls without a transaction.
  Correct: no content is lost, a write replaces what its request read, a failure does not block the
  template. The code keeps the second only while updates are among themselves.
* *Events.* Handlers of one campaign overlap; a retry counter is read and written back; completion is told
  from a count of rows that the senders of the mails write too. Correct: every failure is retried within its
  allowance, a full count completes the campaign and none before. Webhooks arrive late, twice, out of order.
* *Recipients, groups, links.* Check-then-create against unique indexes; transactions that hold locks, with
  a `try` around each line or with calls beside them that wait for their own locks; deletion in several
  calls. Correct: what an answer counts was saved, an undisturbed import is whole, a group does not lose
  its members and stay, an update leaves the links it was asked for, an unsubscription is not undone.

`PROJECT.json` lists every hazard of this kind at its line, with the properties that cover it or the
reason none does.

## 2. Modules

| Module | Models | Checked by | Proved in |
|---|---|---|---|
| `QueueLock` | who may work on the queue | `MCQueueLock`, `QueueLock.cfg`, `QueueLockContention.cfg` | `QueueLockProofs` |
| `BatchQueue` | the batches of one campaign | `MCBatchQueue`, `BatchQueue.cfg`, `BatchQueueShared.cfg`, `BatchQueueRetries.cfg` | `BatchQueueProofs`, `BatchQueueOnceProofs` |
| `Delivery` | the abstract queue that `BatchQueue` implements | property `DeliverySpec` of `BatchQueueShared.cfg` | `BatchQueueProofs` |
| `CampaignLifecycle` | one campaign, its copy and its parked batches | `MCCampaignLifecycle`, `CampaignLifecycle.cfg`, `CampaignCompletion.cfg` | `CampaignLifecycleProofs` |
| `MailEvents` | the events of one campaign's mails, the reports of SES | `MCMailEvents`, `MailEvents.cfg`, `MailEventsCompletion.cfg` | `MailEventsProofs` |
| `TemplateVersions` | one template and its history | `MCTemplateVersions`, `TemplateVersions.cfg`, `TemplateRestore.cfg` | `TemplateVersionsProofs` |
| `Tables` | the tables that the next three share: recipients, members, links, locks, requests | with `Audience` | with `Audience` |
| `Recipients` | creation, status, deletion and import of recipients | with `Audience` | with `Audience` |
| `Groups` | one group, its members, its removal | with `Audience` | with `Audience` |
| `CampaignLinks` | `createCampaign` and `update`: their transactions and the links made beside them | with `Audience` | with `Audience` |
| `Audience` | the composition of the three, and its properties | `MCAudience`, `Audience.cfg` | `AudienceProofs` |
| `SumFacts` | lemmas on sums over finite sets, for the two that count with them | none | `SumFacts` |

In all of them an action is one awaited call together with the code up to the next await. A call that
fails costs one of `MaxFaults`; where it matters whether the store executed it before the reply was
lost, both are possible. Variables marked *history* in the declarations exist only in the models:
properties use them to say "unless something befell it", no guard reads them (the index of a delivery
in `BatchQueue` identifies the promises a worker waits for).
Definitions marked *Mutant* are no part of the specification; they are wrong versions of the definition
below them, kept to show that the properties tell the difference.

### QueueLock

`isProcessing` and `interval` are the fields, `lock` the Redis key. The key holds the string `'true'`;
the model remembers which run set it, as history, and guards ask only whether it is there. `conn` is
the queue of commands of the one `redis` client (node-redis) per instance: commands are answered in the order in which they
were sent. `pc` says what a run awaits: the lock, the query for campaigns, the work, the delete of line
100 (`early`) or that of the finally block (`release`). A return from inside the `try` goes through the
finally block: `LockRefused` therefore sends a delete. `Crash` ends all runs of an instance.

### BatchQueue

`payload` and `counter` are the two kinds of Redis keys. The pattern of line 133 matches both, so both
are in `BatchKeys`. A worker is one round of `processQueue` at this campaign; whether several may be
there is the question `QueueLock` answers (they may), so the runs take one and two. A chunk's mails are
`tasks`, with `Promise.all` as in the code: it rejects at the first rejection and does not stop the
others. `sendTemplateEmail` never throws: accepted, accepted but not logged, refused are its outcomes.

`Delivery` is what the queue promises without keys, batches, retries, workers or crashes: who was queued
and is settled stays so, and the campaign is completed only on a judgement made when everybody queued
was settled. `settled` is mapped to "has an event, or was passed over", `judged` to a worker that is about
to write COMPLETED; `DeliverySpec` at the end of `BatchQueue` is the instance.

### CampaignLifecycle

The row is `status`, `scheduledAt`, `sentAt`, `batches` (recipients counted in batches, all that
parking depends on). Requests, crons and the worker are processes with one record each: where they
are and what they read before. Dates are `later`, `due` and `old`, past the thirty days of the
cleanup (`scheduler.service.ts` 57-58); `TimePasses` ages the row's date and every date kept in a process. `Cancel` is one
call to the database and may come at any time; other requests happen once each. The inside of
`update`'s transaction is one step.

### TemplateVersions

A request keeps what it read and does `mailTemplateVersion.create` and then `mailTemplate.update`; the
unique index on `(templateId, version)` is the guard of the first. `updateTemplate` of `modules/mail`
writes the same row without a history and increments in the database. Each request brings a content
of its own, so that a lost one can be told. `passed` remembers, per request, that the row it read was
written under it other than by an update in its turn: by `updateTemplate`, by a restore, beside a restore of
its own, or by a request that had been passed itself.

### MailEvents

`rows` counts the `mailEvent` rows per recipient, type and writer, since `checkCampaignCompletion` counts all
of a type whoever wrote them: those of `handleMailEvent` (381) and of the webhook, the SENT row of
`MailService` (`mail.service.ts:102`, kind `mailSent`), and the SENT or FAILED row of a task of
`processBatchChunk` (233 and 249, `taskSent` and `taskFailed`). `mail` holds the mails under way: a mail goes
from `due` by way of SES to the row of `MailService` and to its sender, which is a task of the batch queue or
the consumer of `MAIL_SEND`. A task writes a second row whatever it was told, and checks nothing; the consumer,
which is not in the code, is taken to hand the outcome to `handleMailEvent`, and so is the consumer of
`MAIL_EVENT`; an event may be handed over twice. When the row of `MailService` fails its catch says that the mail failed
although SES accepted it (`LogMailFails`): the consumer's event is then FAILED and the recipient gets the mail again.

`handler` is a call of `handleMailEvent`, `retry` the counter in Redis; `hook` is a call of
`WebhookService.handleSESEvent`. It looks for a row with the message id in the column `messageId`. `MailService`
fills it (105), and so do the rows of `handleMailEvent` (384) and of the webhook (60), which come after it;
`processBatchChunk` (239) keeps the id in `metadata`, where nobody looks. A report that finds no row (`early`: the row is not written
yet, or its write failed) and one whose type is none of the five of the `switch` (51-53) are dropped; the others
add a row and a message to `MAIL_EVENT`, which becomes a row once more.

### Tables, Recipients, Groups, CampaignLinks, Audience

A request is one record of `job` (what it asks for), `at` (the call it waits for) and what it has read;
each action is one call. A recipient is identified by his email, which is unique; `recipient[e]` is his
status or `"none"`. The tables hold what is committed; `wrote` and `unlinked` are what an open transaction
has written and deleted. A call that needs such a row waits; imports that wait for each other are a
deadlock, of which PostgreSQL ends one; and an update that waits for its own call *beside* the
transaction ends when Prisma's five seconds are over. What the models follow from this:

* `importRecipientsFromCsv` has a `try` around each line inside one transaction. After a statement that
  fails PostgreSQL refuses all that follow, each of them counted as a failed line, and what was done is
  rolled back: the answer is a success of which nothing is kept. A line that is not valid is found before
  any statement and disturbs no other. A line without a status writes back the status the import read.
* `createRecipients` looks up who exists and inserts the others with `skipDuplicates`: rows created
  since are skipped, and the count includes them.
* `GroupService.remove` deletes the members first and the group, under a condition on its owner, second.
* `createCampaign` makes the links of groups and recipients by `this.prisma` while the campaign's own row
  is uncommitted in `tx`: the foreign key does not find it, and each request with groups or recipients
  is refused. `update` makes links of a campaign that exists, beside its transaction, which has deleted
  the old ones and not committed: a recipient who was linked before stalls the call until the
  transaction's time is over; the links of others stay although the update is refused.

`createMany` is one statement. Calls that are executed and whose reply is lost are left out here (a
failed call leaves nothing); a failure ends a transaction as an abort does. `createGroup`, `create` and
`update` of a group, and a change of email, write nothing the others read. Several bulk inserts of 1000
are several requests. The group part of `update` is applied with its commit. What `update` and `remove`
of a campaign look up first (exists, not SENT) is in `CampaignLifecycle`.

## 3. Runs

| Run | Instance | Shows |
|---|---|---|
| `queue_lock` | 2 instances, 3 runs (two on one instance), 2 faults | the lock properties below and polling |
| `queue_lock_contention` (violated) | 2 instances, 1 run each, no fault | a refused run deletes the owner's key |
| `batch_queue` | 1 worker, 3 recipients in keys of 2 and 1, chunks of 1, 1 retry, counters down to `:retries:retries`, 2 faults | nobody lost, no double mail within a delivery, a cancel stops the queue, campaigns complete |
| `batch_queue_shared` | 2 workers, 2 recipients in one key, chunk of 2, 1 fault | the same under competition; completion, duplicates, and that the queue implements `Delivery` |
| `batch_queue_retries` (violated) | 1 worker, 3 faults | the retry counter is taken for a batch |
| `campaign` | 2 requests, 1 cron, 1 worker, cancels, 2 batches, 1 fault | what row, date, sentAt, copy and parked batches guarantee |
| `campaign_completion` (violated) | 1 request, 1 worker, 1 batch | a campaign is completed with all batches parked |
| `mail_events` | 2 recipients (one in a batch, one by `MAIL_SEND`), 2 handlers, 1 hook, 2 retries, 1 fault or duplicate | retries, completion and reports under overlapping events and senders |
| `mail_events_completion` (violated) | 2 recipients, 1 handler | the two rows of one mail are counted for two recipients |
| `template` | 5 requests, 2 faults | no content lost, late writes and falling versions, blocking |
| `template_restore` (violated) | 2 requests | the history's label is wrong after a restore |
| `audience` | 2 requests of any kind, 2 recipients, 1 group, 1 campaign, 1 fault | imports, bulk creation, memberships and links when transactions and calls beside them cross |

### What they say

* **Lock.** `ExclusionUnlessRobbed`: SET NX and the delete of its owner exclude on their own; two runs
  are past the lock together only when the key of one was deleted by another or expired under it.
  `FlagGuards`: the flag is up only while someone works, and stands for exactly that run unless a round
  without campaigns (which lowers the flag *before* its first delete) overlaps. `NoSelfRobbery`: within
  an instance the next round may be started while the delete of the last is under way, and only the
  order of the connection protects it. `CleanRunsDeleteTheirOwn`: a foreign key is deleted by runs that
  were refused, failed, found nothing or lost their own. `InstanceTries`: an
  instance that keeps its timer sends `SET NX` again and again, so on every way out of a run the flag comes
  down. `QueuePolled`: some instance then looks for campaigns again and again. Neither assumes that the key
  expires: a run that is refused deletes the key (finding 1), and with that repaired the time to live would
  have to do it.
* **Batches.** `NoRecipientLost`: whoever was queued is still there, has an event, was not ACTIVE, or
  belonged to a batch given up. This is about one call of `addToCampaignQueue`: a second call starts at
  batch 0 again and overwrites what waits there, listed as a hazard. `StopsAfterOneBatch`: the status is
  looked at once per batch, so a cancelled campaign has one batch more per worker at most.
  `DeliverySpec`: each step of the queue, crashes included, is one of the abstract queue or none.
  `AtMostOneMailPerDelivery`
  bounds mails by deliveries; `DuplicatesHaveCause` says when there is more than one;
  `CompletedMeansHandled` that a worker completes a campaign only after everyone queued until then was
  dealt with; `CampaignCompletes` that it comes to that, whatever fails
  and dies on the way, as long as the counters of counters are not taken for batches again and again. That
  condition is needed: with `...:retries:retries` before `...:retries` in the reply of KEYS the counter is
  never given up, since what counts its failures is given up first, and a single failed call leaves the
  campaign SENDING for ever. Two keys are enough, and TLC finds the cycle without the condition. The
  property also excuses what the bound leaves, counters deeper than `MaxDepth`.
* **Campaigns.** `SentAtMeansParked`, `AnnouncedTwiceHasCause`, `StaleCopyHasCause` each name exactly
  the histories in which the guarantee is lost (recipients edited during a start; overlapping sends or a
  reopened campaign; writes that skip Redis). `DueCampaignLeaves`: a round of the cron that is lost is
  made up for by a later one. The table of allowed transitions is *not* an invariant: it is checked
  against a status read before the write, so a cancel or a second request in between gets around it.
* **Events.** `FailureRetried`: with no handler at work each failure led to a mail sent again, or its
  recipient had all its retries; overlapping handlers write the counter back below each other (the run
  has counters that fall), which costs bounds, never a retry. `RetriesWithinAllowance`: more retries than
  allowed take an event handed over twice and handled at once. `EarlyCompletionHasCause`: an
  early end takes a recipient with two rows, which every accepted mail has when its outcome is handed over.
  `FullCountCompletes`: when nobody is at work and the rows are as many as the recipients, the campaign and its copy are
  COMPLETED, unless a sender wrote a row since the last check; no interleaving of handlers
  misses the number. It does not say that a campaign ends: with one event per recipient and the rows of the
  senders the count steps over the equality, or its last row has no check. `ReportsKept`: every report of
  a known type on a mail whose row `MailService` had written when it came gets its own rows, failures apart.
* **Templates.** `NothingLost` holds for any overlap of updates, failures and crashes, because of the
  index; `LateWriteHasCause` says when a request writes over what it did not read: only when it was `passed`, which
  updates alone never do to each other. The code does let the version fall (an `update` reads 1, two
  `updateTemplate` make it 3, the update writes 2), and the property says that a fall is always the write of a
  passed request. `StuckHasCause` says when the next update is refused.
* **Recipients, groups, links.** `CountedMeansSaved`: what an answer counts was saved, or the recipient
  was contested; an import that kept nothing met another request, a deadlock or a failure.
  `UndisturbedImportIsWhole`: the `try` around each line does what it seems to as long as no statement
  fails. `EmptiedGroupHasCause` names when a group stays without its members. `CreationNeverLinks`,
  `UpdateOutcome` and `UpdateLinksAsAsked` say what the links made beside the transactions come to:
  creation refuses them always, an update succeeds exactly as asked or names someone already linked.
  `UnsubscribedStays`: an unsubscription is undone by a request that says so, or by an import that
  read before it. `EveryRequestAnswered`: the locks, waits and timeouts leave nobody waiting for ever.

### Findings

The five violated runs state what a comment of the code says and give the trace against it:

1. `mail-queue.service.ts:112` - the finally block of a refused run deletes the key of the owner.
2. `mail-queue.service.ts:133` - the pattern for batches matches retry counters; a counter that fails
   as a batch is deleted in the end, and the batch it counted for starts at zero.
3. `campaign.service.ts:244` - batches are parked under `KAFKA_TOPICS.MAIL_SEND` and looked for under
   `REDIS_QUEUE.MAIL_SEND`; the campaign is completed at once.
4. `mail-queue.service.ts:450` - completion compares the number of events with the number of recipients;
   an accepted mail has two (`mail.service.ts:102` and the event's own), and another recipient none.
5. `template.service.ts:292` - restoring saves the current content under the version to come, and the
   next update finds that version taken.

## 4. Bounds

* *Three runs, two instances* (`queue_lock`): an owner, a refused or idle run that deletes its key, and
  one that takes the key then; two of them on one instance, so that the flag and the order of the
  connection matter. Two faults: one to lose a delete, one to crash the next owner. Exclusion,
  the flag and the deletes are proved for any number.
* *Keys of 2 and 1 recipients, chunks of 1* (`batch_queue`): several keys, several chunks of a key, a
  last key that is not full. *Two workers, one key* (`batch_queue_shared`): both in every phase of it.
  `MAX_RETRIES = 1` passes through all branches: first failure, retry, giving up. `MaxDepth` is 2
  in `batch_queue`: the counter of a batch and the counter of that counter are picked, which is what an endless
  round takes. The other two runs have 1.
* *Two requests, a cron, a worker* (`campaign`): pairs of requests with any third party between any two
  of their calls; `Targets` has SCHEDULED, since `send` and the cron bring SENDING and `Cancel` DRAFT.
  Two batches make parking a loop.
* *Two handlers, two recipients, two retries* (`mail_events`): a counter read by one handler while the other
  writes it, completion counted for the wrong recipient. One recipient is mailed by a batch and one by
  the consumer, so that every writer of rows is there. One mishap, an event handed over twice or a call that fails, is enough to have two mails
  of one recipient under way; the properties that exempt both would not show more with two, and the theorems hold for any
  number. One hook, since each call of it is a row and a message of its own: 1.4 million states.
* *Five requests* (`template`): two updates, a restore and two of anything. The version is bounded by
  the number of requests.
* *Two requests over two recipients, a group, a campaign* (`audience`): every pair of operations, with
  files in both orders (so that two imports may lock against each other), with an email twice, an
  invalid line and no line. Everything here is an effect of one request on another: three requests over
  a smaller choice gave 823,980 states and no error, and the theorems hold for any number.
* `CHECK_DEADLOCK FALSE` is in the campaign, event, template and audience runs only, whose requests are finitely many.

## 5. Fairness

`QueueLock`: awaited calls are answered or fail (`WF` of each run's steps), a set timer fires
(`setInterval`, `WF` per instance). Nothing makes anybody start, stop or crash an instance, nor the key
expire; `QueuePolled` and `InstanceTries` assume in their statements that a timer stays set.
`BatchQueue`: the timer starts rounds and calls are answered, per worker and per task. Fairness
does not choose between success and failure; since only `MaxFaults` calls fail, none fails for ever.
`CampaignLifecycle`: calls are answered and the minute cron and the queue timer fire. Nothing is
assumed of users, of the nightly cleanup or of time passing.
`Audience`: statements are answered, and a wait ends by the lock that comes free, the deadlock that is
found or the transaction whose time is over (`WF` of each request's steps).
`MailEvents` and `TemplateVersions` have no liveness property.

## 6. Proofs

`QueueLockProofs` (every set of instances and runs, finite or not, every `At`, every `MaxFaults`):

* `TypeCorrect`, `InductiveInvariant`: `Spec => []IInv`, where
  `IInv == TypeOK /\ CleanOwner /\ FlagGuards /\ EarlyMarked /\ InFlight /\ LastInLine`.
* `Exclusion` (`ExclusionUnlessRobbed`), `FlagCorrect` (`FlagGuards`), `CleanDeletes`
  (`CleanRunsDeleteTheirOwn`), `OrderProtects` (`NoSelfRobbery`).

The assumptions are `RunsAssumption` (each run has an instance, the two markers are not runs) and
`FaultsAssumption`. Exclusion alone is not inductive: that a run's `SET NX` meets no other owner needs
`CleanOwner`, which ties the key to the one run that nothing befell from `SET NX` to its last delete.
`NoSelfRobbery` needs to know the connection: `InFlight` (a run has at most one command under way) and
`LastInLine` (while no idle round overlaps, nothing is sent behind a `SET NX`, and nothing is in flight
behind a run past it); `LastInLine` in turn needs `FlagGuards`, since it is the flag that keeps a
second `SET NX` from being sent. Each conjunct has a lemma per step that can disturb it; the theorems on
actions follow from `IInv` in the state before.

`TemplateVersionsProofs` (every set of requests, finite or not, and every `MaxFaults`; the assumption is
`TemplateAssumption`, that the first content is no request's):

* `TypeCorrect` (`TypeOK`, the unique index among it), `ContentsKept` (`NothingLost`),
  `BlockedForAReason` (`StuckHasCause`), `LateWritesHaveACause` (`LateWriteHasCause`), from `IInv == TypeOK /\
  RestoreAlone /\ FreshOrRefused /\ WriterAlone /\ NothingLost /\ TakenByWriter /\ ReadHolds`.

That nothing is lost follows from `WriterAlone`: whoever is about to write has exactly the present
content in the history and is the only one in that position. A second writer is kept out by the index,
and that the index suffices is `FreshOrRefused`: a request that still has to save either read what the
template is now, or brings a version that has a row already and will be refused. It needs
`RestoreAlone`, since a restore saves under another version than an update and the two do not meet at
the index: that is why the properties leave out a restore that overlapped another request (`crossed`).
`TakenByWriter` is the strengthening of `StuckHasCause`. `ReadHolds` is the one of `LateWriteHasCause` and exempts
no crossing: a request that was not passed holds the row as it is, or still has to save a version that is taken; and
two requests about to write saved different versions, so an update that writes in its turn finds no other that
read the same row.

`BatchQueueProofs` (every set of recipients and finite set of workers, every batch size, chunk size,
number of retries and faults):

* `TypeCorrect` (`TypeOK`) and `CancelStops` (`StopsAfterOneBatch`); and for one call of
  `addToCampaignQueue` (`OneCall`, a hypothesis without which they are false) `NoneIsLost`
  (`NoRecipientLost`), `CompletionIsEarned` (`CompletedMeansHandled`) and `QueueImplementsDelivery`
  (`DeliverySpec`).
* The invariant is `Types /\ Payloads /\ Picked /\ Mailing /\ InQueue /\ NoRecipientLost /\
  CompletedMeansHandled`. `Payloads` says that a key which has been written holds its batch of the call or
  nothing, `Picked` that a worker has in hand the batch of its key, `Mailing` that whoever is before a
  worker's position has an event, was passed over or has a task in the chunk; with the three, the delete of a
  key loses nobody. `InQueue`: whoever is in a key, in a worker's hands or in a task was queued. `Types` adds
  to `TypeOK` what each place of a worker says of its local variables.

`SumFacts` (any function and finite set): `Total(f, S)` is `SumFunctionOnSet(f, S)`, the fold that
`BatchQueue` and `MailEvents` count with. The community modules define it by a recursive function on the
subsets of `S` that takes out a chosen element; `SumsExist` shows that there is one such function for
each `S` and `SumsUnique` that no other differs from it. From there on sums are numbers and let any element be
taken out (`SumRemove`), equal what equal functions sum to (`SumSame`), move with one value (`SumChange`),
compare (`SumAtMost`), count (`SumOnes`), and go by parts and by rows (`SumSplit`, `SumRows`). Induction
over a finite set is done once, in `FiniteInduction`: it is stated for a set of subsets instead of an
operator, and follows from the well-foundedness of the strict inclusion (`FS_StrictSubsetOrderingWellFounded`).

`BatchQueueOnceProofs` (the same values and `Unique`: a call names nobody twice; otherwise he may be mailed
in two chunks, of one worker and without a fault):

* `OneMailPerDelivery` (`AtMostOneMailPerDelivery`), for any number of calls, faults and workers, two at
  one batch among them; `WorkersAssumption` says there are finitely many. The invariant `Budgets` is an
  account for each recipient: the mails that SES accepted, the tasks that have yet to send him one
  (`To`) and the workers that have him before them in the batch they hold (`Before`) are together at most
  the deliveries begun of his batches. The next chunk takes a worker from `Before` and starts one task at most
  (`ChunkIsSpent`), since in a batch he has one place (`Held`, from `Contents`: a key holds a batch of one of
  the calls); an accepted mail ends its task; a crash, a refusal or a retry only gives up what was due; and
  what a new delivery adds was counted as it began (`BudgetGetBatch`).
* For one call, `DuplicatesAreExplained` (`DuplicatesHaveCause`), from `IInv` above and `ClearInv`: as long
  as nothing has failed and no two workers were at a batch (`Clear`), no catch block is under way (`Calm`),
  each batch has one worker at most and its key while it has (`Alone`), and whoever was mailed, or is being mailed, was
  passed by the position of the worker of his batch, or his batch is gone (`Once`). A recipient has one
  place in the batches (`OnePlace`), a worker looks up only places it has not passed (`ChunkIsNew`), and
  no step makes a passed place one that is not (`BegunStays`).

`CampaignLifecycleProofs` (every set of requests, crons and workers, every number of batches and faults; of
`CampaignAssumption` only the ranges are used): all safety properties of the `campaign` run.

* `TypeCorrect` (`TypeOK`), `SentIsParked` (`SentAtMeansParked`), `AnnouncedOnce`
  (`AnnouncedTwiceHasCause`), `CopyAgrees` (`StaleCopyHasCause`).
* `Parking` says how far each start has come: as long as nobody edited under it, what it counted is what
  there is, and what is before its position is parked. `Announces`: while nothing befell the campaign
  (`Clear`), one request at most is between finding a DRAFT and the message, none has sent it, and once it
  is sent the campaign is a DRAFT only as long as its sender still has to write SENDING. `Copies`: unless the
  last write skipped Redis or met another's copy, whoever still has to copy will copy the status of the row.

`MailEventsProofs` (finite sets of recipients, of calls and of reports under way, every `MAX_RETRIES`,
every bound): the properties of `MailEvents` that relate calls, rows and counters.

* `TypeCorrect` (`TypeOK`), `FailuresAreRetried` (`FailureRetried`), `RetriesAreWithinAllowance`
  (`RetriesWithinAllowance`), `ReportsAreKept` (`ReportsKept`).
* The invariants count the calls at a point of a recipient's event; a step changes one call, and so each
  count by one at most (`NumMoves`, from `FiniteSetTheorems`). `Answered`: until a call fails, counter and copies
  of it are at most what was sent, so a call that gives up because of the counter is right to, and below
  the allowance every row of a failure has its message or a call that will send it. `Single` and `Alone`:
  while no two failures of a recipient overlapped, the counter is at least what was sent; `OneMail`: they
  cannot overlap unless an event was handed over twice, since the consumer has one mail of a recipient
  at a time. `Kept`: rows, calls and messages of a recipient's reports weigh two per report of a known type on a
  mail that had its row; a call that took such a report finds the row, for rows stay.
* `EarlyCompletionNeedsARetry` (`EarlyCompletionHasCause`) and `FullCountIsSeen` (`FullCountCompletes`). The
  code counts rows, not recipients. `Enough` says that a call which has found the count complete, and a
  campaign that is COMPLETED, have as many counted rows as there are recipients or more;
  rows are never deleted, so this lasts, and a count that reaches the number of recipients gave each of
  them one or one of them two (`Pigeonhole`, with the rows of the table summed by recipient,
  `CountByRecipient`). `Ending` looks the other way: as long as nothing failed, once the rows are as many as
  the recipients the status and its copy are COMPLETED, or a call is under way past the row it had to
  write, or a sender wrote a row since the last check. The last of these calls finds the count as it is, so it completes
  the campaign, and it copies the status only after writing it (`CopyAfter`).

`AudienceProofs` (every set of recipients, requests and jobs, every `MaxFaults`): all
safety properties of `Audience`.

* `TypeCorrect`, `GroupRemoval` (`EmptiedGroupHasCause`), `CreationWithoutLinks` (`CreationNeverLinks`),
  `UpdatesEnd` (`UpdateOutcome`), `UpdatesLink` (`UpdateLinksAsAsked`), `Accounted` (`CountedMeansSaved`),
  `WholeImports` (`UndisturbedImportIsWhole`), `UnsubscribedKept` (`UnsubscribedStays`).
* `StepCases` reduces a step to the turn of one request, which changes its own record and what it has
  locked; with it each property has an invariant per request (`Removal`, `Creation`, `Updating`,
  `Saving`, `Whole`, `Stale`) that relates where the request is to the tables. `Locks` (one open
  transaction at most has written a row) and `Exclusive` (one update at a time has the campaign's row) are
  what keeps the turns of others from breaking them.

Only model-checked: `InstanceTries`, `QueuePolled`, `CampaignCompletes`, `DueCampaignLeaves`,
`EveryRequestAnswered` (liveness under fairness, and the enabledness it speaks of, are out of the prover's
reach). No module declares a recursive operator.

## 7. Not modelled

* *Analytics*: queries whose result is kept in Redis for five minutes and never invalidated. Nothing is
  decided on them: a model could only repeat that a number may be five minutes old.
* *Authentication and users*: hashes, tokens and two statements over one table. Two first registrations
  may both count no user and both become ADMIN, which is listed as a hazard.
* *Kafka client*: `emit` sends and nothing in the code subscribes; the models keep the messages where
  something depends on them.
* *Controllers, guards, DTOs, configuration*: routing, validation, wiring. The private methods of the webhook
  controller for bounces, complaints and clicks are called by nobody.
* *Rendering, file parsing, the Redis and Prisma clients' connections*: computation and I/O. What the
  models rely on (unique indexes, foreign keys, locks, timeouts, `SET NX EX`, `KEYS`) is part of them.

## 8. How the parts hang together, and what is left

`QueueLock` answers whether two workers can be at one campaign (they can, after a lost key), which is why
`BatchQueue` is checked and proved with several. `CampaignLifecycle` says what `CompletedMeansHandled`
is worth: the worker looks where nothing is parked. `MailEvents` begins where `BatchQueue` ends, with
the events of mails that were sent. `Audience` says which recipients a campaign has when
`CampaignLifecycle` counts its batches.

Left for whoever goes on: an abstract lock with a lease that `QueueLock` implements.
