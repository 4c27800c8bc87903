-------------------------- MODULE CampaignLifecycle --------------------------
(***************************************************************************)
(* CampaignService and SchedulerService: the status of one campaign, the   *)
(* copy of it in Redis, and what starting to send leaves behind.           *)
(*                                                                         *)
(* A request, a cron round and a round of the mail queue are processes cut *)
(* at their awaits. What a call reads is kept in the process until it acts *)
(* on it; the row may have changed by then, or be gone.                    *)
(***************************************************************************)
EXTENDS Naturals, FiniteSets

CONSTANTS
  Users,      \* requests of one behaviour, in any order and overlap (a bound)
  Crons,      \* cron rounds that may be under way together (a bound)
  Workers,    \* rounds of processQueue that may be under way together (a bound)
  Targets,    \* statuses a caller may ask updateCampaignStatus for
  MaxBatches, \* batches that the recipients fill (a bound)
  MaxFaults   \* calls that fail in one behaviour (a bound)

Procs == Users \union Crons \union Workers

Statuses == {"DRAFT", "SCHEDULED", "SENDING", "COMPLETED", "CANCELLED", "FAILED"}

ASSUME CampaignAssumption ==
  /\ Targets \subseteq Statuses
  /\ MaxBatches \in Nat
  /\ MaxFaults \in Nat
  /\ \A p \in Procs : Cardinality({S \in {Users, Crons, Workers} : p \in S}) = 1

VARIABLES
  status,      \* campaign.status, or "gone" when the row is deleted
  scheduledAt, \* campaign.scheduledAt against the clock
  sentAt,      \* campaign.sentAt is set
  batches,     \* batches that its recipients fill
  copy,        \* the status in Redis, REDIS_KEYS.CAMPAIGN_STATUS
  keys,        \* batch keys in Redis: prefix and number
  announced,   \* messages sent to KAFKA_TOPICS.MAIL_QUEUE, counted to two
  proc,        \* per process: what it awaits and what it read
  overlapped,  \* history: two sends were past the check for DRAFT together
  reopened,    \* history: the campaign went back to DRAFT
  bypassed,    \* history: the last write of status was one without a copy
  crossed,     \* history: the last write of status met a copy still to come
  edited,      \* history: the recipients changed after a start had read them
  faults

vars == <<status, scheduledAt, sentAt, batches, copy, keys, announced, proc,
          overlapped, reopened, bypassed, crossed, edited, faults>>

row == <<status, scheduledAt, sentAt>>
history == <<overlapped, reopened, bypassed, crossed, edited>>

-----------------------------------------------------------------------------
\* validStatusTransitions. SENT is no key of the table: nothing sets it.
Allowed(from) ==
  CASE from = "DRAFT"     -> {"SCHEDULED", "SENDING", "CANCELLED"}
    [] from = "SCHEDULED" -> {"SENDING", "CANCELLED"}
    [] from = "SENDING"   -> {"COMPLETED", "FAILED"}
    [] from = "COMPLETED" -> {}
    [] from = "CANCELLED" -> {"DRAFT"}
    [] from = "FAILED"    -> {"DRAFT"}

\* Where startSendingCampaign puts the batches, and where processCampaign looks.
ParkPrefix == "bulk-mail.mail.send"
QueuePrefix == "bulk-mail:queue:mail:send"

\* The date goes by.
Later(date) == CASE date = "later" -> "due" [] date = "due" -> "old"
                 [] OTHER -> date

Idle == [at |-> "idle", target |-> "DRAFT", date |-> "none", next |-> 0, last |-> 0]
Done == [Idle EXCEPT !.at = "done"]

Steps == {"idle", "done", "read", "write", "copy", "load", "empty", "park", "stamp",
          "announce", "delete", "enqueue", "enqueueCopy", "keys", "complete"}

\* A process that wrote the status and has yet to copy it to Redis.
CopyDue(p) == proc[p].at \in {"copy", "enqueueCopy"}
\* A start between reading the recipients and noting that they were sent to.
Starting(p) == proc[p].at \in {"empty", "park", "stamp"}
\* A send between its check for DRAFT and its write of SENDING.
Sending(p) == \/ proc[p].at = "announce"
              \/ p \in Users /\ proc[p].at \in {"read", "write"}
                 /\ proc[p].target = "SENDING"

TypeOK ==
  /\ status \in Statuses \union {"gone"}
  /\ scheduledAt \in {"none", "later", "due", "old"}
  /\ sentAt \in BOOLEAN
  /\ batches \in 0 .. MaxBatches
  /\ copy \in Statuses
  /\ keys \subseteq {ParkPrefix, QueuePrefix} \X (1 .. MaxBatches)
  /\ announced \in 0 .. 2
  /\ proc \in [Procs -> [at : Steps, target : Statuses,
                         date : {"none", "later", "due", "old"},
                         next : 0 .. MaxBatches + 1, last : 0 .. MaxBatches]]
  /\ history \in BOOLEAN \X BOOLEAN \X BOOLEAN \X BOOLEAN \X BOOLEAN
  /\ faults \in 0 .. MaxFaults

\* createCampaign has committed: a DRAFT, with its copy.
Init ==
  /\ status = "DRAFT"
  /\ scheduledAt \in {"none", "later"}
  /\ sentAt = FALSE
  /\ batches \in 0 .. MaxBatches
  /\ copy = "DRAFT"
  /\ keys = {}
  /\ announced = 0
  /\ proc = [p \in Procs |-> Idle]
  /\ overlapped = FALSE /\ reopened = FALSE /\ bypassed = FALSE /\ crossed = FALSE
  /\ edited = FALSE
  /\ faults = 0

Goes(p, at) == proc' = [proc EXCEPT ![p].at = at]
\* A request is over; a cron and the timer of the queue come round again.
Ends(p) == proc' = [proc EXCEPT ![p] = IF p \in Users THEN Done ELSE Idle]
Exists == status # "gone"

\* A write of status by a process that copies it to Redis afterwards.
WritesStatus(p, new) ==
  /\ status' = new
  /\ reopened' = (reopened \/ (new = "DRAFT" /\ status # "DRAFT"))
  /\ bypassed' = FALSE
  /\ crossed' = \E q \in Procs \ {p} : CopyDue(q)
  /\ UNCHANGED <<overlapped, edited>>

\* A write of status that no copy follows.
BypassesCopy(new) ==
  /\ status' = new
  /\ reopened' = (reopened \/ (new = "DRAFT" /\ status # "DRAFT"))
  /\ bypassed' = (bypassed \/ status # new)
  /\ UNCHANGED <<overlapped, crossed, edited>>

-----------------------------------------------------------------------------
(* updateCampaignStatus                                                    *)

\* A caller asks for a status, for SCHEDULED with a date or without.
UpdateCampaignStatus(p, target, date) ==
  /\ p \in Users /\ proc[p].at = "idle"
  /\ date = "later" => target = "SCHEDULED"
  /\ proc' = [proc EXCEPT ![p] = [Idle EXCEPT !.at = "read", !.target = target,
                                              !.date = date]]
  /\ UNCHANGED <<row, batches, copy, keys, announced, history, faults>>

\* findCampaign and validateStatusChange.
ReadStatus(p) ==
  /\ proc[p].at = "read" /\ Exists
  /\ IF proc[p].target \in Allowed(status)
     THEN proc' = [proc EXCEPT
            ![p].at = "write",
            ![p].date = IF @ = "none" THEN scheduledAt ELSE @]
     ELSE Ends(p)
  /\ UNCHANGED <<row, batches, copy, keys, announced, history, faults>>

\* The status is written whatever it is by now, the date as it was read.
WriteStatus(p) ==
  /\ proc[p].at = "write" /\ Exists
  /\ WritesStatus(p, proc[p].target)
  /\ scheduledAt' = proc[p].date
  /\ proc' = [proc EXCEPT ![p].at = "copy", ![p].date = "none"]
  /\ UNCHANGED <<sentAt, batches, copy, keys, announced, faults>>

CopyStatus(p) ==
  /\ proc[p].at = "copy"
  /\ copy' = proc[p].target
  /\ IF proc[p].target = "SENDING" THEN Goes(p, "load") ELSE Ends(p)
  /\ UNCHANGED <<row, batches, keys, announced, history, faults>>

-----------------------------------------------------------------------------
(* startSendingCampaign                                                    *)

LoadRecipients(p) ==
  /\ proc[p].at = "load"
  /\ proc' = [proc EXCEPT ![p].next = 1, ![p].last = batches,
                          ![p].at = IF batches = 0 THEN "empty" ELSE "park"]
  /\ UNCHANGED <<row, batches, copy, keys, announced, history, faults>>

\* No recipient: COMPLETED in the database alone.
CompleteEmpty(p) ==
  /\ proc[p].at = "empty" /\ Exists
  /\ BypassesCopy("COMPLETED")
  /\ sentAt' = TRUE
  /\ Ends(p)
  /\ UNCHANGED <<scheduledAt, batches, copy, keys, announced, faults>>

\* Mutant: parks one batch too many.
ParkBatchPast(p) ==
  LET n == proc[p].next IN
  /\ proc[p].at = "park"
  /\ keys' = keys \union {<<ParkPrefix, n>>}
  /\ proc' = [proc EXCEPT ![p].next = n + 1,
                          ![p].at = IF n <= proc[p].last THEN "park" ELSE "stamp"]
  /\ UNCHANGED <<row, batches, copy, announced, history, faults>>

\* Mutant: stops one batch short.
ParkBatchShort(p) ==
  LET n == proc[p].next IN
  /\ proc[p].at = "park"
  /\ keys' = keys \union {<<ParkPrefix, n>>}
  /\ proc' = [proc EXCEPT ![p].next = n + 1,
                          ![p].at = IF n + 1 < proc[p].last THEN "park" ELSE "stamp"]
  /\ UNCHANGED <<row, batches, copy, announced, history, faults>>

ParkBatch(p) ==
  LET n == proc[p].next IN
  /\ proc[p].at = "park"
  /\ keys' = keys \union {<<ParkPrefix, n>>}
  /\ proc' = [proc EXCEPT ![p].next = n + 1,
                          ![p].at = IF n < proc[p].last THEN "park" ELSE "stamp"]
  /\ UNCHANGED <<row, batches, copy, announced, history, faults>>

StampSentAt(p) ==
  /\ proc[p].at = "stamp" /\ Exists
  /\ sentAt' = TRUE
  /\ Ends(p)
  /\ UNCHANGED <<status, scheduledAt, batches, copy, keys, announced, history, faults>>

-----------------------------------------------------------------------------
(* send, cancel, remove, enqueueCampaign                                   *)

\* Mutant: without the check for DRAFT.
SendAgain(p) ==
  /\ p \in Users /\ proc[p].at = "idle" /\ Exists
  /\ Goes(p, "announce")
  /\ overlapped' = (overlapped \/ \E q \in Users \ {p} : Sending(q))
  /\ UNCHANGED <<row, batches, copy, keys, announced, reopened, bypassed, crossed, edited, faults>>

\* findOne and the check for DRAFT.
Send(p) ==
  /\ p \in Users /\ proc[p].at = "idle"
  /\ status = "DRAFT"
  /\ Goes(p, "announce")
  /\ overlapped' = (overlapped \/ \E q \in Users \ {p} : Sending(q))
  /\ UNCHANGED <<row, batches, copy, keys, announced, reopened, bypassed, crossed, edited, faults>>

\* The message goes out before the status is looked at again.
Announce(p) ==
  /\ proc[p].at = "announce"
  /\ announced' = IF announced = 2 THEN 2 ELSE announced + 1
  /\ proc' = [proc EXCEPT ![p].at = "read", ![p].target = "SENDING"]
  /\ UNCHANGED <<row, batches, copy, keys, history, faults>>

\* Any campaign goes back to DRAFT, a sent one too, in one call to the database:
\* it takes none of Users, and may come any number of times.
Cancel ==
  /\ Exists
  /\ BypassesCopy("DRAFT")
  /\ scheduledAt' = "none"
  /\ UNCHANGED <<sentAt, batches, copy, keys, announced, proc, faults>>

\* update: other recipients, another date or none; only SENT is turned away. Its
\* transaction is one step here.
Edit(p, n, date) ==
  /\ p \in Users /\ proc[p].at = "idle" /\ Exists
  /\ n # batches \/ date # "none"
  /\ batches' = n
  /\ scheduledAt' = IF date = "none" THEN scheduledAt ELSE date
  /\ edited' = \/ edited
               \/ n # batches /\ (sentAt \/ \E q \in Procs : Starting(q))
  /\ Ends(p)
  /\ UNCHANGED <<status, sentAt, copy, keys, announced,
                 overlapped, reopened, bypassed, crossed, faults>>

Remove(p) ==
  /\ p \in Users /\ proc[p].at = "idle" /\ Exists
  /\ Goes(p, "delete")
  /\ UNCHANGED <<row, batches, copy, keys, announced, history, faults>>

\* The links to the recipients go with the row.
Delete(p) ==
  /\ proc[p].at = "delete" /\ Exists
  /\ status' = "gone" /\ scheduledAt' = "none" /\ sentAt' = FALSE /\ batches' = 0
  /\ Ends(p)
  /\ UNCHANGED <<copy, keys, announced, history, faults>>

\* A foreign key refuses: the campaign has mailEvent rows.
DeleteRefused(p) ==
  /\ proc[p].at = "delete" /\ Exists
  /\ Ends(p)
  /\ UNCHANGED <<row, batches, copy, keys, announced, history, faults>>

\* Only SENT is turned away, and no campaign is SENT.
EnqueueCampaign(p) ==
  /\ p \in Users /\ proc[p].at = "idle" /\ Exists
  /\ Goes(p, "enqueue")
  /\ UNCHANGED <<row, batches, copy, keys, announced, history, faults>>

\* SENDING is written, then a Kafka message emitted for each batch.
EnqueueWrite(p) ==
  /\ proc[p].at = "enqueue" /\ Exists
  /\ WritesStatus(p, "SENDING")
  /\ Goes(p, "enqueueCopy")
  /\ UNCHANGED <<scheduledAt, sentAt, batches, copy, keys, announced, faults>>

\* Mutant: the copy is forgotten.
EnqueueNoCopy(p) ==
  /\ proc[p].at = "enqueueCopy"
  /\ Ends(p)
  /\ UNCHANGED <<row, batches, copy, keys, announced, history, faults>>

EnqueueCopy(p) ==
  /\ proc[p].at = "enqueueCopy"
  /\ copy' = "SENDING"
  /\ Ends(p)
  /\ UNCHANGED <<row, batches, keys, announced, history, faults>>

-----------------------------------------------------------------------------
(* SchedulerService                                                        *)

Scheduled(p, dates, target) ==
  /\ p \in Crons /\ proc[p].at = "idle"
  /\ status = "SCHEDULED" /\ scheduledAt \in dates
  /\ proc' = [proc EXCEPT ![p] = [Idle EXCEPT !.at = "read", !.target = target]]
  /\ UNCHANGED <<row, batches, copy, keys, announced, history, faults>>

\* Mutant: the date has to be met, and is not made up for.
HandleJustDue(p) == Scheduled(p, {"due"}, "SENDING")

HandleScheduled(p) == Scheduled(p, {"due", "old"}, "SENDING")
CleanupOld(p) == Scheduled(p, {"old"}, "CANCELLED")

-----------------------------------------------------------------------------
(* MailQueueService.processCampaign, as far as it ends a campaign          *)

ProcessCampaign(p) ==
  /\ p \in Workers /\ proc[p].at = "idle"
  /\ status = "SENDING"
  /\ Goes(p, "keys")
  /\ UNCHANGED <<row, batches, copy, keys, announced, history, faults>>

\* What is done with a batch that is found: module BatchQueue.
FindBatch(p) ==
  /\ proc[p].at = "keys"
  /\ IF \E k \in keys : k[1] = QueuePrefix THEN Ends(p) ELSE Goes(p, "complete")
  /\ UNCHANGED <<row, batches, copy, keys, announced, history, faults>>

CompleteCampaign(p) ==
  /\ proc[p].at = "complete" /\ Exists
  /\ BypassesCopy("COMPLETED")
  /\ Ends(p)
  /\ UNCHANGED <<scheduledAt, sentAt, batches, copy, keys, announced, faults>>

-----------------------------------------------------------------------------
\* update, delete and findUnique throw once the row is gone.
RowGone(p) ==
  /\ ~Exists
  /\ proc[p].at \in {"read", "write", "empty", "stamp", "delete", "enqueue", "complete"}
  /\ Ends(p)
  /\ UNCHANGED <<row, batches, copy, keys, announced, history, faults>>

\* A call fails, or the process dies before it.
CallFails(p) ==
  /\ proc[p].at \notin {"idle", "done"}
  /\ faults < MaxFaults /\ faults' = faults + 1
  /\ Ends(p)
  /\ UNCHANGED <<row, batches, copy, keys, announced, history>>

TimePasses ==
  /\ scheduledAt \in {"later", "due"} \/ \E p \in Procs : proc[p].date \in {"later", "due"}
  /\ scheduledAt' = Later(scheduledAt)
  /\ proc' = [p \in Procs |-> [proc[p] EXCEPT !.date = Later(@)]]
  /\ UNCHANGED <<status, sentAt, batches, copy, keys, announced, history, faults>>

Request(p) ==
  \/ \E target \in Targets, date \in {"none", "later"} :
       UpdateCampaignStatus(p, target, date)
  \/ \E n \in 0 .. MaxBatches, date \in {"none", "later"} : Edit(p, n, date)
  \/ Send(p) \/ Remove(p) \/ EnqueueCampaign(p)

\* A process goes on with what it has begun.
Continue(p) ==
  \/ ReadStatus(p) \/ WriteStatus(p) \/ CopyStatus(p)
  \/ LoadRecipients(p) \/ CompleteEmpty(p) \/ ParkBatch(p) \/ StampSentAt(p)
  \/ Announce(p) \/ Delete(p) \/ DeleteRefused(p) \/ EnqueueWrite(p) \/ EnqueueCopy(p)
  \/ FindBatch(p) \/ CompleteCampaign(p) \/ RowGone(p)

Next ==
  \/ \E p \in Procs : \/ Request(p) \/ HandleScheduled(p) \/ CleanupOld(p)
                      \/ ProcessCampaign(p) \/ Continue(p) \/ CallFails(p)
  \/ Cancel
  \/ TimePasses

Spec == Init /\ [][Next]_vars

\* Calls are answered; the crons and the timer of the queue fire.
Fairness ==
  /\ \A p \in Procs : WF_vars(Continue(p))
  /\ WF_vars(\E p \in Crons : HandleScheduled(p))
  /\ \A p \in Workers : WF_vars(ProcessCampaign(p))

FairSpec == Spec /\ Fairness

-----------------------------------------------------------------------------
(* Properties                                                              *)

\* A campaign that says when it was sent has every batch of its recipients in
\* Redis, whoever else started, cancelled or restarted it, as long as nobody
\* changed the recipients after a start had read them. (237-263, 468-513)
SentAtMeansParked ==
  sentAt /\ ~edited => \A n \in 1 .. batches : <<ParkPrefix, n>> \in keys

\* MAIL_QUEUE hears of a campaign twice only if two sends overlapped, one
\* failed on the way, or the campaign went back to DRAFT in between. (544-563)
AnnouncedTwiceHasCause ==
  announced = 2 => overlapped \/ reopened \/ faults > 0

\* With no copy due, Redis has the status of the row, unless the last write of
\* status was one that skips Redis, met another writer's copy, or a call
\* failed. (154-166, 338-365)
StaleCopyHasCause ==
  Exists /\ (\A p \in Procs : ~CopyDue(p)) /\ copy # status
    => bypassed \/ crossed \/ faults > 0

\* A scheduled campaign whose time has come does not stay SCHEDULED: a round
\* whose calls fail, or that another request crosses, is made up for by a later
\* one. (scheduler.service.ts 19-50)
DueCampaignLeaves ==
  status = "SCHEDULED" /\ scheduledAt \in {"due", "old"}
    ~> status # "SCHEDULED" \/ scheduledAt \in {"none", "later"}

\* The worker finds that nothing of a campaign is left to send, and goes on to
\* complete it, only when all its batches have been processed (comment of line
\* 137 of mail-queue.service.ts): Redis then holds none.
CompletedMeansSent ==
  [][\A p \in Workers : proc[p].at = "keys" /\ proc'[p].at = "complete"
                        => keys = {}]_vars
=============================================================================
