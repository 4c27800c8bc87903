----------------------------- MODULE MailEvents -----------------------------
(***************************************************************************)
(* The events of the mails of one campaign: the rows that MailService,      *)
(* processBatchChunk and MailQueueService.handleMailEvent write of a mail,  *)
(* the retries of the failed ones, the end of the campaign that is told     *)
(* from the number of rows; and WebhookService, which turns a report of SES *)
(* on a mail into such an event.                                            *)
(*                                                                          *)
(* A mail is sent by a task of processBatchChunk or by the consumer of      *)
(* MAIL_SEND, both by way of MailService. The consumer, and who calls       *)
(* handleMailEvent, are not in the code: here each mail of the consumer     *)
(* ends in one event, each message to MAIL_EVENT is an event, and an event  *)
(* may be handed over twice, as a Kafka consumer does after a restart.      *)
(*                                                                          *)
(* A handler is a call of handleMailEvent, a hook one of handleSESEvent,    *)
(* both cut at their awaits; several are under way at once.                 *)
(***************************************************************************)
EXTENDS Naturals, FiniteSets, Functions

CONSTANTS
  Recipients,
  Batched,       \* those whose mails are in a batch of the queue; the mails of
                 \* the others are in a message to MAIL_SEND
  Handlers,      \* calls of handleMailEvent that may overlap (a bound)
  Hooks,         \* calls of handleSESEvent that may overlap (a bound)
  MAX_RETRIES,   \* MAIL_MAX_RETRIES, 3
  MaxReports,    \* reports of SES in one behaviour (a bound)
  MaxMishaps     \* calls that fail and events handed over twice, together, in one
                 \* behaviour (a bound)

ASSUME EventsAssumption ==
  /\ IsFiniteSet(Recipients) /\ Recipients # {} /\ Batched \subseteq Recipients
  /\ IsFiniteSet(Handlers) /\ IsFiniteSet(Hooks)
  /\ MAX_RETRIES \in Nat
  /\ MaxReports \in Nat
  /\ MaxMishaps \in Nat

\* The events that end a mail, and those handed to handleMailEvent at all:
\* DELIVERED stands for the five types that a report is mapped to.
Outcomes == {"SENT", "FAILED", "REJECTED"}
Types == Outcomes \union {"DELIVERED"}
\* Rows of the type SENT or FAILED that others write: MailService's, with the
\* message id, and the two of processBatchChunk, without.
Sending == {"mailSent", "taskSent", "taskFailed"}
\* The rows that checkCampaignCompletion counts.
Counted == Outcomes \union Sending
Kinds == Types \union Sending

\* What a mail awaits: SES; MailService's row; its sender, told of success or of
\* failure; a task's second row. A mail that SES accepted and that has no row
\* with its message id is mute.
Stages == {"due", "accepted", "sent", "unsent", "unwritten", "mute"}
Mails == Recipients \X {"batch", "topic"} \X Stages

VARIABLES
  rows,       \* mailEvent: rows per recipient and kind
  mail,       \* mails per recipient, sender and stage
  retry,      \* the key MAIL_RETRY of each recipient, 0 when absent
  status,     \* campaign.status
  copy,       \* the status in Redis
  handler,    \* per call: what it awaits, its event, the counter it read
  hook,       \* per report: what its call awaits, whose mail it is about, whether
              \* that mail had its row, whether its type is one of the five
  topic,      \* messages in MAIL_EVENT, per recipient
  reports,    \* history: reports of the five types on mails that had their row
  early,      \* history: those on mails that had not
  emitted,    \* history: messages to MAIL_SEND, per recipient
  overlapped, \* history: two failures of one recipient were handled at once
  unchecked,  \* history: a sender wrote a row since the last check
  duplicates,
  faults

vars == <<rows, mail, retry, status, copy, handler, hook, topic, reports, early,
          emitted, overlapped, unchecked, duplicates, faults>>

campaign == <<status, copy>>
bounds == <<duplicates, faults>>
webhook == <<hook, topic, reports, early>>
calls == <<retry, campaign, handler, emitted, overlapped>>

Idle == [at |-> "idle", r |-> CHOOSE r \in Recipients : TRUE, type |-> "SENT",
         n |-> 0]
NoReport == [at |-> "idle", r |-> Idle.r, logged |-> TRUE, known |-> TRUE]

\* The retries a recipient gets: one at least, since an absent counter is not
\* compared.
Allowance == IF MAX_RETRIES = 0 THEN 1 ELSE MAX_RETRIES

TypeOK ==
  /\ rows \in [Recipients \X Kinds -> Nat]
  /\ mail \in [Mails -> Nat]
  /\ retry \in [Recipients -> 0 .. Allowance]
  /\ status \in {"SENDING", "COMPLETED"} /\ copy \in {"SENDING", "COMPLETED"}
  /\ handler \in [Handlers -> [at : {"idle", "create", "retryGet", "retrySet", "emit",
                                     "check", "complete", "copy"},
                               r : Recipients, type : Types, n : 0 .. Allowance]]
  /\ hook \in [Hooks -> [at : {"idle", "find", "create", "emit"},
                         r : Recipients, logged : BOOLEAN, known : BOOLEAN]]
  /\ {topic, reports, early, emitted} \subseteq [Recipients -> Nat]
  /\ overlapped \in BOOLEAN /\ unchecked \in BOOLEAN
  /\ {duplicates, faults} \subseteq Nat /\ duplicates + faults <= MaxMishaps

\* The campaign is SENDING and every recipient has a mail to be sent.
Init ==
  /\ rows = [e \in Recipients \X Kinds |-> 0]
  /\ mail = [m \in Mails |->
       IF /\ m[2] = IF m[1] \in Batched THEN "batch" ELSE "topic"
          /\ m[3] = "due" THEN 1 ELSE 0]
  /\ retry = [r \in Recipients |-> 0]
  /\ status = "SENDING" /\ copy = "SENDING"
  /\ handler = [h \in Handlers |-> Idle]
  /\ hook = [k \in Hooks |-> NoReport]
  /\ topic = [r \in Recipients |-> 0]
  /\ reports = topic /\ early = topic /\ emitted = topic
  /\ overlapped = FALSE /\ unchecked = FALSE
  /\ duplicates = 0 /\ faults = 0

MishapLeft == duplicates + faults < MaxMishaps
Fault == MishapLeft /\ faults' = faults + 1

Moves(h, at) == handler' = [handler EXCEPT ![h].at = at]
Ends(h) == handler' = [handler EXCEPT ![h] = Idle]
\* checkCampaignCompletion needs nothing of the event.
Checks(h) == handler' = [handler EXCEPT ![h] = [Idle EXCEPT !.at = "check"]]

\* A failure of r that is on its way to the counter.
Failing(h, r) ==
  /\ handler[h].r = r /\ handler[h].type = "FAILED"
  /\ handler[h].at \in {"create", "retryGet", "retrySet"}

CountOf(e) == SumFunctionOnSet(rows, e)

AddsRow(r, kind) == rows' = [rows EXCEPT ![<<r, kind>>] = @ + 1]

\* A row that is counted, and no check after it.
SenderAddsRow(r, kind) == AddsRow(r, kind) /\ unchecked' = TRUE

\* A mail goes from one stage to the next, or is over.
MailMoves(r, by, from, to) ==
  /\ mail[<<r, by, from>>] > 0
  /\ mail' = [mail EXCEPT ![<<r, by, from>>] = @ - 1, ![<<r, by, to>>] = @ + 1]
MailOver(r, by, from) ==
  /\ mail[<<r, by, from>>] > 0
  /\ mail' = [mail EXCEPT ![<<r, by, from>>] = @ - 1]

Takes(h, r, type) ==
  /\ handler[h].at = "idle"
  /\ handler' = [handler EXCEPT ![h] =
       [at |-> "create", r |-> r, type |-> type, n |-> 0]]
  /\ overlapped' = \/ overlapped
                   \/ type = "FAILED" /\ \E g \in Handlers : Failing(g, r)

-----------------------------------------------------------------------------
(* MailService.sendEmail, for either sender                                *)

SESAccepts(r, by) ==
  /\ MailMoves(r, by, "due", "accepted")
  /\ UNCHANGED <<rows, calls, webhook, unchecked, bounds>>

\* SES, the template or the token fails: the sender is told, nothing is written.
SendFails(r, by) ==
  /\ MailMoves(r, by, "due", "unsent")
  /\ UNCHANGED <<rows, calls, webhook, unchecked, bounds>>

LogMail(r, by) ==
  /\ MailMoves(r, by, "accepted", "sent")
  /\ SenderAddsRow(r, "mailSent")
  /\ UNCHANGED <<calls, webhook, bounds>>

\* The catch tells the sender that the mail failed which SES accepted.
LogMailFails(r, by) ==
  /\ Fault
  /\ mail[<<r, by, "accepted">>] > 0
  /\ mail' = [mail EXCEPT ![<<r, by, "accepted">>] = @ - 1,
                         ![<<r, by, "unsent">>] = @ + 1, ![<<r, by, "mute">>] = @ + 1]
  /\ UNCHANGED <<rows, calls, webhook, unchecked, duplicates>>

-----------------------------------------------------------------------------
(* A task of processBatchChunk                                             *)

\* Whatever MailService said, the task notes the mail as sent.
LogTask(r) ==
  /\ \E end \in {"sent", "unsent"} : MailOver(r, "batch", end)
  /\ SenderAddsRow(r, "taskSent")
  /\ UNCHANGED <<calls, webhook, bounds>>

LogTaskFails(r) ==
  /\ Fault
  /\ \E end \in {"sent", "unsent"} : MailMoves(r, "batch", end, "unwritten")
  /\ UNCHANGED <<rows, calls, webhook, unchecked, duplicates>>

\* The catch notes it as failed.
LogTaskFailed(r) ==
  /\ MailOver(r, "batch", "unwritten")
  /\ SenderAddsRow(r, "taskFailed")
  /\ UNCHANGED <<calls, webhook, bounds>>

\* What failed the first row fails the second as well, and the task rejects.
TaskRejects(r) ==
  /\ MailOver(r, "batch", "unwritten")
  /\ UNCHANGED <<rows, calls, webhook, unchecked, bounds>>

\* After a task that rejected, or a crash, the batch is sent once more.
BatchRepeats ==
  /\ Batched # {}
  /\ Fault
  /\ mail' = [m \in Mails |->
       IF m[1] \in Batched /\ m[2] = "batch" /\ m[3] = "due" THEN mail[m] + 1 ELSE mail[m]]
  /\ UNCHANGED <<rows, calls, webhook, unchecked, duplicates>>

-----------------------------------------------------------------------------
(* The callers of handleMailEvent                                          *)

\* The consumer of MAIL_SEND hands over how its mail ended.
MailEnds(h, r, type) ==
  /\ MailOver(r, "topic", IF type = "SENT" THEN "sent" ELSE "unsent")
  /\ Takes(h, r, type)
  /\ UNCHANGED <<rows, retry, campaign, emitted, webhook, unchecked, bounds>>

\* A message is taken from MAIL_EVENT.
Delivered(h, r) ==
  /\ topic[r] > 0
  /\ Takes(h, r, "DELIVERED")
  /\ topic' = [topic EXCEPT ![r] = @ - 1]
  /\ UNCHANGED <<rows, mail, retry, campaign, emitted, hook, reports, early, unchecked,
                 bounds>>

\* An event is handed over once more.
Redelivered(h, r, type) ==
  /\ rows[<<r, type>>] > 0
  /\ MishapLeft /\ duplicates' = duplicates + 1
  /\ Takes(h, r, type)
  /\ UNCHANGED <<rows, mail, retry, campaign, emitted, webhook, unchecked, faults>>

-----------------------------------------------------------------------------
(* handleMailEvent                                                         *)

CreateRow(h) ==
  /\ handler[h].at = "create"
  /\ AddsRow(handler[h].r, handler[h].type)
  /\ IF handler[h].type = "FAILED" THEN Moves(h, "retryGet") ELSE Checks(h)
  /\ UNCHANGED <<mail, retry, campaign, emitted, overlapped, unchecked, webhook, bounds>>

\* Mutant: one retry more.
ReadRetryMore(h) ==
  LET n == retry[handler[h].r] IN
  /\ handler[h].at = "retryGet"
  /\ IF n <= MAX_RETRIES
     THEN handler' = [handler EXCEPT ![h].n = n, ![h].at = "retrySet"]
     ELSE Checks(h)
  /\ UNCHANGED <<rows, retry, campaign, mail, emitted, overlapped, unchecked, webhook, bounds>>

\* handleFailedMail: the counter is read, written back and only then is the
\* mail sent again.
ReadRetry(h) ==
  LET n == retry[handler[h].r] IN
  /\ handler[h].at = "retryGet"
  /\ IF n = 0 \/ n < MAX_RETRIES
     THEN handler' = [handler EXCEPT ![h].n = n, ![h].at = "retrySet"]
     ELSE Checks(h)
  /\ UNCHANGED <<rows, retry, campaign, mail, emitted, overlapped, unchecked, webhook, bounds>>

\* Mutant: the counter is set and nothing sent.
SetRetryOnly(h) ==
  /\ handler[h].at = "retrySet"
  /\ retry' = [retry EXCEPT ![handler[h].r] = handler[h].n + 1]
  /\ Checks(h)
  /\ UNCHANGED <<rows, campaign, mail, emitted, overlapped, unchecked, webhook, bounds>>

\* Mutant: the counter starts again.
SetRetryOne(h) ==
  /\ handler[h].at = "retrySet"
  /\ retry' = [retry EXCEPT ![handler[h].r] = 1]
  /\ Moves(h, "emit")
  /\ UNCHANGED <<rows, campaign, mail, emitted, overlapped, unchecked, webhook, bounds>>

SetRetry(h) ==
  /\ handler[h].at = "retrySet"
  /\ retry' = [retry EXCEPT ![handler[h].r] = handler[h].n + 1]
  /\ Moves(h, "emit")
  /\ UNCHANGED <<rows, campaign, mail, emitted, overlapped, unchecked, webhook, bounds>>

EmitRetry(h) ==
  LET r == handler[h].r IN
  /\ handler[h].at = "emit"
  /\ emitted' = [emitted EXCEPT ![r] = @ + 1]
  /\ mail' = [mail EXCEPT ![<<r, "topic", "due">>] = @ + 1]
  /\ Checks(h)
  /\ UNCHANGED <<rows, retry, campaign, overlapped, unchecked, webhook, bounds>>

\* Mutant: the event at hand is added to the rows that hold it already.
CheckOneMore(h) ==
  /\ handler[h].at = "check"
  /\ IF CountOf(Recipients \X Counted) + 1 = Cardinality(Recipients)
     THEN Moves(h, "complete") ELSE Ends(h)
  /\ unchecked' = FALSE
  /\ UNCHANGED <<rows, retry, campaign, mail, emitted, overlapped, webhook, bounds>>

\* Mutant: the mails that were refused are forgotten.
CheckSentOrFailed(h) ==
  /\ handler[h].at = "check"
  /\ IF CountOf(Recipients \X (Counted \ {"REJECTED"})) = Cardinality(Recipients)
     THEN Moves(h, "complete") ELSE Ends(h)
  /\ unchecked' = FALSE
  /\ UNCHANGED <<rows, retry, campaign, mail, emitted, overlapped, webhook, bounds>>

\* checkCampaignCompletion: as many rows as recipients, whosever they are.
CheckCampaignCompletion(h) ==
  /\ handler[h].at = "check"
  /\ IF CountOf(Recipients \X Counted) = Cardinality(Recipients)
     THEN Moves(h, "complete") ELSE Ends(h)
  /\ unchecked' = FALSE
  /\ UNCHANGED <<rows, retry, campaign, mail, emitted, overlapped, webhook, bounds>>

Complete(h) ==
  /\ handler[h].at = "complete"
  /\ status' = "COMPLETED"
  /\ Moves(h, "copy")
  /\ UNCHANGED <<rows, retry, copy, mail, emitted, overlapped, unchecked, webhook, bounds>>

CopyStatus(h) ==
  /\ handler[h].at = "copy"
  /\ copy' = "COMPLETED"
  /\ Ends(h)
  /\ UNCHANGED <<rows, retry, status, mail, emitted, overlapped, unchecked, webhook, bounds>>

\* A call fails, or the process dies before it.
CallFails(h) ==
  /\ Fault
  /\ handler[h].at # "idle"
  /\ Ends(h)
  /\ UNCHANGED <<rows, retry, campaign, mail, emitted, overlapped, unchecked, webhook,
                 duplicates>>

-----------------------------------------------------------------------------
(* WebhookService.handleSESEvent                                           *)

\* A mail that SES accepted and that findFirst by its message id does not find.
Unlogged(r) ==
  \E by \in {"batch", "topic"} : mail[<<r, by, "accepted">>] + mail[<<r, by, "mute">>] > 0

\* SES reports on a mail it accepted, which has its row by now or not; the type
\* is one of the five or another.
HandleSESEvent(k, r, logged, known) ==
  /\ hook[k].at = "idle"
  /\ IF logged THEN rows[<<r, "mailSent">>] > 0 ELSE Unlogged(r)
  /\ \/ /\ known
        /\ SumFunctionOnSet(reports, Recipients) + SumFunctionOnSet(early, Recipients)
             < MaxReports
        /\ IF logged THEN reports' = [reports EXCEPT ![r] = @ + 1] /\ UNCHANGED early
                     ELSE early' = [early EXCEPT ![r] = @ + 1] /\ UNCHANGED reports
     \/ ~known /\ UNCHANGED <<reports, early>>
  /\ hook' = [hook EXCEPT ![k] =
       [at |-> "find", r |-> r, logged |-> logged, known |-> known]]
  /\ UNCHANGED <<rows, mail, calls, unchecked, topic, bounds>>

\* Mutant: the mails of a campaign that is COMPLETED are not looked for.
FindSending(k) ==
  LET r == hook[k].r
      ends == hook' = [hook EXCEPT ![k] = NoReport]
  IN
  /\ hook[k].at = "find"
  /\ \/ /\ hook[k].known /\ rows[<<r, "mailSent">>] > 0 /\ status = "SENDING"
        /\ hook' = [hook EXCEPT ![k].at = "create"]
     \/ (~hook[k].known \/ status = "COMPLETED") /\ ends
     \/ ~hook[k].logged /\ Unlogged(r) /\ ends
  /\ UNCHANGED <<rows, mail, calls, unchecked, topic, reports, early, bounds>>

\* The row with the message id is looked for: without it, or when the type is
\* none of the five, the report is dropped.
FindMail(k) ==
  LET r == hook[k].r
      ends == hook' = [hook EXCEPT ![k] = NoReport]
  IN
  /\ hook[k].at = "find"
  /\ \/ /\ hook[k].known /\ rows[<<r, "mailSent">>] > 0
        /\ hook' = [hook EXCEPT ![k].at = "create"]
     \/ ~hook[k].known /\ ends
     \/ ~hook[k].logged /\ Unlogged(r) /\ ends
  /\ UNCHANGED <<rows, mail, calls, unchecked, topic, reports, early, bounds>>

CreateReport(k) ==
  /\ hook[k].at = "create"
  /\ AddsRow(hook[k].r, "DELIVERED")
  /\ hook' = [hook EXCEPT ![k].at = "emit"]
  /\ UNCHANGED <<mail, calls, unchecked, topic, reports, early, bounds>>

EmitReport(k) ==
  /\ hook[k].at = "emit"
  /\ topic' = [topic EXCEPT ![hook[k].r] = @ + 1]
  /\ hook' = [hook EXCEPT ![k] = NoReport]
  /\ UNCHANGED <<rows, mail, calls, unchecked, reports, early, bounds>>

\* SNS hands the report over again, as one more.
HookFails(k) ==
  /\ Fault
  /\ hook[k].at # "idle"
  /\ hook' = [hook EXCEPT ![k] = NoReport]
  /\ UNCHANGED <<rows, mail, calls, unchecked, topic, reports, early, duplicates>>

MailStep(r, by) ==
  SESAccepts(r, by) \/ SendFails(r, by) \/ LogMail(r, by) \/ LogMailFails(r, by)

TaskStep(r) == LogTask(r) \/ LogTaskFails(r) \/ LogTaskFailed(r) \/ TaskRejects(r)

HookStep(k) ==
  \/ \E r \in Recipients, logged, known \in BOOLEAN : HandleSESEvent(k, r, logged, known)
  \/ FindMail(k) \/ CreateReport(k) \/ EmitReport(k) \/ HookFails(k)

HandlerStep(h) ==
  \/ \E r \in Recipients :
       \/ \E type \in Outcomes : MailEnds(h, r, type)
       \/ Delivered(h, r)
       \/ \E type \in Types : Redelivered(h, r, type)
  \/ CreateRow(h) \/ ReadRetry(h) \/ SetRetry(h) \/ EmitRetry(h)
  \/ CheckCampaignCompletion(h) \/ Complete(h) \/ CopyStatus(h) \/ CallFails(h)

Next ==
  \/ \E r \in Recipients : TaskStep(r) \/ \E by \in {"batch", "topic"} : MailStep(r, by)
  \/ BatchRepeats
  \/ \E k \in Hooks : HookStep(k)
  \/ \E h \in Handlers : HandlerStep(h)

Spec == Init /\ [][Next]_vars

-----------------------------------------------------------------------------
(* Properties                                                              *)

Quiet ==
  /\ \A h \in Handlers : handler[h].at = "idle"
  /\ \A k \in Hooks : hook[k].at = "idle"
  /\ \A r \in Recipients : topic[r] = 0
Events(r) == CountOf({r} \X Counted)

\* With no event under way every failure handed to handleMailEvent was answered
\* by a mail sent again, or its recipient has had the retries allowed, or a call
\* failed: failures that overlap may write the counter back below what another
\* wrote, and none of them swallows another's retry. (403-420)
FailureRetried ==
  Quiet => \A r \in Recipients :
    emitted[r] = rows[<<r, "FAILED">>] \/ emitted[r] >= Allowance \/ faults > 0

\* Nobody gets more retries than MAIL_MAX_RETRIES allows, unless an event was
\* handed over twice and its two handlers read the same counter. (405-411)
RetriesWithinAllowance ==
  \A r \in Recipients :
    emitted[r] > Allowance => overlapped /\ duplicates > 0

\* A campaign is completed before every recipient has a row only if one of them
\* had two. (447-457)
EarlyCompletionHasCause ==
  status = "COMPLETED" =>
    \/ \A r \in Recipients : Events(r) > 0
    \/ \E r \in Recipients : Events(r) > 1

\* When as many rows are counted as there are recipients and nobody is at work,
\* the campaign is completed, in the database and in Redis, unless a sender wrote
\* the last of them, for no check follows its write: of handlers that overlap,
\* with each other and with senders, the one whose row makes the number full finds
\* it so. (382-397, 425-463)
FullCountCompletes ==
  Quiet /\ faults = 0 /\ ~unchecked
        /\ CountOf(Recipients \X Counted) = Cardinality(Recipients)
    => status = "COMPLETED" /\ copy = "COMPLETED"

\* A report of a known type on a mail whose row MailService had written when it
\* came is kept, in the table and by way of MAIL_EVENT in the table once more,
\* unless a call failed; those of other types and on mails without the row are
\* dropped. (handleSESEvent 20-76)
ReportsKept ==
  Quiet /\ faults = 0 =>
    \A r \in Recipients : rows[<<r, "DELIVERED">>] >= 2 * reports[r]

\* A campaign is completed when all recipients have been processed (comment of
\* line 449): each has an event.
CompletedMeansAllProcessed ==
  status = "COMPLETED" => \A r \in Recipients : Events(r) > 0
=============================================================================
