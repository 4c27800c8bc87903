------------------------------ MODULE QueueLock ------------------------------
(***************************************************************************)
(* MailQueueService.processQueue: who may work on the mail queue.          *)
(*                                                                         *)
(* Every instance of the service has a timer that starts a run of          *)
(* processQueue. Two guards keep runs apart: the field isProcessing, read  *)
(* and written by the runs of one instance, and a Redis key taken with     *)
(* SET NX EX, shared by all instances. A run is cut at its awaits: an      *)
(* action is the execution of the awaited command together with the code   *)
(* that follows it, up to the next await.                                  *)
(*                                                                         *)
(* The key stores the string 'true' and any run may delete it; that `lock' *)
(* holds the run that set the key is history, no guard reads more of it    *)
(* than whether the key is there.                                          *)
(***************************************************************************)
EXTENDS Naturals, Sequences

CONSTANTS
  Instances,  \* processes that run a MailQueueService
  Runs,       \* invocations of processQueue that may overlap (a bound)
  At,         \* the instance of each run
  NoRun,      \* the key is absent
  Gone,       \* the key is there, the run that set it has ended
  MaxFaults   \* failed calls and crashes in one behaviour (a bound)

ASSUME RunsAssumption == /\ At \in [Runs -> Instances]
                         /\ NoRun \notin Runs
                         /\ Gone \notin Runs
                         /\ NoRun # Gone

ASSUME FaultsAssumption == MaxFaults \in Nat

VARIABLES
  lock,          \* the Redis key REDIS_KEYS.QUEUE_LOCK
  isProcessing,  \* per instance: the field
  interval,      \* per instance: the timer is set
  conn,          \* per instance: runs with a command on its Redis connection
  pc,            \* per run: what it awaits
  fate,          \* per run, history: what befell it since it started
  earlyExit,     \* per instance, history: an idle round overlaps the present
  faults

vars == <<lock, isProcessing, interval, conn, pc, fate, earlyExit, faults>>

\* A run that awaits the lock, the pending campaigns or a campaign.
Guarded == {"lock", "query", "work"}
\* A run that took the lock and has not reached a delete.
Inside == {"query", "work"}
Fate == {"clean", "refused", "failed", "empty", "robbed", "expired"}

TypeOK ==
  /\ lock \in Runs \union {NoRun, Gone}
  /\ isProcessing \in [Instances -> BOOLEAN]
  /\ interval \in [Instances -> BOOLEAN]
  /\ conn \in [Instances -> Seq(Runs)]
  /\ pc \in [Runs -> {"idle", "lock", "query", "work", "early", "release"}]
  /\ fate \in [Runs -> Fate]
  /\ earlyExit \in [Instances -> BOOLEAN]
  /\ faults \in 0 .. MaxFaults

\* Mutant: the field is declared without a value.
InitFlagUndefined ==
  /\ lock = NoRun
  /\ isProcessing = [i \in Instances |-> NoRun]
  /\ interval = [i \in Instances |-> FALSE]
  /\ conn = [i \in Instances |-> <<>>]
  /\ pc = [r \in Runs |-> "idle"]
  /\ fate = [r \in Runs |-> "clean"]
  /\ earlyExit = [i \in Instances |-> FALSE]
  /\ faults = 0

Init ==
  /\ lock = NoRun
  /\ isProcessing = [i \in Instances |-> FALSE]
  /\ interval = [i \in Instances |-> FALSE]
  /\ conn = [i \in Instances |-> <<>>]
  /\ pc = [r \in Runs |-> "idle"]
  /\ fate = [r \in Runs |-> "clean"]
  /\ earlyExit = [i \in Instances |-> FALSE]
  /\ faults = 0

-----------------------------------------------------------------------------
(* Steps that several handlers share.                                      *)

Fault == faults < MaxFaults /\ faults' = faults + 1

\* One client per instance: commands are answered in the order of the calls.
AnswerDue(r) == conn[At[r]] # <<>> /\ Head(conn[At[r]]) = r

Sends(r) == conn' = [conn EXCEPT ![At[r]] = Append(@, r)]
Answered(r) == conn' = [conn EXCEPT ![At[r]] = Tail(@)]
AnsweredAndSends(r) == conn' = [conn EXCEPT ![At[r]] = Append(Tail(@), r)]

\* The finally block: the flag is cleared, then the key is deleted.
Finally(r) ==
  /\ isProcessing' = [isProcessing EXCEPT ![At[r]] = FALSE]
  /\ pc' = [pc EXCEPT ![r] = "release"]

\* The run that loses its key when r deletes it.
FatesAfterDelete(r) ==
  [s \in Runs |-> IF s = lock /\ s # r THEN "robbed" ELSE fate[s]]

\* The end of processQueue.
Returns(r) ==
  /\ pc' = [pc EXCEPT ![r] = "idle"]
  /\ earlyExit' = [earlyExit EXCEPT ![At[r]] =
       @ /\ \E s \in Runs \ {r} : At[s] = At[r] /\ pc[s] # "idle"]

-----------------------------------------------------------------------------
StartProcessing(i) ==
  /\ ~interval[i]
  /\ interval' = [interval EXCEPT ![i] = TRUE]
  /\ UNCHANGED <<lock, isProcessing, conn, pc, fate, earlyExit, faults>>

\* Runs under way are not stopped.
StopProcessing(i) ==
  /\ interval[i]
  /\ interval' = [interval EXCEPT ![i] = FALSE]
  /\ UNCHANGED <<lock, isProcessing, conn, pc, fate, earlyExit, faults>>

\* Mutant: the flag is not tested.
ProcessQueueUnguarded(r) ==
  /\ interval[At[r]]
  /\ pc[r] = "idle"
  /\ isProcessing' = [isProcessing EXCEPT ![At[r]] = TRUE]
  /\ pc' = [pc EXCEPT ![r] = "lock"]
  /\ fate' = [fate EXCEPT ![r] = "clean"]
  /\ Sends(r)
  /\ UNCHANGED <<lock, interval, earlyExit, faults>>

\* The timer fires and the flag is down: r raises it and sends SET NX.
ProcessQueue(r) ==
  /\ interval[At[r]]
  /\ ~isProcessing[At[r]]
  /\ pc[r] = "idle"
  /\ isProcessing' = [isProcessing EXCEPT ![At[r]] = TRUE]
  /\ pc' = [pc EXCEPT ![r] = "lock"]
  /\ fate' = [fate EXCEPT ![r] = "clean"]
  /\ Sends(r)
  /\ UNCHANGED <<lock, interval, earlyExit, faults>>

\* Mutant: SET without NX.
LockOverwritten(r) ==
  /\ pc[r] = "lock" /\ AnswerDue(r)
  /\ lock' = r
  /\ pc' = [pc EXCEPT ![r] = "query"]
  /\ Answered(r)
  /\ UNCHANGED <<isProcessing, interval, fate, earlyExit, faults>>

LockAcquired(r) ==
  /\ pc[r] = "lock" /\ AnswerDue(r)
  /\ lock = NoRun
  /\ lock' = r
  /\ pc' = [pc EXCEPT ![r] = "query"]
  /\ Answered(r)
  /\ UNCHANGED <<isProcessing, interval, fate, earlyExit, faults>>

\* Mutant: the attempt stands before the try and its refusal leaves the flag up.
LockRefusedFlagUp(r) ==
  /\ pc[r] = "lock" /\ AnswerDue(r)
  /\ lock # NoRun
  /\ Returns(r)
  /\ Answered(r)
  /\ UNCHANGED <<lock, isProcessing, interval, fate, faults>>

\* The return is inside the try: the finally block runs all the same and
\* deletes a key that is not this run's.
LockRefused(r) ==
  /\ pc[r] = "lock" /\ AnswerDue(r)
  /\ lock # NoRun
  /\ Finally(r)
  /\ fate' = [fate EXCEPT ![r] = "refused"]
  /\ AnsweredAndSends(r)
  /\ UNCHANGED <<lock, interval, earlyExit, faults>>

\* SET NX fails, on its way there or, when `executed', on its way back.
LockFails(r, executed) ==
  /\ pc[r] = "lock" /\ AnswerDue(r)
  /\ Fault
  /\ lock' = IF executed /\ lock = NoRun THEN r ELSE lock
  /\ Finally(r)
  /\ fate' = [fate EXCEPT ![r] = "failed"]
  /\ AnsweredAndSends(r)
  /\ UNCHANGED <<interval, earlyExit>>

CampaignsFound(r) ==
  /\ pc[r] = "query"
  /\ pc' = [pc EXCEPT ![r] = "work"]
  /\ UNCHANGED <<lock, isProcessing, interval, conn, fate, earlyExit, faults>>

\* Nothing to do: the flag goes down before the first of two deletes.
NoCampaigns(r) ==
  /\ pc[r] = "query"
  /\ isProcessing' = [isProcessing EXCEPT ![At[r]] = FALSE]
  /\ pc' = [pc EXCEPT ![r] = "early"]
  /\ fate' = [fate EXCEPT ![r] = IF @ = "clean" THEN "empty" ELSE @]
  /\ earlyExit' = [earlyExit EXCEPT ![At[r]] = TRUE]
  /\ Sends(r)
  /\ UNCHANGED <<lock, interval, faults>>

QueryFails(r) ==
  /\ pc[r] = "query"
  /\ Fault
  /\ Finally(r)
  /\ Sends(r)
  /\ UNCHANGED <<lock, interval, fate, earlyExit>>

\* The loop over the campaigns ends, or one of them throws: either way the
\* finally block is next.
CampaignsProcessed(r) ==
  /\ pc[r] = "work"
  /\ Finally(r)
  /\ Sends(r)
  /\ UNCHANGED <<lock, interval, fate, earlyExit, faults>>

EarlyDeleted(r) ==
  /\ pc[r] = "early" /\ AnswerDue(r)
  /\ lock' = NoRun
  /\ fate' = FatesAfterDelete(r)
  /\ Finally(r)
  /\ AnsweredAndSends(r)
  /\ UNCHANGED <<interval, earlyExit, faults>>

EarlyDeleteFails(r, executed) ==
  /\ pc[r] = "early" /\ AnswerDue(r)
  /\ Fault
  /\ IF executed THEN lock' = NoRun /\ fate' = FatesAfterDelete(r)
                 ELSE UNCHANGED <<lock, fate>>
  /\ Finally(r)
  /\ AnsweredAndSends(r)
  /\ UNCHANGED <<interval, earlyExit>>

Released(r) ==
  /\ pc[r] = "release" /\ AnswerDue(r)
  /\ lock' = NoRun
  /\ fate' = FatesAfterDelete(r)
  /\ Returns(r)
  /\ Answered(r)
  /\ UNCHANGED <<isProcessing, interval, faults>>

\* The delete of the finally block is lost; one that was executed and whose
\* reply is lost leaves what Released leaves.
ReleaseFails(r) ==
  /\ pc[r] = "release" /\ AnswerDue(r)
  /\ Fault
  /\ lock' = IF lock = r THEN Gone ELSE lock
  /\ Returns(r)
  /\ Answered(r)
  /\ UNCHANGED <<isProcessing, interval, fate>>

\* Thirty minutes have passed since SET NX EX; nothing renews the key.
LockExpires ==
  /\ lock # NoRun
  /\ lock' = NoRun
  /\ fate' = [s \in Runs |-> IF s = lock THEN "expired" ELSE fate[s]]
  /\ UNCHANGED <<isProcessing, interval, conn, pc, earlyExit, faults>>

\* The process dies with its timer, its runs and their unanswered commands.
Crash(i) ==
  /\ Fault
  /\ interval[i] \/ \E r \in Runs : At[r] = i /\ pc[r] # "idle"
  /\ lock' = IF lock \in Runs /\ At[lock] = i THEN Gone ELSE lock
  /\ isProcessing' = [isProcessing EXCEPT ![i] = FALSE]
  /\ interval' = [interval EXCEPT ![i] = FALSE]
  /\ conn' = [conn EXCEPT ![i] = <<>>]
  /\ pc' = [r \in Runs |-> IF At[r] = i THEN "idle" ELSE pc[r]]
  /\ earlyExit' = [earlyExit EXCEPT ![i] = FALSE]
  /\ UNCHANGED fate

-----------------------------------------------------------------------------
LockStep(r) ==
  \/ LockAcquired(r)
  \/ LockRefused(r)
  \/ \E executed \in BOOLEAN : LockFails(r, executed)

QueryStep(r) == CampaignsFound(r) \/ NoCampaigns(r) \/ QueryFails(r)

DeleteStep(r) ==
  \/ EarlyDeleted(r)
  \/ \E executed \in BOOLEAN : EarlyDeleteFails(r, executed)
  \/ Released(r)
  \/ ReleaseFails(r)

RunStep(r) == LockStep(r) \/ QueryStep(r) \/ CampaignsProcessed(r) \/ DeleteStep(r)

Next ==
  \/ \E i \in Instances : StartProcessing(i) \/ StopProcessing(i) \/ Crash(i)
  \/ \E r \in Runs : ProcessQueue(r) \/ RunStep(r)
  \/ LockExpires

Spec == Init /\ [][Next]_vars

\* Awaited calls are answered, campaigns end and a set timer fires. Nobody has to
\* start, stop or crash an instance, and the key need not expire in time.
Fairness ==
  /\ \A r \in Runs : WF_vars(RunStep(r))
  /\ \A i \in Instances :
       WF_vars(\E r \in Runs : At[r] = i /\ ProcessQueue(r))

FairSpec == Spec /\ Fairness

-----------------------------------------------------------------------------
(* Safety                                                                  *)

\* Two runs are past the lock together only when the key of one of them was
\* deleted by another run or expired under it: SET NX and the delete of its
\* owner exclude on their own. (processQueue 75-85, 110-113)
ExclusionUnlessRobbed ==
  \A r, s \in Runs : r # s /\ pc[r] \in Inside /\ pc[s] \in Inside
                       => {fate[r], fate[s]} \cap {"robbed", "expired"} # {}

Working(i) == {r \in Runs : At[r] = i /\ pc[r] \in Guarded}

\* The field isProcessing is up only while a run that raised it is at work,
\* and unless a round that found no campaign overlaps, the instance has at
\* most one run at work and the field is up all the time it is. (66-70, 98-111)
FlagGuards ==
  \A i \in Instances :
    /\ isProcessing[i] => Working(i) # {}
    /\ ~earlyExit[i] => /\ \A r, s \in Working(i) : r = s
                        /\ Working(i) # {} => isProcessing[i]

\* A run has its key deleted by a run of its own instance only across a round
\* that found no campaign: the flag goes down before the key is deleted, and
\* what keeps the next run safe is that one connection answers in order.
\* (110-113)
NoSelfRobbery ==
  [][\A r, s \in Runs :
       /\ r # s /\ At[r] = At[s] /\ lock = s /\ pc[s] \in Inside
       /\ EarlyDeleted(r) \/ Released(r)
       => earlyExit[At[r]]]_vars

\* Whoever deletes the key of a run at work was refused, failed, found no
\* campaign, or lost its own key first. (81-85, 98-102, 112)
CleanRunsDeleteTheirOwn ==
  [][\A r, s \in Runs :
       /\ r # s /\ lock = s
       /\ EarlyDeleted(r) \/ Released(r)
       => fate[r] # "clean"]_vars

\* While a run processes campaigns and its thirty minutes last, no other run
\* does: the lock is kept for lockDuration (line 20), and a refused attempt is
\* told that the other instance is processing the queue (line 82).
OneProcessorPerLease ==
  \A r, s \in Runs : r # s /\ pc[r] = "work" /\ pc[s] = "work"
                       => "expired" \in {fate[r], fate[s]}

-----------------------------------------------------------------------------
(* What makes the above inductive.                                         *)

\* A run that nothing befell owns the key from SET NX to its last delete.
CleanOwner ==
  \A r \in Runs :
    /\ pc[r] = "lock" => fate[r] = "clean"
    /\ pc[r] \in Inside => fate[r] \in {"clean", "robbed", "expired"}
    /\ pc[r] = "early" => fate[r] # "clean"
    /\ pc[r] \in Inside \union {"release"} /\ fate[r] = "clean" => lock = r
    /\ lock = r => pc[r] \notin {"idle", "lock"}

\* The first of the two deletes of an idle round marks the instance.
EarlyMarked == \A r \in Runs : pc[r] = "early" => earlyExit[At[r]]

\* What is on a connection: each run once, and each awaiting its answer.
InFlight ==
  \A i \in Instances :
    /\ \A k \in 1 .. Len(conn[i]) :
         At[conn[i][k]] = i /\ pc[conn[i][k]] \in {"lock", "early", "release"}
    /\ \A k, l \in 1 .. Len(conn[i]) : conn[i][k] = conn[i][l] => k = l

\* While no idle round overlaps, SET NX is the last command sent, and nothing
\* is in flight behind a run that is past it.
LastInLine ==
  \A i \in Instances : ~earlyExit[i] =>
    /\ \A k \in 1 .. Len(conn[i]) : pc[conn[i][k]] = "lock" => k = Len(conn[i])
    /\ \A r \in Runs : At[r] = i /\ pc[r] \in Inside => conn[i] = <<>>

IInv == TypeOK /\ CleanOwner /\ FlagGuards /\ EarlyMarked /\ InFlight /\ LastInLine

-----------------------------------------------------------------------------
(* Liveness                                                                *)

\* An instance that keeps its timer tries for the key again and again: on every way
\* out of processQueue, refused, failed, idle or done, across overlapping rounds and
\* lost replies, the field isProcessing comes down and no run stays before its answer.
\* (66-70, 75-85, 98-114)
InstanceTries ==
  \A i \in Instances :
    <>[]interval[i] => []<>(\E r \in Runs : At[r] = i /\ pc[r] = "lock")

\* As long as one instance keeps its timer the pending campaigns are looked up
\* again and again, by it or by another.
QueuePolled ==
  (\E i \in Instances : <>[]interval[i]) => []<>(\E r \in Runs : pc[r] = "query")
=============================================================================
