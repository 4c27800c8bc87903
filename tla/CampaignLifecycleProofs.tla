----------------------- MODULE CampaignLifecycleProofs -----------------------
(***************************************************************************)
(* Proofs about CampaignLifecycle, for any number of requests, crons and   *)
(* workers, of batches and of failures: its type invariant and every       *)
(* safety property of the runs.                                            *)
(*                                                                         *)
(* A step is Cancel, the time going by, or one process that moves; what it *)
(* does to the process is said once per action (ReadMoves to TimeMoves),   *)
(* and each property has an invariant over one process at a time.          *)
(***************************************************************************)
EXTENDS CampaignLifecycle, TLAPS

(***************************************************************************)
(* Types                                                                   *)
(***************************************************************************)

Dates == {"none", "later", "due", "old"}
Record == [at : Steps, target : Statuses, date : Dates,
           next : 0 .. MaxBatches + 1, last : 0 .. MaxBatches]

\* A start parks a batch that is there.
Proper(p) == proc[p].at = "park" => proc[p].next \in 1 .. proc[p].last

ProcTypes == proc \in [Procs -> Record] /\ \A p \in Procs : Proper(p)

RowTypes ==
  /\ status \in Statuses \union {"gone"} /\ scheduledAt \in Dates /\ sentAt \in BOOLEAN
  /\ batches \in 0 .. MaxBatches /\ copy \in Statuses
  /\ keys \subseteq {ParkPrefix, QueuePrefix} \X (1 .. MaxBatches)
  /\ announced \in 0 .. 2 /\ faults \in 0 .. MaxFaults

HistoryTypes ==
  /\ overlapped \in BOOLEAN /\ reopened \in BOOLEAN /\ bypassed \in BOOLEAN
  /\ crossed \in BOOLEAN /\ edited \in BOOLEAN

Typed == ProcTypes /\ RowTypes /\ HistoryTypes

\* Process p moves, and no other.
Moved(p) == \A q \in Procs \ {p} : proc'[q] = proc[q]

\* A process gets another record of the type.
LEMMA ProcMoves ==
  ASSUME ProcTypes, NEW p \in Procs, NEW r \in Record, proc' = [proc EXCEPT ![p] = r],
         r.at = "park" => r.next \in 1 .. r.last
  PROVE  ProcTypes' /\ Moved(p) /\ proc'[p] = r
BY DEF ProcTypes, Proper, Moved

\* The two records at rest.
LEMMA Resting == Idle \in Record /\ Done \in Record /\ Idle.at = "idle" /\ Done.at = "done"
BY CampaignAssumption DEF Idle, Done, Record, Steps, Statuses, Dates

\* Ends and Goes.
LEMMA EndsMove ==
  ASSUME ProcTypes, NEW p \in Procs, Ends(p)
  PROVE  ProcTypes' /\ Moved(p) /\ proc'[p] \in {Idle, Done} /\ proc'[p].at \in {"idle", "done"}
BY Resting DEF Ends, ProcTypes, Proper, Moved

LEMMA GoesMove ==
  ASSUME ProcTypes, NEW p \in Procs, NEW at \in Steps \ {"park"}, Goes(p, at)
  PROVE  /\ ProcTypes' /\ Moved(p) /\ proc'[p].at = at /\ proc'[p].target = proc[p].target
         /\ proc'[p].date = proc[p].date
BY DEF Goes, ProcTypes, Proper, Moved, Record

\* What each step does to the process that takes it.
LEMMA ReadMoves ==
  ASSUME ProcTypes, RowTypes, NEW p \in Procs, ReadStatus(p)
  PROVE  /\ ProcTypes' /\ Moved(p)
         /\ \/ proc'[p].at \in {"idle", "done"}
            \/ /\ proc'[p].at = "write" /\ proc'[p].target = proc[p].target
               /\ proc[p].target \in Allowed(status)
<1>1. CASE Ends(p)
  BY <1>1, EndsMove
<1>2. CASE ~Ends(p)
  BY <1>2 DEF ReadStatus, ProcTypes, Proper, Moved, Record, RowTypes, Steps
<1> QED
  BY <1>1, <1>2

LEMMA WriteMoves ==
  ASSUME ProcTypes, RowTypes, NEW p \in Procs, WriteStatus(p)
  PROVE  ProcTypes' /\ Moved(p) /\ proc'[p].at = "copy" /\ proc'[p].target = proc[p].target
BY DEF WriteStatus, ProcTypes, Proper, Moved, Record, Steps, Dates

\* Three fields of a record set at once.
LEMMA UpdateParking ==
  ASSUME NEW v \in Record, NEW at \in Steps, NEW n \in 0 .. MaxBatches + 1, NEW m \in 0 .. MaxBatches
  PROVE  [v EXCEPT !.next = n, !.last = m, !.at = at] \in Record
<1> DEFINE N == 0 .. MaxBatches + 1
           M == 0 .. MaxBatches
<1>1. v \in [at : Steps, target : Statuses, date : Dates, next : N, last : M] /\ n \in N /\ m \in M
  BY DEF Record
<1>2. Record = [at : Steps, target : Statuses, date : Dates, next : N, last : M]
  BY DEF Record
<1> HIDE DEF N, M
<1> QED
  BY <1>1, <1>2

LEMMA LoadMoves ==
  ASSUME ProcTypes, RowTypes, NEW p \in Procs, LoadRecipients(p)
  PROVE  /\ ProcTypes' /\ Moved(p)
         /\ proc'[p].at = IF batches = 0 THEN "empty" ELSE "park"
         /\ proc'[p].next = 1 /\ proc'[p].last = batches
<1> DEFINE a == IF batches = 0 THEN "empty" ELSE "park"
           v == proc[p]
           r == [v EXCEPT !.next = 1, !.last = batches, !.at = a]
<1>1. batches \in 0 .. MaxBatches /\ MaxBatches \in Nat /\ a \in Steps /\ v \in Record
  BY CampaignAssumption DEF RowTypes, ProcTypes, Steps
<1>2. 1 \in 0 .. MaxBatches + 1
  BY <1>1
<1>3. proc' = [proc EXCEPT ![p] = r]
  BY DEF LoadRecipients, ProcTypes
<1> HIDE DEF a, v
<1>7. r \in Record
  BY <1>1, <1>2, UpdateParking, Zenon DEF r
<1>8. r.at = a /\ r.next = 1 /\ r.last = batches
  BY <1>1 DEF r, Record
<1>4. r \in Record /\ r.at = a /\ r.next = 1 /\ r.last = batches
  BY <1>7, <1>8
<1> HIDE DEF r
<1>5. r.at = "park" => r.next \in 1 .. r.last
  BY <1>1, <1>4 DEF a
<1>6. ProcTypes' /\ Moved(p) /\ proc'[p] = r
  BY <1>3, <1>4, <1>5, ProcMoves
<1> QED
  BY <1>4, <1>6 DEF a

LEMMA ParkMoves ==
  ASSUME ProcTypes, RowTypes, NEW p \in Procs, ParkBatch(p)
  PROVE  /\ ProcTypes' /\ Moved(p)
         /\ proc'[p].at = IF proc[p].next < proc[p].last THEN "park" ELSE "stamp"
         /\ proc'[p].next = proc[p].next + 1 /\ proc'[p].last = proc[p].last
         /\ proc[p].next \in 1 .. proc[p].last /\ proc[p].last \in 0 .. MaxBatches
<1> DEFINE n == proc[p].next
           m == proc[p].last
           a == IF n < m THEN "park" ELSE "stamp"
           v == proc[p]
           r == [v EXCEPT !.next = n + 1, !.at = a]
           u == [v EXCEPT !.next = n + 1, !.last = m, !.at = a]
<1>1. /\ n \in 1 .. m /\ m \in 0 .. MaxBatches /\ MaxBatches \in Nat /\ a \in Steps
      /\ v \in Record
  BY CampaignAssumption DEF ParkBatch, ProcTypes, Proper, Record, Steps
<1>2. n + 1 \in 0 .. MaxBatches + 1
  BY <1>1
<1>3. proc' = [proc EXCEPT ![p] = r]
  BY DEF ParkBatch, ProcTypes
<1>4. r = u
  BY <1>1 DEF Record
<1> HIDE DEF a, n, m, v
<1>8. u \in Record
  BY <1>1, <1>2, UpdateParking, Zenon DEF u
<1>9. u.at = a /\ u.next = n + 1 /\ u.last = m
  BY <1>1 DEF u, Record
<1>5. u \in Record /\ u.at = a /\ u.next = n + 1 /\ u.last = m
  BY <1>8, <1>9
<1> HIDE DEF r, u
<1>6. r.at = "park" => r.next \in 1 .. r.last
  BY <1>1, <1>4, <1>5 DEF a
<1>7. ProcTypes' /\ Moved(p) /\ proc'[p] = r
  BY <1>3, <1>4, <1>5, <1>6, ProcMoves
<1> QED
  BY <1>1, <1>4, <1>5, <1>7 DEF a, n, m

LEMMA AnnounceMoves ==
  ASSUME ProcTypes, NEW p \in Procs, Announce(p)
  PROVE  ProcTypes' /\ Moved(p) /\ proc'[p].at = "read" /\ proc'[p].target = "SENDING"
<1> DEFINE v == proc[p]
           r == [v EXCEPT !.at = "read", !.target = "SENDING"]
<1>1. v \in Record /\ "read" \in Steps /\ "SENDING" \in Statuses
  BY DEF ProcTypes, Steps, Statuses
<1>2. proc' = [proc EXCEPT ![p] = r]
  BY DEF Announce, ProcTypes
<1> HIDE DEF v
<1>3. r \in Record
  BY <1>1 DEF Record
<1>4. r.at = "read" /\ r.target = "SENDING"
  BY <1>1 DEF Record
<1> HIDE DEF r
<1> QED
  BY <1>2, <1>3, <1>4, ProcMoves

\* The records of one who asks for a status.
LEMMA UpdateAsk ==
  ASSUME NEW target \in Statuses, NEW date \in Dates
  PROVE  /\ [Idle EXCEPT !.at = "read", !.target = target, !.date = date] \in Record
         /\ [Idle EXCEPT !.at = "read", !.target = target, !.date = date].at = "read"
         /\ [Idle EXCEPT !.at = "read", !.target = target, !.date = date].target = target
         /\ [Idle EXCEPT !.at = "read", !.target = target] \in Record
         /\ [Idle EXCEPT !.at = "read", !.target = target].at = "read"
         /\ [Idle EXCEPT !.at = "read", !.target = target].target = target
<1> DEFINE r == [Idle EXCEPT !.at = "read", !.target = target, !.date = date]
           u == [Idle EXCEPT !.at = "read", !.target = target]
<1>1. Idle \in Record /\ "read" \in Steps
  BY Resting DEF Steps
<1>2. r \in Record
  BY <1>1 DEF Record
<1>3. u \in Record
  BY <1>1 DEF Record
<1>4. r.at = "read" /\ r.target = target
  BY <1>1 DEF Record
<1>5. u.at = "read" /\ u.target = target
  BY <1>1 DEF Record
<1> QED
  BY <1>2, <1>3, <1>4, <1>5

\* The time changes dates only.
LEMMA TimeMoves ==
  ASSUME ProcTypes, TimePasses
  PROVE  /\ ProcTypes'
         /\ \A p \in Procs : /\ proc'[p].at = proc[p].at /\ proc'[p].target = proc[p].target
                             /\ proc'[p].next = proc[p].next /\ proc'[p].last = proc[p].last
<1>1. \A date \in Dates : Later(date) \in Dates
  BY DEF Dates, Later
<1>2. ASSUME NEW p \in Procs
      PROVE  /\ proc'[p] \in Record /\ proc'[p].at = proc[p].at /\ proc'[p].target = proc[p].target
             /\ proc'[p].next = proc[p].next /\ proc'[p].last = proc[p].last
  BY <1>1 DEF TimePasses, ProcTypes, Record
<1> QED
  BY <1>2 DEF ProcTypes, Proper, TimePasses

-----------------------------------------------------------------------------
\* The steps of a process, by what they do to it.
EndSteps(p) ==
  \/ CompleteEmpty(p) \/ StampSentAt(p) \/ Delete(p) \/ DeleteRefused(p) \/ EnqueueCopy(p)
  \/ CompleteCampaign(p) \/ RowGone(p) \/ CallFails(p)
  \/ \E n \in 0 .. MaxBatches, date \in {"none", "later"} : Edit(p, n, date)
GoSteps(p) ==
  \/ Send(p) \/ Remove(p) \/ EnqueueCampaign(p) \/ EnqueueWrite(p) \/ ProcessCampaign(p)
AskSteps(p) ==
  \/ \E target \in Targets, date \in {"none", "later"} : UpdateCampaignStatus(p, target, date)
  \/ HandleScheduled(p) \/ CleanupOld(p)
Others(p) ==
  \/ CopyStatus(p) \/ FindBatch(p) \/ ReadStatus(p) \/ WriteStatus(p) \/ LoadRecipients(p)
  \/ ParkBatch(p) \/ Announce(p)

\* Every step is of one of these kinds.
LEMMA StepKinds ==
  ASSUME [Next]_vars
  PROVE  \/ UNCHANGED vars \/ Cancel \/ TimePasses
         \/ \E p \in Procs : EndSteps(p) \/ GoSteps(p) \/ AskSteps(p) \/ Others(p)
BY DEF Next, Request, Continue, EndSteps, GoSteps, AskSteps, Others

\* Who asks for a status awaits reading it.
LEMMA AskCases ==
  ASSUME NEW p, AskSteps(p)
  PROVE  /\ proc[p].at = "idle"
         /\ \E r \in Record : proc' = [proc EXCEPT ![p] = r] /\ r.at = "read"
<1>1. ASSUME NEW target \in Targets, NEW date \in {"none", "later"},
             UpdateCampaignStatus(p, target, date)
      PROVE  /\ proc[p].at = "idle"
             /\ \E r \in Record : proc' = [proc EXCEPT ![p] = r] /\ r.at = "read"
  <2>1. target \in Statuses /\ date \in Dates
    BY CampaignAssumption DEF Dates
  <2>2. /\ [Idle EXCEPT !.at = "read", !.target = target, !.date = date] \in Record
        /\ [Idle EXCEPT !.at = "read", !.target = target, !.date = date].at = "read"
    BY <2>1, UpdateAsk, Zenon
  <2>3. /\ proc[p].at = "idle"
        /\ proc' = [proc EXCEPT ![p] = [Idle EXCEPT !.at = "read", !.target = target, !.date = date]]
    BY <1>1, Zenon DEF UpdateCampaignStatus
  <2> QED
    BY <2>2, <2>3, Zenon
<1>2. ASSUME NEW target \in {"SENDING", "CANCELLED"}, NEW dates, Scheduled(p, dates, target)
      PROVE  /\ proc[p].at = "idle"
             /\ \E r \in Record : proc' = [proc EXCEPT ![p] = r] /\ r.at = "read"
  <2>1. target \in Statuses /\ "none" \in Dates
    BY DEF Statuses, Dates
  <2> QED
    BY <1>2, <2>1, UpdateAsk DEF Scheduled
<1> QED
  BY <1>1, <1>2 DEF AskSteps, HandleScheduled, CleanupOld

\* A step of a process keeps the types and every other process.
LEMMA ProcStep ==
  ASSUME Typed, NEW p \in Procs, EndSteps(p) \/ GoSteps(p) \/ AskSteps(p) \/ Others(p)
  PROVE  /\ ProcTypes' /\ Moved(p)
         /\ EndSteps(p) => Ends(p) /\ proc'[p].at \in {"idle", "done"}
         /\ AskSteps(p) => proc[p].at = "idle" /\ proc'[p].at = "read"
<1>0. ProcTypes /\ RowTypes
  BY DEF Typed
<1>1. CASE EndSteps(p)
  <2>1. Ends(p)
    BY <1>1 DEF EndSteps, CompleteEmpty, StampSentAt, Delete, DeleteRefused, EnqueueCopy,
       CompleteCampaign, RowGone, CallFails, Edit
  <2>2. ProcTypes' /\ Moved(p) /\ proc'[p].at \in {"idle", "done"}
    BY <1>0, <2>1, EndsMove
  <2>3. ~AskSteps(p)
    <3>1. ASSUME AskSteps(p) PROVE proc'[p].at = "read"
      <4>1. PICK r \in Record : proc' = [proc EXCEPT ![p] = r] /\ r.at = "read"
        BY <3>1, AskCases
      <4> QED
        BY <1>0, <4>1, ProcMoves
    <3> QED
      BY <2>2, <3>1
  <2> QED
    BY <2>1, <2>2, <2>3
<1>2. CASE AskSteps(p)
  <2>1. PICK r \in Record : proc' = [proc EXCEPT ![p] = r] /\ r.at = "read"
    BY <1>2, AskCases
  <2>2. ProcTypes' /\ Moved(p) /\ proc'[p].at = "read"
    BY <1>0, <2>1, ProcMoves
  <2> QED
    BY <1>1, <1>2, <2>2, AskCases
<1>3. CASE GoSteps(p) /\ ~EndSteps(p) /\ ~AskSteps(p)
  <2>1. \E at \in {"announce", "delete", "enqueue", "enqueueCopy", "keys"} : Goes(p, at)
    BY <1>3 DEF GoSteps, Send, Remove, EnqueueCampaign, EnqueueWrite, ProcessCampaign
  <2> QED
    BY <1>0, <1>3, <2>1, GoesMove DEF Steps
<1>4. CASE Others(p) /\ ~EndSteps(p) /\ ~AskSteps(p)
  <2>1. CASE CopyStatus(p) \/ FindBatch(p)
    <3>1. Ends(p) \/ Goes(p, "load") \/ Goes(p, "complete")
      BY <2>1 DEF CopyStatus, FindBatch
    <3> QED
      BY <1>0, <1>4, <3>1, GoesMove, EndsMove DEF Steps
  <2> QED
    BY <1>0, <1>4, <2>1, ReadMoves, WriteMoves, LoadMoves, ParkMoves, AnnounceMoves DEF Others
<1> QED
  BY <1>1, <1>2, <1>3, <1>4
-----------------------------------------------------------------------------
\* What the two ways of writing the status leave behind.
LEMMA WritesTypes ==
  ASSUME HistoryTypes, NEW p, NEW new, WritesStatus(p, new)
  PROVE  HistoryTypes' /\ status' = new
BY Zenon DEF HistoryTypes, WritesStatus

LEMMA BypassTypes ==
  ASSUME HistoryTypes, NEW new, BypassesCopy(new)
  PROVE  HistoryTypes' /\ status' = new
BY Zenon DEF HistoryTypes, BypassesCopy

\* Only numbers of batches are parked.
LEMMA ParkTypes ==
  ASSUME ProcTypes, RowTypes, NEW p \in Procs, ParkBatch(p)
  PROVE  keys' \subseteq {ParkPrefix, QueuePrefix} \X (1 .. MaxBatches)
<1>1. /\ proc[p].next \in 1 .. proc[p].last /\ proc[p].last \in 0 .. MaxBatches
      /\ MaxBatches \in Nat
  BY ParkMoves, CampaignAssumption
<1>2. proc[p].next \in 1 .. MaxBatches
  BY <1>1
<1>3. <<ParkPrefix, proc[p].next>> \in {ParkPrefix, QueuePrefix} \X (1 .. MaxBatches)
  BY <1>2
<1> QED
  BY <1>3 DEF ParkBatch, RowTypes

Still == UNCHANGED <<row, batches, copy, keys, announced, history>>

\* The steps that write nothing but their process.
Quiet(p) ==
  \/ DeleteRefused(p) \/ RowGone(p) \/ CallFails(p) \/ AskSteps(p) \/ Remove(p)
  \/ EnqueueCampaign(p) \/ ProcessCampaign(p) \/ FindBatch(p) \/ ReadStatus(p)
  \/ LoadRecipients(p)

\* Such a step leaves the rest, the count of failures apart.
LEMMA QuietStill ==
  ASSUME NEW p, Quiet(p)
  PROVE  Still /\ (CallFails(p) \/ UNCHANGED faults)
BY DEF Quiet, Still, DeleteRefused, RowGone, CallFails, AskSteps, Remove, EnqueueCampaign,
   ProcessCampaign, FindBatch, ReadStatus, LoadRecipients, UpdateCampaignStatus,
   HandleScheduled, CleanupOld, Scheduled

Editing(p) == \E n \in 0 .. MaxBatches, date \in {"none", "later"} : Edit(p, n, date)

\* The others, one by one.
LEMMA Loud ==
  ASSUME [Next]_vars
  PROVE  \/ UNCHANGED vars \/ Cancel \/ TimePasses
         \/ \E p \in Procs :
              \/ Quiet(p) \/ Editing(p)
              \/ CompleteEmpty(p) \/ StampSentAt(p) \/ Delete(p) \/ EnqueueCopy(p)
              \/ CompleteCampaign(p) \/ Send(p) \/ EnqueueWrite(p) \/ CopyStatus(p)
              \/ WriteStatus(p) \/ ParkBatch(p) \/ Announce(p)
BY DEF Next, Request, Continue, Quiet, Editing, AskSteps

\* Every step keeps the types of the row, the keys and the history.
LEMMA ContentTypes ==
  ASSUME Typed, [Next]_vars
  PROVE  RowTypes' /\ HistoryTypes'
<1>0. ProcTypes /\ RowTypes /\ HistoryTypes /\ MaxBatches \in Nat /\ MaxFaults \in Nat
  BY CampaignAssumption DEF Typed
<1>1. CASE UNCHANGED vars
  BY <1>0, <1>1 DEF vars, row, history, RowTypes, HistoryTypes
<1>2. CASE Cancel
  <2>1. HistoryTypes' /\ status' = "DRAFT"
    BY <1>0, <1>2, BypassTypes DEF Cancel
  <2> QED
    BY <1>0, <1>2, <2>1 DEF Cancel, RowTypes, Statuses, Dates
<1>3. CASE TimePasses
  <2>1. scheduledAt' \in Dates
    BY <1>0, <1>3 DEF TimePasses, RowTypes, Dates, Later
  <2> QED
    BY <1>0, <1>3, <2>1 DEF TimePasses, RowTypes, HistoryTypes, history
<1>4. ASSUME NEW p \in Procs, Quiet(p) PROVE RowTypes' /\ HistoryTypes'
  <2>1. Still /\ faults' \in 0 .. MaxFaults
    BY <1>0, <1>4, QuietStill DEF CallFails, RowTypes
  <2> QED
    BY <1>0, <2>1 DEF Still, RowTypes, HistoryTypes, row, history
<1>5. ASSUME NEW p \in Procs, Editing(p) PROVE RowTypes' /\ HistoryTypes'
  <2>1. PICK n \in 0 .. MaxBatches, date \in {"none", "later"} : Edit(p, n, date)
    BY <1>5, Zenon DEF Editing
  <2>2. HistoryTypes'
    BY <1>0, <2>1, Zenon DEF Edit, HistoryTypes
  <2> QED
    BY <1>0, <2>1, <2>2 DEF Edit, RowTypes, Dates
<1>6. ASSUME NEW p \in Procs, CompleteEmpty(p) \/ CompleteCampaign(p)
      PROVE  RowTypes' /\ HistoryTypes'
  <2>1. HistoryTypes' /\ status' = "COMPLETED"
    BY <1>0, <1>6, BypassTypes DEF CompleteEmpty, CompleteCampaign
  <2> QED
    BY <1>0, <1>6, <2>1 DEF CompleteEmpty, CompleteCampaign, RowTypes, Statuses
<1>7. ASSUME NEW p \in Procs, StampSentAt(p) \/ Delete(p) \/ EnqueueCopy(p) \/ CopyStatus(p)
      PROVE  RowTypes' /\ HistoryTypes'
  <2>1. proc[p].target \in Statuses
    BY <1>0 DEF ProcTypes, Record
  <2>2. UNCHANGED history
    BY <1>7 DEF StampSentAt, Delete, EnqueueCopy, CopyStatus
  <2>3. HistoryTypes'
    BY <1>0, <2>2 DEF HistoryTypes, history
  <2>4. CASE StampSentAt(p)
    BY <1>0, <2>3, <2>4 DEF StampSentAt, RowTypes
  <2>5. CASE Delete(p)
    <3>1. /\ status' = "gone" /\ scheduledAt' = "none" /\ sentAt' = FALSE /\ batches' = 0
          /\ UNCHANGED <<copy, keys, announced, faults>>
      BY <2>5 DEF Delete
    <3>2. scheduledAt' \in Dates /\ batches' \in 0 .. MaxBatches
      BY <1>0, <3>1 DEF Dates
    <3> QED
      BY <1>0, <2>3, <3>1, <3>2 DEF RowTypes
  <2>6. CASE EnqueueCopy(p) \/ CopyStatus(p)
    BY <1>0, <2>1, <2>3, <2>6 DEF EnqueueCopy, CopyStatus, RowTypes, Statuses, row
  <2> QED
    BY <1>7, <2>3, <2>4, <2>5, <2>6
<1>8. ASSUME NEW p \in Procs, Send(p) PROVE RowTypes' /\ HistoryTypes'
  <2>1. HistoryTypes'
    BY <1>0, <1>8, Zenon DEF Send, HistoryTypes
  <2> QED
    BY <1>0, <1>8, <2>1 DEF Send, RowTypes, row
<1>9. ASSUME NEW p \in Procs, EnqueueWrite(p) \/ WriteStatus(p)
      PROVE  RowTypes' /\ HistoryTypes'
  <2>1. proc[p].target \in Statuses /\ proc[p].date \in Dates /\ "SENDING" \in Statuses
    BY <1>0 DEF ProcTypes, Record, Statuses
  <2>2. HistoryTypes' /\ status' \in Statuses
    BY <1>9, <1>0, <2>1, WritesTypes DEF EnqueueWrite, WriteStatus
  <2> QED
    BY <1>0, <1>9, <2>1, <2>2 DEF EnqueueWrite, WriteStatus, RowTypes
<1>10. ASSUME NEW p \in Procs, ParkBatch(p) PROVE RowTypes' /\ HistoryTypes'
  <2>1. keys' \subseteq {ParkPrefix, QueuePrefix} \X (1 .. MaxBatches)
    BY <1>0, <1>10, ParkTypes
  <2> QED
    BY <1>0, <1>10, <2>1 DEF ParkBatch, RowTypes, HistoryTypes, row, history
<1>11. ASSUME NEW p \in Procs, Announce(p) PROVE RowTypes' /\ HistoryTypes'
  BY <1>0, <1>11 DEF Announce, RowTypes, HistoryTypes, row, history
<1> QED
  BY <1>1, <1>2, <1>3, <1>4, <1>5, <1>6, <1>7, <1>8, <1>9, <1>10, <1>11, Loud

\* The type invariant is inductive.
LEMMA TypeStep == Typed /\ [Next]_vars => Typed'
<1> SUFFICES ASSUME Typed, [Next]_vars PROVE Typed'
  OBVIOUS
<1>1. RowTypes' /\ HistoryTypes'
  BY ContentTypes
<1>2. ProcTypes'
  <2>1. CASE UNCHANGED vars \/ Cancel
    BY <2>1 DEF vars, Cancel, Typed, ProcTypes, Proper
  <2>2. CASE TimePasses
    BY <2>2, TimeMoves DEF Typed
  <2>3. ASSUME NEW p \in Procs, EndSteps(p) \/ GoSteps(p) \/ AskSteps(p) \/ Others(p)
        PROVE  ProcTypes'
    BY <2>3, ProcStep
  <2> QED
    BY <2>1, <2>2, <2>3, StepKinds
<1> QED
  BY <1>1, <1>2 DEF Typed

\* It holds initially.
LEMMA TypeInit == Init => Typed
<1> SUFFICES ASSUME Init PROVE Typed
  OBVIOUS
<1>1. ProcTypes
  BY Resting DEF Init, ProcTypes, Proper
<1>2. status \in Statuses \union {"gone"} /\ scheduledAt \in Dates /\ copy \in Statuses
  BY DEF Init, Statuses, Dates
<1>3. faults \in 0 .. MaxFaults /\ announced \in 0 .. 2
  BY CampaignAssumption DEF Init
<1>4. RowTypes /\ HistoryTypes
  BY <1>2, <1>3 DEF Init, RowTypes, HistoryTypes
<1> QED
  BY <1>1, <1>4 DEF Typed

\* TypeOK: every variable and every process keeps its type, for any number of
\* requests, crons and workers. (CampaignService, SchedulerService)
THEOREM TypeCorrect == Spec => []TypeOK
<1>1. Typed => TypeOK
  <2> SUFFICES ASSUME Typed PROVE TypeOK
    OBVIOUS
  <2>1. /\ proc \in [Procs -> [at : Steps, target : Statuses, date : Dates,
                               next : 0 .. MaxBatches + 1, last : 0 .. MaxBatches]]
    BY DEF Typed, ProcTypes, Record
  <2>2. history \in BOOLEAN \X BOOLEAN \X BOOLEAN \X BOOLEAN \X BOOLEAN
    BY DEF Typed, HistoryTypes, history
  <2> QED
    BY <2>1, <2>2 DEF Typed, RowTypes, TypeOK, Dates
<1>2. Init => Typed
  BY TypeInit
<1>3. Typed /\ [Next]_vars => Typed'
  BY TypeStep
<1> QED
  BY <1>1, <1>2, <1>3, PTL DEF Spec
(***************************************************************************)
(* What is parked                                                          *)
(***************************************************************************)

Parked(n) == <<ParkPrefix, n>> \in keys

\* How far a start has come, unless the recipients changed under it.
ParkingAt(p) ==
  Exists /\ ~edited =>
    /\ proc[p].at = "empty" => batches = 0
    /\ proc[p].at = "park" =>
         proc[p].last = batches /\ \A n \in 1 .. proc[p].next - 1 : Parked(n)
    /\ proc[p].at = "stamp" => \A n \in 1 .. batches : Parked(n)

Parking == /\ ~Exists => ~sentAt
           /\ \A p \in Procs : ParkingAt(p)
           /\ SentAtMeansParked

\* What every step leaves of it: no batch is taken away, and the recipients of
\* those who start stay, or it is noted.
Lasting ==
  /\ keys \subseteq keys'
  /\ Exists' /\ ~edited' =>
       /\ Exists /\ ~edited
       /\ batches' = batches \/ (~sentAt /\ \A q \in Procs : ~Starting(q))

\* A process that does not move keeps its part of Parking.
LEMMA ParkingKept ==
  ASSUME Lasting, NEW q \in Procs, ParkingAt(q),
         proc'[q].at = proc[q].at, proc'[q].next = proc[q].next, proc'[q].last = proc[q].last
  PROVE  ParkingAt(q)'
BY DEF Lasting, ParkingAt, Starting, Parked, Exists

\* A step that does not set sentAt keeps what sentAt says.
LEMMA SentKept ==
  ASSUME Lasting, SentAtMeansParked, sentAt' => sentAt, ~Exists => ~sentAt, sentAt' => Exists'
  PROVE  SentAtMeansParked'
BY DEF Lasting, SentAtMeansParked

\* Who is about to park after a step of his own.
LEMMA Starters ==
  ASSUME Typed, NEW p \in Procs, EndSteps(p) \/ GoSteps(p) \/ AskSteps(p) \/ Others(p)
  PROVE  Starting(p)' => LoadRecipients(p) \/ ParkBatch(p)
<1>0. ProcTypes /\ RowTypes
  BY DEF Typed
<1>1. CASE EndSteps(p) \/ AskSteps(p)
  BY <1>1, ProcStep DEF Starting
<1>2. CASE GoSteps(p)
  <2>1. \E at \in {"announce", "delete", "enqueue", "enqueueCopy", "keys"} : Goes(p, at)
    BY <1>2 DEF GoSteps, Send, Remove, EnqueueCampaign, EnqueueWrite, ProcessCampaign
  <2> QED
    BY <1>0, <2>1, GoesMove DEF Steps, Starting
<1>3. CASE CopyStatus(p) \/ FindBatch(p)
  <2>1. Ends(p) \/ Goes(p, "load") \/ Goes(p, "complete")
    BY <1>3 DEF CopyStatus, FindBatch
  <2> QED
    BY <1>0, <2>1, GoesMove, EndsMove DEF Steps, Starting
<1>4. CASE ReadStatus(p) \/ WriteStatus(p) \/ Announce(p)
  <2>1. proc'[p].at \in {"idle", "done", "write", "copy", "read"}
    BY <1>0, <1>4, ReadMoves, WriteMoves, AnnounceMoves
  <2> QED
    BY <2>1 DEF Starting
<1> QED
  BY <1>1, <1>2, <1>3, <1>4 DEF Others

\* Parking is inductive.
LEMMA ParkingStep == Typed /\ Parking /\ [Next]_vars => Parking'
<1> SUFFICES ASSUME Typed, Parking, [Next]_vars PROVE Parking'
  OBVIOUS
<1>0. /\ ProcTypes /\ RowTypes /\ HistoryTypes /\ (~Exists => ~sentAt)
      /\ SentAtMeansParked /\ \A p \in Procs : ParkingAt(p)
  BY DEF Typed, Parking
\* The row and the keys.
<1>1. /\ Lasting
      /\ ~Exists' => ~sentAt'
      /\ sentAt' => sentAt \/ \E p \in Procs : CompleteEmpty(p) \/ StampSentAt(p)
  <2> DEFINE Kept == Lasting /\ (~Exists' => ~sentAt') /\ (sentAt' => sentAt)
  <2>1. CASE UNCHANGED vars \/ TimePasses
    BY <1>0, <2>1 DEF vars, row, history, TimePasses, Lasting, Exists
  <2>2. CASE Cancel
    BY <1>0, <2>2 DEF Cancel, BypassesCopy, Lasting, Exists
  <2>3. ASSUME NEW p \in Procs, Quiet(p) PROVE Kept
    BY <1>0, <2>3, QuietStill DEF Still, row, history, Lasting, Exists
  <2>4. ASSUME NEW p \in Procs, Editing(p) PROVE Kept
    <3>1. PICK n \in 0 .. MaxBatches, date \in {"none", "later"} : Edit(p, n, date)
      BY <2>4, Zenon DEF Editing
    <3>2. batches' = n /\ status' = status /\ Exists /\ sentAt' = sentAt /\ keys' = keys
      BY <3>1 DEF Edit
    <3>3. ~edited' => ~edited /\ (n # batches => ~sentAt /\ \A q \in Procs : ~Starting(q))
      BY <3>1, Zenon DEF Edit
    <3> QED
      BY <1>0, <3>2, <3>3, Zenon DEF Lasting, Exists
  <2>5. ASSUME NEW p \in Procs, CompleteEmpty(p)
        PROVE  Lasting /\ (~Exists' => ~sentAt')
    BY <2>5 DEF CompleteEmpty, BypassesCopy, Lasting, Exists
  <2>6. ASSUME NEW p \in Procs, StampSentAt(p)
        PROVE  Lasting /\ (~Exists' => ~sentAt')
    BY <2>6 DEF StampSentAt, Lasting, Exists, history
  <2>7. ASSUME NEW p \in Procs, Delete(p) PROVE Kept
    BY <2>7 DEF Delete, Lasting, Exists
  <2>8. ASSUME NEW p \in Procs,
               EnqueueCopy(p) \/ CopyStatus(p) \/ ParkBatch(p) \/ Announce(p) \/ Send(p)
        PROVE  Kept
    BY <1>0, <2>8 DEF EnqueueCopy, CopyStatus, ParkBatch, Announce, Send, Lasting, Exists, row, history
  <2>9. ASSUME NEW p \in Procs, CompleteCampaign(p) PROVE Kept
    BY <1>0, <2>9 DEF CompleteCampaign, BypassesCopy, Lasting, Exists
  <2>10. ASSUME NEW p \in Procs, EnqueueWrite(p) \/ WriteStatus(p) PROVE Kept
    <3>1. proc[p].target # "gone"
      BY <1>0 DEF ProcTypes, Record, Statuses
    <3>2. /\ Exists /\ status' \in {"SENDING", proc[p].target}
          /\ UNCHANGED <<sentAt, batches, keys, edited>>
      BY <2>10 DEF EnqueueWrite, WriteStatus, WritesStatus
    <3> QED
      BY <1>0, <3>1, <3>2 DEF Lasting, Exists
  <2> HIDE DEF Kept
  <2>11. ASSUME NEW p \in Procs, Kept
         PROVE  /\ Lasting
                /\ ~Exists' => ~sentAt'
                /\ sentAt' => sentAt \/ \E q \in Procs : CompleteEmpty(q) \/ StampSentAt(q)
    BY <2>11 DEF Kept
  <2> QED
    BY <2>1, <2>2, <2>3, <2>4, <2>5, <2>6, <2>7, <2>8, <2>9, <2>10, <2>11, Loud
\* The processes.
<1>2. \A q \in Procs : ParkingAt(q)'
  <2>1. CASE UNCHANGED vars \/ Cancel
    <3>1. proc' = proc
      BY <2>1 DEF vars, Cancel
    <3> QED
      BY <1>0, <1>1, <3>1, ParkingKept
  <2>2. CASE TimePasses
    BY <1>0, <1>1, <2>2, TimeMoves, ParkingKept
  <2>3. ASSUME NEW p \in Procs, EndSteps(p) \/ GoSteps(p) \/ AskSteps(p) \/ Others(p),
               NEW q \in Procs
        PROVE  ParkingAt(q)'
    <3>1. CASE q # p
      <4>1. proc'[q] = proc[q]
        BY <2>3, <3>1, ProcStep DEF Moved
      <4> QED
        BY <1>0, <1>1, <4>1, ParkingKept
    <3>2. CASE q = p /\ ~LoadRecipients(p) /\ ~ParkBatch(p)
      BY <2>3, <3>2, Starters DEF Starting, ParkingAt
    <3>3. CASE q = p /\ LoadRecipients(p)
      <4>1. /\ proc'[p].at = IF batches = 0 THEN "empty" ELSE "park"
            /\ proc'[p].next = 1 /\ proc'[p].last = batches
        BY <1>0, <3>3, LoadMoves
      <4>2. UNCHANGED <<batches, keys>>
        BY <3>3 DEF LoadRecipients
      <4> QED
        BY <3>3, <4>1, <4>2 DEF ParkingAt
    <3>4. CASE q = p /\ ParkBatch(p)
      <4> DEFINE n == proc[p].next
                 m == proc[p].last
      <4>1. /\ proc'[p].at = IF n < m THEN "park" ELSE "stamp"
            /\ proc'[p].next = n + 1 /\ proc'[p].last = m
            /\ n \in 1 .. m /\ m \in 0 .. MaxBatches /\ MaxBatches \in Nat
        BY <1>0, <3>4, ParkMoves, CampaignAssumption
      <4>2. /\ batches' = batches /\ proc[p].at = "park" /\ keys' = keys \union {<<ParkPrefix, n>>}
            /\ edited' = edited /\ status' = status
        BY <3>4 DEF ParkBatch, row, history
      <4>3. Exists /\ ~edited => m = batches /\ \A k \in 1 .. n - 1 : Parked(k)
        BY <1>0, <4>2 DEF ParkingAt
      <4>4. Exists /\ ~edited => \A k \in 1 .. n : Parked(k)'
        BY <4>1, <4>2, <4>3 DEF Parked
      <4>5. n + 1 - 1 = n
        BY <4>1
      <4> HIDE DEF n, m
      <4> QED
        BY <3>4, <4>1, <4>2, <4>3, <4>4, <4>5 DEF ParkingAt, Exists
    <3> QED
      BY <3>1, <3>2, <3>3, <3>4
  <2> QED
    BY <2>1, <2>2, <2>3, StepKinds
\* Whoever notes that the campaign was sent.
<1>3. SentAtMeansParked'
  <2>1. ASSUME NEW p \in Procs, CompleteEmpty(p) PROVE SentAtMeansParked'
    <3>1. Exists /\ edited' = edited /\ batches' = batches /\ proc[p].at = "empty"
      BY <2>1 DEF CompleteEmpty, BypassesCopy
    <3>2. ~edited' => batches' = 0
      BY <1>0, <3>1 DEF ParkingAt
    <3> QED
      BY <3>2 DEF SentAtMeansParked
  <2>2. ASSUME NEW p \in Procs, StampSentAt(p) PROVE SentAtMeansParked'
    <3>1. /\ Exists /\ edited' = edited /\ batches' = batches /\ keys' = keys
          /\ proc[p].at = "stamp"
      BY <2>2 DEF StampSentAt, history
    <3>2. ~edited => \A n \in 1 .. batches : Parked(n)
      BY <1>0, <3>1 DEF ParkingAt
    <3> QED
      BY <3>1, <3>2 DEF SentAtMeansParked, Parked
  <2>3. CASE sentAt' => sentAt
    BY <1>0, <1>1, <2>3, SentKept
  <2> QED
    BY <1>1, <2>1, <2>2, <2>3
<1> QED
  BY <1>1, <1>2, <1>3 DEF Parking

\* SentAtMeansParked: a campaign that says when it was sent has every batch in
\* Redis, however starts, cancels, edits, removals and failures cross.
\* (startSendingCampaign, update)
THEOREM SentIsParked == Spec => []SentAtMeansParked
<1>1. Init => Typed /\ Parking
  BY TypeInit DEF Init, Parking, ParkingAt, SentAtMeansParked, Idle
<1>2. Typed /\ Parking /\ [Next]_vars => (Typed /\ Parking)'
  BY TypeStep, ParkingStep
<1>3. Parking => SentAtMeansParked
  BY DEF Parking
<1> QED
  BY <1>1, <1>2, <1>3, PTL DEF Spec
(***************************************************************************)
(* Who announces                                                           *)
(***************************************************************************)

Clear == ~overlapped /\ ~reopened /\ faults = 0

Announcing(p) == p \in Users /\ proc[p].at = "announce"
Announced(p) == p \in Users /\ proc[p].at \in {"read", "write"} /\ proc[p].target = "SENDING"

\* The message is sent by one who found a DRAFT, and the campaign is a DRAFT no
\* longer than he needs to write SENDING.
Announces ==
  /\ \A p \in Procs : proc[p].at = "announce" => p \in Users
  /\ Clear =>
       /\ announced <= 1
       /\ \A p, q \in Users : Announcing(p) /\ Announcing(q) => p = q
       /\ \A p \in Users : Announcing(p) => announced = 0
       /\ announced > 0 => status # "DRAFT" \/ \E q \in Users : Announced(q)

\* What a step that neither begins a send nor announces leaves of it.
Hushed ==
  /\ announced' = announced
  /\ Clear' => Clear /\ (status' = "DRAFT" => status = "DRAFT")
  /\ \A q \in Procs : proc'[q].at = "announce" => proc[q].at = "announce"
  /\ \A q \in Users : Clear' /\ status' = "DRAFT" /\ Announced(q) => Announced(q)'

\* Such a step keeps Announces.
LEMMA HushedKeeps == Announces /\ Hushed => Announces'
<1> SUFFICES ASSUME Announces, Hushed PROVE Announces'
  OBVIOUS
<1>1. \A p \in Users : Announcing(p)' => Announcing(p)
  BY DEF Hushed, Announcing, Procs
<1>2. ASSUME Clear', announced' > 0 PROVE status' # "DRAFT" \/ \E q \in Users : Announced(q)'
  <2>1. announced > 0 /\ Clear
    BY <1>2 DEF Hushed
  <2>2. CASE status' = "DRAFT"
    <3>1. PICK q \in Users : Announced(q)
      BY <1>2, <2>1, <2>2 DEF Hushed, Announces
    <3> QED
      BY <1>2, <2>2, <3>1 DEF Hushed
  <2> QED
    BY <2>2
<1>3. \A p \in Procs : proc'[p].at = "announce" => p \in Users
  BY DEF Hushed, Announces
<1>4. Clear' => Clear /\ announced' = announced
  BY DEF Hushed
<1> HIDE DEF Clear, Announcing, Announced, Hushed
<1> QED
  BY <1>1, <1>2, <1>3, <1>4 DEF Announces

\* The causes stay, and DRAFT is not written without one.
LEMMA CausesStay ==
  ASSUME Typed, [Next]_vars
  PROVE  /\ Clear' => Clear /\ (status' = "DRAFT" => status = "DRAFT")
         /\ announced' = announced \/ \E p \in Procs : Announce(p)
<1> DEFINE Stays == /\ announced' = announced
                    /\ Clear' => Clear /\ (status' = "DRAFT" => status = "DRAFT")
<1>0. faults \in Nat
  BY CampaignAssumption DEF Typed, RowTypes
<1>1. CASE UNCHANGED vars \/ TimePasses
  BY <1>1 DEF vars, row, history, TimePasses, Clear
<1>2. CASE Cancel
  BY <1>2 DEF Cancel, BypassesCopy, Clear
<1>3. ASSUME NEW p \in Procs, Quiet(p) PROVE Stays
  <2>1. Still /\ (faults' = 0 => faults = 0)
    BY <1>0, <1>3, QuietStill DEF CallFails
  <2> QED
    BY <2>1 DEF Still, row, history, Clear
<1>4. ASSUME NEW p \in Procs, Editing(p) PROVE Stays
  BY <1>4 DEF Editing, Edit, Clear
<1>5. ASSUME NEW p \in Procs, CompleteEmpty(p) \/ CompleteCampaign(p) PROVE Stays
  <2>1. BypassesCopy("COMPLETED") /\ announced' = announced /\ faults' = faults
    BY <1>5 DEF CompleteEmpty, CompleteCampaign
  <2>2. (reopened => reopened') /\ overlapped' = overlapped /\ status' = "COMPLETED"
    BY <2>1, Zenon DEF BypassesCopy
  <2> QED
    BY <2>1, <2>2 DEF Clear
<1>6. ASSUME NEW p \in Procs,
             StampSentAt(p) \/ Delete(p) \/ EnqueueCopy(p) \/ CopyStatus(p) \/ ParkBatch(p)
      PROVE  Stays
  BY <1>6 DEF StampSentAt, Delete, EnqueueCopy, CopyStatus, ParkBatch, row, history, Clear
<1>7. ASSUME NEW p \in Procs, Send(p) PROVE Stays
  <2>1. overlapped => overlapped'
    BY <1>7, Zenon DEF Send
  <2> QED
    BY <1>7, <2>1 DEF Send, row, Clear
<1>8. ASSUME NEW p \in Procs, EnqueueWrite(p) \/ WriteStatus(p) PROVE Stays
  <2>1. PICK new : WritesStatus(p, new) /\ announced' = announced /\ faults' = faults
    BY <1>8 DEF EnqueueWrite, WriteStatus
  <2>2. /\ reopened => reopened'
        /\ new = "DRAFT" /\ status # "DRAFT" => reopened'
        /\ overlapped' = overlapped /\ status' = new
    BY <2>1, Zenon DEF WritesStatus
  <2> QED
    BY <2>1, <2>2 DEF Clear
<1>9. ASSUME NEW p \in Procs, Announce(p)
      PROVE  Clear' => Clear /\ (status' = "DRAFT" => status = "DRAFT")
  BY <1>9 DEF Announce, row, history, Clear
<1> HIDE DEF Stays
<1>10. ASSUME NEW p \in Procs, Stays
       PROVE  /\ Clear' => Clear /\ (status' = "DRAFT" => status = "DRAFT")
              /\ announced' = announced \/ \E q \in Procs : Announce(q)
  BY <1>10 DEF Stays
<1> QED
  BY <1>1, <1>2, <1>3, <1>4, <1>5, <1>6, <1>7, <1>8, <1>9, <1>10, Loud

\* Who comes to announce, or is past it, by a step of his own.
LEMMA Announcers ==
  ASSUME Typed, NEW p \in Procs, EndSteps(p) \/ GoSteps(p) \/ AskSteps(p) \/ Others(p)
  PROVE  proc'[p].at = "announce" => Send(p)
<1>0. ProcTypes /\ RowTypes
  BY DEF Typed
<1>1. CASE EndSteps(p) \/ AskSteps(p)
  BY <1>1, ProcStep
<1>2. CASE GoSteps(p)
  <2>1. Send(p) \/ \E at \in {"delete", "enqueue", "enqueueCopy", "keys"} : Goes(p, at)
    BY <1>2 DEF GoSteps, Remove, EnqueueCampaign, EnqueueWrite, ProcessCampaign
  <2> QED
    BY <1>0, <2>1, GoesMove DEF Steps
<1>3. CASE CopyStatus(p) \/ FindBatch(p)
  <2>1. Ends(p) \/ Goes(p, "load") \/ Goes(p, "complete")
    BY <1>3 DEF CopyStatus, FindBatch
  <2> QED
    BY <1>0, <2>1, GoesMove, EndsMove DEF Steps
<1>4. CASE ReadStatus(p) \/ WriteStatus(p) \/ Announce(p) \/ LoadRecipients(p) \/ ParkBatch(p)
  BY <1>0, <1>4, ReadMoves, WriteMoves, AnnounceMoves, LoadMoves, ParkMoves
<1> QED
  BY <1>1, <1>2, <1>3, <1>4 DEF Others

\* One who has announced goes on to write SENDING unless the campaign is no DRAFT.
LEMMA Speakers ==
  ASSUME Typed, NEW p \in Procs, EndSteps(p) \/ GoSteps(p) \/ AskSteps(p) \/ Others(p),
         Announced(p), Clear', status' = "DRAFT"
  PROVE  Announced(p)'
<1>0. /\ ProcTypes /\ RowTypes /\ faults \in Nat /\ p \in Users
      /\ proc[p].at \in {"read", "write"} /\ proc[p].target = "SENDING"
  BY CampaignAssumption DEF Typed, RowTypes, Announced
<1>1. ReadStatus(p) \/ WriteStatus(p) \/ RowGone(p) \/ CallFails(p)
  <2>1. ~AskSteps(p)
    BY <1>0, ProcStep
  <2>2. ~GoSteps(p)
    BY <1>0 DEF GoSteps, Send, Remove, EnqueueCampaign, EnqueueWrite, ProcessCampaign
  <2>3. ~Editing(p)
    BY <1>0 DEF Editing, Edit
  <2> QED
    BY <1>0, <2>1, <2>2, <2>3 DEF EndSteps, Others, Editing, CompleteEmpty, StampSentAt, Delete,
       DeleteRefused, EnqueueCopy, CompleteCampaign, CopyStatus, FindBatch, LoadRecipients,
       ParkBatch, Announce
<1>2. CASE ReadStatus(p)
  <2>1. proc[p].target \in Allowed(status)
    BY <1>0, <1>2 DEF ReadStatus, row, Allowed
  <2>2. proc' = [proc EXCEPT ![p].at = "write",
                             ![p].date = IF @ = "none" THEN scheduledAt ELSE @]
    BY <1>2, <2>1 DEF ReadStatus
  <2>3. proc'[p].at = "write" /\ proc'[p].target = proc[p].target
    BY <1>0, <2>2 DEF ProcTypes, Record
  <2> QED
    BY <1>0, <2>3 DEF Announced
<1>3. CASE WriteStatus(p)
  BY <1>0, <1>3 DEF WriteStatus, WritesStatus
<1>4. CASE RowGone(p)
  BY <1>4 DEF RowGone, Exists, row
<1>5. CASE CallFails(p)
  BY <1>0, <1>5 DEF CallFails, Clear
<1> QED
  BY <1>1, <1>2, <1>3, <1>4, <1>5

\* Announces is inductive.
LEMMA AnnouncesStep == Typed /\ Announces /\ [Next]_vars => Announces'
<1> SUFFICES ASSUME Typed, Announces, [Next]_vars PROVE Announces'
  OBVIOUS
<1>0. ProcTypes /\ RowTypes /\ announced \in 0 .. 2
  BY DEF Typed, RowTypes
<1>1. CASE \A p \in Procs : ~Send(p) /\ ~Announce(p)
  <2>1. /\ announced' = announced
        /\ Clear' => Clear /\ (status' = "DRAFT" => status = "DRAFT")
    BY <1>1, CausesStay
  <2>2. CASE \A q \in Procs : proc'[q].at = proc[q].at /\ proc'[q].target = proc[q].target
    <3>1. Hushed
      BY <2>1, <2>2 DEF Hushed, Announced, Procs
    <3> QED
      BY <3>1, HushedKeeps
  <2>3. CASE UNCHANGED vars \/ Cancel \/ TimePasses
    <3>1. proc' = proc \/ TimePasses
      BY <2>3 DEF vars, Cancel
    <3> QED
      BY <1>0, <2>2, <3>1, TimeMoves
  <2>4. ASSUME NEW p \in Procs, EndSteps(p) \/ GoSteps(p) \/ AskSteps(p) \/ Others(p)
        PROVE  Announces'
    <3>1. \A q \in Procs \ {p} : proc'[q] = proc[q]
      BY <2>4, ProcStep DEF Moved
    <3>2. proc'[p].at # "announce"
      BY <1>1, <2>4, Announcers
    <3>3. ASSUME NEW q \in Users, Clear', status' = "DRAFT", Announced(q)
          PROVE  Announced(q)'
      <4>1. CASE q = p
        BY <2>4, <3>3, <4>1, Speakers
      <4>2. CASE q # p
        BY <3>1, <3>3, <4>2 DEF Announced, Procs
      <4> QED
        BY <4>1, <4>2
    <3>4. \A q \in Procs : proc'[q].at = "announce" => proc[q].at = "announce"
      BY <3>1, <3>2
    <3>5. Hushed
      BY <2>1, <3>3, <3>4 DEF Hushed
    <3> QED
      BY <3>5, HushedKeeps
  <2> QED
    BY <2>3, <2>4, StepKinds
<1>2. ASSUME NEW p \in Procs, Send(p) PROVE Announces'
  <2>1. /\ p \in Users /\ proc[p].at = "idle" /\ status = "DRAFT" /\ status' = status
        /\ announced' = announced /\ Goes(p, "announce") /\ UNCHANGED <<reopened, faults>>
    BY <1>2 DEF Send, row
  <2>2. Moved(p) /\ proc'[p].at = "announce"
    BY <1>0, <2>1, GoesMove DEF Steps
  <2>3. Clear' => Clear /\ \A q \in Users \ {p} : ~Sending(q)
    <3>1. ~overlapped' => ~overlapped /\ \A q \in Users \ {p} : ~Sending(q)
      BY <1>2, Zenon DEF Send
    <3> QED
      BY <2>1, <3>1 DEF Clear
  <2>4. Clear' => announced = 0
    BY <1>0, <2>1, <2>3 DEF Announces, Announced, Sending
  <2>5. Clear' => \A q \in Users : Announcing(q)' => q = p
    BY <2>2, <2>3 DEF Moved, Announcing, Sending, Procs
  <2>6. \A q \in Procs : proc'[q].at = "announce" => q \in Users
    BY <2>1, <2>2 DEF Moved, Announces
  <2> HIDE DEF Clear, Announcing
  <2> QED
    BY <2>1, <2>4, <2>5, <2>6 DEF Announces
<1>3. ASSUME NEW p \in Procs, Announce(p) PROVE Announces'
  <2>1. /\ proc[p].at = "announce" /\ UNCHANGED <<status, overlapped, reopened, faults>>
        /\ announced' = IF announced = 2 THEN 2 ELSE announced + 1
    BY <1>3 DEF Announce, row, history
  <2>2. Moved(p) /\ proc'[p].at = "read" /\ proc'[p].target = "SENDING"
    BY <1>0, <1>3, AnnounceMoves
  <2>3. p \in Users /\ Announcing(p)
    BY <2>1 DEF Announces, Announcing
  <2>4. Clear' => Clear
    BY <2>1 DEF Clear
  <2>5. Clear' => announced = 0 /\ announced' = 1 /\ \A q \in Users : Announcing(q) => q = p
    BY <2>1, <2>3, <2>4 DEF Announces
  <2>6. Clear' => \A q \in Users : ~Announcing(q)'
    BY <2>2, <2>5 DEF Moved, Announcing, Procs
  <2>7. Announced(p)'
    BY <2>2, <2>3 DEF Announced
  <2>8. \A q \in Procs : proc'[q].at = "announce" => q \in Users
    BY <2>2 DEF Moved, Announces
  <2> HIDE DEF Clear, Announcing, Announced
  <2> QED
    BY <2>3, <2>5, <2>6, <2>7, <2>8 DEF Announces
<1> QED
  BY <1>1, <1>2, <1>3

\* AnnouncedTwiceHasCause: MAIL_QUEUE hears twice of a campaign only after sends
\* that overlapped, a failure, or a way back to DRAFT. (send, cancel)
THEOREM AnnouncedOnce == Spec => []AnnouncedTwiceHasCause
<1>1. Init => Typed /\ Announces
  <2> SUFFICES ASSUME Init PROVE Announces
    BY TypeInit
  <2>1. announced = 0 /\ \A p \in Procs : proc[p].at = "idle"
    BY DEF Init, Idle
  <2> QED
    BY <2>1 DEF Announces, Announcing, Procs
<1>2. Typed /\ Announces /\ [Next]_vars => (Typed /\ Announces)'
  BY TypeStep, AnnouncesStep
<1>3. Typed /\ Announces => AnnouncedTwiceHasCause
  <2> SUFFICES ASSUME Typed, Announces, announced = 2, ~overlapped, ~reopened, ~(faults > 0)
               PROVE  FALSE
    BY DEF AnnouncedTwiceHasCause
  <2>1. faults = 0
    BY CampaignAssumption DEF Typed, RowTypes
  <2> QED
    BY <2>1 DEF Announces, Clear
<1> QED
  BY <1>1, <1>2, <1>3, PTL DEF Spec
(***************************************************************************)
(* The copy in Redis                                                       *)
(***************************************************************************)

\* The last write of status is one that a copy follows, and met no other's.
Straight == Exists /\ ~bypassed /\ ~crossed /\ faults = 0

\* What a process that wrote the status is about to copy.
CopyOf(p) == IF proc[p].at = "copy" THEN proc[p].target ELSE "SENDING"

Copies ==
  Straight =>
    /\ \A p \in Procs : CopyDue(p) => CopyOf(p) = status
    /\ (\A p \in Procs : ~CopyDue(p)) => copy = status

Copying(p) == WriteStatus(p) \/ EnqueueWrite(p) \/ CopyStatus(p) \/ EnqueueCopy(p)

\* Steps that neither write a status to be copied nor copy it.
LEMMA Bystanders ==
  ASSUME Typed, NEW p \in Procs, EndSteps(p) \/ GoSteps(p) \/ AskSteps(p) \/ Others(p),
         ~Copying(p), ~CallFails(p)
  PROVE  ~CopyDue(p) /\ ~CopyDue(p)'
<1>0. ProcTypes /\ RowTypes
  BY DEF Typed
<1>1. CASE AskSteps(p)
  BY <1>1, ProcStep DEF CopyDue
<1>2. CASE EndSteps(p)
  <2>1. proc'[p].at \in {"idle", "done"}
    BY <1>2, ProcStep
  <2>2. proc[p].at \notin {"copy", "enqueueCopy"}
    <3>1. Editing(p) => proc[p].at = "idle"
      BY DEF Editing, Edit
    <3> QED
      BY <1>2, <3>1 DEF EndSteps, Editing, Copying, CompleteEmpty, StampSentAt, Delete,
         DeleteRefused, CompleteCampaign, RowGone
  <2> QED
    BY <2>1, <2>2 DEF CopyDue
<1>3. CASE GoSteps(p)
  <2>1. /\ \E at \in {"announce", "delete", "enqueue", "keys"} : Goes(p, at)
        /\ proc[p].at = "idle"
    BY <1>3 DEF GoSteps, Send, Remove, EnqueueCampaign, ProcessCampaign, Copying
  <2> QED
    BY <1>0, <2>1, GoesMove DEF Steps, CopyDue
<1>4. CASE FindBatch(p)
  <2>1. (Ends(p) \/ Goes(p, "complete")) /\ proc[p].at = "keys"
    BY <1>4 DEF FindBatch
  <2> QED
    BY <1>0, <2>1, GoesMove, EndsMove DEF Steps, CopyDue
<1>5. CASE ReadStatus(p) \/ Announce(p) \/ LoadRecipients(p) \/ ParkBatch(p)
  <2>1. proc'[p].at \in {"idle", "done", "write", "read", "empty", "park", "stamp"}
    BY <1>0, <1>5, ReadMoves, AnnounceMoves, LoadMoves, ParkMoves
  <2>2. proc[p].at \in {"read", "announce", "load", "park"}
    BY <1>5 DEF ReadStatus, Announce, LoadRecipients, ParkBatch
  <2> QED
    BY <2>1, <2>2 DEF CopyDue
<1> QED
  BY <1>1, <1>2, <1>3, <1>4, <1>5 DEF Others, Copying

\* They leave the copy, and the status unless the write is noted.
LEMMA CopyStays ==
  ASSUME Typed, [Next]_vars, \A p \in Procs : ~Copying(p)
  PROVE  copy' = copy /\ (Straight' => Straight /\ status' = status)
<1> DEFINE Stays == copy' = copy /\ (Straight' => Straight /\ status' = status)
<1>0. faults \in Nat
  BY CampaignAssumption DEF Typed, RowTypes
<1>1. ASSUME NEW new, BypassesCopy(new), Exists, copy' = copy, faults' = faults PROVE Stays
  <2>1. ~bypassed' => ~bypassed /\ status' = status
    BY <1>1, Zenon DEF BypassesCopy
  <2>2. crossed' = crossed
    BY <1>1 DEF BypassesCopy
  <2> QED
    BY <1>1, <2>1, <2>2 DEF Straight, Exists
<1>2. CASE UNCHANGED vars \/ TimePasses
  BY <1>2 DEF vars, row, history, TimePasses, Straight, Exists
<1>3. CASE Cancel
  BY <1>1, <1>3 DEF Cancel
<1>4. ASSUME NEW p \in Procs, Quiet(p) PROVE Stays
  <2>1. Still /\ (faults' = 0 => faults = 0)
    BY <1>0, <1>4, QuietStill DEF CallFails
  <2> QED
    BY <2>1 DEF Still, row, history, Straight, Exists
<1>5. ASSUME NEW p \in Procs, Editing(p) PROVE Stays
  BY <1>5 DEF Editing, Edit, Straight, Exists
<1>6. ASSUME NEW p \in Procs, CompleteEmpty(p) \/ CompleteCampaign(p) PROVE Stays
  BY <1>1, <1>6 DEF CompleteEmpty, CompleteCampaign
<1>7. ASSUME NEW p \in Procs, StampSentAt(p) \/ ParkBatch(p) \/ Announce(p) \/ Send(p) PROVE Stays
  BY <1>7 DEF StampSentAt, ParkBatch, Announce, Send, row, history, Straight, Exists
<1>8. ASSUME NEW p \in Procs, Delete(p) PROVE Stays
  BY <1>8 DEF Delete, Straight, Exists
<1> HIDE DEF Stays
<1>9. Stays
  BY <1>2, <1>3, <1>4, <1>5, <1>6, <1>7, <1>8, Loud DEF Copying, Stays
<1> QED
  BY <1>9 DEF Stays

\* A step that touches no copy keeps Copies.
LEMMA CopiesKept ==
  ASSUME Copies, copy' = copy, Straight' => Straight /\ status' = status,
         \A q \in Procs : (CopyDue(q)' <=> CopyDue(q)) /\ (CopyDue(q) => CopyOf(q)' = CopyOf(q))
  PROVE  Copies'
<1> HIDE DEF Straight, CopyDue, CopyOf
<1> QED
  BY DEF Copies

\* Those who write or copy a status move.
LEMMA CopyingMoves ==
  ASSUME ProcTypes, RowTypes, NEW q \in Procs, Copying(q)
  PROVE  proc'[q] # proc[q]
<1>1. CASE WriteStatus(q)
  <2>1. proc'[q].at = "copy" /\ proc[q].at = "write"
    BY <1>1, WriteMoves DEF WriteStatus
  <2> QED
    BY <2>1
<1>2. CASE EnqueueWrite(q)
  <2>1. Goes(q, "enqueueCopy") /\ proc[q].at = "enqueue"
    BY <1>2 DEF EnqueueWrite
  <2>2. proc'[q].at = "enqueueCopy"
    BY <2>1, GoesMove DEF Steps
  <2> QED
    BY <2>1, <2>2
<1>3. CASE CopyStatus(q) \/ EnqueueCopy(q)
  <2>1. (Ends(q) \/ Goes(q, "load")) /\ proc[q].at \in {"copy", "enqueueCopy"}
    BY <1>3 DEF CopyStatus, EnqueueCopy
  <2>2. proc'[q].at \in {"idle", "done", "load"}
    BY <2>1, EndsMove, GoesMove DEF Steps
  <2> QED
    BY <2>1, <2>2
<1> QED
  BY <1>1, <1>2, <1>3 DEF Copying

\* Copies is inductive.
LEMMA CopiesStep == Typed /\ Copies /\ [Next]_vars => Copies'
<1> SUFFICES ASSUME Typed, Copies, [Next]_vars PROVE Copies'
  OBVIOUS
<1>0. ProcTypes /\ RowTypes /\ faults \in Nat
  BY CampaignAssumption DEF Typed, RowTypes
<1>1. CASE UNCHANGED vars \/ Cancel \/ TimePasses
  <2>1. proc' = proc \/ TimePasses
    BY <1>1 DEF vars, Cancel
  <2>2. \A q \in Procs : proc'[q].at = proc[q].at /\ proc'[q].target = proc[q].target
    BY <1>0, <2>1, TimeMoves
  <2>3. \A q \in Procs : (CopyDue(q)' <=> CopyDue(q)) /\ CopyOf(q)' = CopyOf(q)
    BY <2>2 DEF CopyDue, CopyOf
  <2>4. copy' = copy /\ (Straight' => Straight /\ status' = status)
    <3>1. CASE UNCHANGED vars \/ TimePasses
      BY <3>1 DEF vars, row, history, TimePasses, Straight, Exists
    <3>2. CASE Cancel
      <4>1. ~bypassed' => ~bypassed /\ status' = status
        BY <3>2, Zenon DEF Cancel, BypassesCopy
      <4> QED
        BY <3>2, <4>1 DEF Cancel, BypassesCopy, Straight, Exists
    <3> QED
      BY <1>1, <3>1, <3>2
  <2> QED
    BY <2>3, <2>4, CopiesKept
<1>2. ASSUME NEW p \in Procs, EndSteps(p) \/ GoSteps(p) \/ AskSteps(p) \/ Others(p)
      PROVE  Copies'
  <2>0. \A q \in Procs \ {p} : proc'[q] = proc[q]
    BY <1>2, ProcStep DEF Moved
  <2>1. CASE CallFails(p)
    BY <1>0, <2>1 DEF CallFails, Copies, Straight
  <2>2. CASE WriteStatus(p) \/ EnqueueWrite(p)
    <3>1. WritesStatus(p, CopyOf(p)')
      <4>1. CASE WriteStatus(p)
        BY <1>0, <4>1, WriteMoves DEF CopyOf, WriteStatus
      <4>2. CASE EnqueueWrite(p)
        <5>1. proc'[p].at = "enqueueCopy" /\ WritesStatus(p, "SENDING")
          BY <1>0, <4>2, GoesMove DEF EnqueueWrite, Steps
        <5> QED
          BY <5>1 DEF CopyOf
      <4> QED
        BY <2>2, <4>1, <4>2
    <3>2. CopyDue(p)'
      <4>1. WriteStatus(p) => proc'[p].at = "copy"
        BY <1>0, WriteMoves
      <4>2. EnqueueWrite(p) => proc'[p].at = "enqueueCopy"
        BY <1>0, GoesMove DEF EnqueueWrite, Steps
      <4> QED
        BY <2>2, <4>1, <4>2 DEF CopyDue
    <3>3. status' = CopyOf(p)' /\ (~crossed' => \A q \in Procs \ {p} : ~CopyDue(q))
      BY <3>1, Zenon DEF WritesStatus
    <3>4. ~crossed' => \A q \in Procs \ {p} : ~CopyDue(q)'
      BY <2>0, <3>3 DEF CopyDue
    <3>5. Straight' => ~crossed'
      BY DEF Straight
    <3> HIDE DEF CopyDue, CopyOf, Straight
    <3> QED
      BY <3>2, <3>3, <3>4, <3>5 DEF Copies
  <2>3. CASE CopyStatus(p) \/ EnqueueCopy(p)
    <3>1. CopyDue(p) /\ copy' = CopyOf(p) /\ UNCHANGED <<status, bypassed, crossed, faults>>
      BY <2>3 DEF CopyStatus, EnqueueCopy, CopyDue, CopyOf, row, history
    <3>2. Straight' => Straight
      BY <3>1 DEF Straight, Exists
    <3>3. ~CopyDue(p)'
      <4>1. Ends(p) \/ Goes(p, "load")
        BY <2>3 DEF CopyStatus, EnqueueCopy
      <4>2. proc'[p].at \in {"idle", "done", "load"}
        BY <1>0, <4>1, EndsMove, GoesMove DEF Steps
      <4> QED
        BY <4>2 DEF CopyDue
    <3>4. \A q \in Procs \ {p} : (CopyDue(q)' <=> CopyDue(q)) /\ CopyOf(q)' = CopyOf(q)
      BY <2>0 DEF CopyDue, CopyOf
    <3> HIDE DEF CopyDue, CopyOf, Straight
    <3> QED
      BY <3>1, <3>2, <3>3, <3>4 DEF Copies
  <2>4. CASE ~CallFails(p) /\ ~Copying(p)
    <3>1. ~CopyDue(p) /\ ~CopyDue(p)'
      BY <1>2, <2>4, Bystanders
    <3>2. \A q \in Procs : (CopyDue(q)' <=> CopyDue(q)) /\ (CopyDue(q) => CopyOf(q)' = CopyOf(q))
      BY <2>0, <3>1 DEF CopyDue, CopyOf
    <3>3. \A q \in Procs : ~Copying(q)
      BY <1>0, <2>0, <2>4, CopyingMoves
    <3> QED
      BY <3>2, <3>3, CopyStays, CopiesKept
  <2> QED
    BY <2>1, <2>2, <2>3, <2>4 DEF Copying
<1> QED
  BY <1>1, <1>2, StepKinds

\* StaleCopyHasCause: Redis has the status of the row when no copy is due,
\* unless a write skipped Redis, met another's copy, or a call failed.
\* (updateCampaignStatus, enqueueCampaign)
THEOREM CopyAgrees == Spec => []StaleCopyHasCause
<1>1. Init => Typed /\ Copies
  <2> SUFFICES ASSUME Init PROVE Copies
    BY TypeInit
  <2>1. status = copy /\ \A p \in Procs : proc[p].at = "idle"
    BY DEF Init, Idle
  <2> QED
    BY <2>1 DEF Copies, CopyDue
<1>2. Typed /\ Copies /\ [Next]_vars => (Typed /\ Copies)'
  BY TypeStep, CopiesStep
<1>3. Typed /\ Copies => StaleCopyHasCause
  <2> SUFFICES ASSUME Typed, Copies, Exists, \A p \in Procs : ~CopyDue(p), copy # status,
                      ~bypassed, ~crossed, ~(faults > 0)
               PROVE  FALSE
    BY DEF StaleCopyHasCause
  <2>1. faults = 0
    BY CampaignAssumption DEF Typed, RowTypes
  <2> QED
    BY <2>1 DEF Copies, Straight
<1> QED
  BY <1>1, <1>2, <1>3, PTL DEF Spec
=============================================================================
