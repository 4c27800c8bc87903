--------------------------- MODULE AudienceProofs ---------------------------
(***************************************************************************)
(* Proofs about module Audience, for any number of requests, recipients    *)
(* and failures and any jobs: the type invariant and every safety property *)
(* of the module.                                                          *)
(*                                                                         *)
(* A step is the turn of one request, and writes the tables of one service *)
(* (StepCases). Each property has an invariant of its own, over one        *)
(* request at a time: its step for the request that moves goes through the *)
(* actions, the one for the others only needs what they may see            *)
(* (OthersSee, LockedKept, OthersUpdating).                                *)
(***************************************************************************)
EXTENDS Audience, TLAPS

(***************************************************************************)
(* Where the requests are                                                  *)
(***************************************************************************)

\* What a request may await, by its kind.
RecipientPlaces ==
  {<<"create", "createRecipient">>, <<"createMany", "createRecipients">>,
   <<"find", "import">>, <<"write", "import">>, <<"aborted", "import">>}
GroupPlaces ==
  {<<"insertMembers", "addRecipients">>, <<"deleteMembers", "removeRecipients">>,
   <<"removeGroup", "removeGroup">>}
LinkPlaces ==
  {<<"linkGroup", "createCampaign">>, <<"linkRecipients", "createCampaign">>,
   <<"copyDraft", "createCampaign">>, <<"commitCampaign", "createCampaign">>,
   <<"unlink", "updateCampaign">>, <<"link", "updateCampaign">>,
   <<"late", "updateCampaign">>, <<"commitUpdate", "updateCampaign">>}
Places == RecipientPlaces \union GroupPlaces \union LinkPlaces

Words == {"none", "ok", "refused"}

Typed ==
  /\ job \in [Requests -> Jobs \union {NoJob}]
  /\ at \in [Requests -> Steps]
  /\ answer \in [Requests -> Words]

PlacedAt(c) ==
  /\ at[c] = "idle" => job[c] = NoJob
  /\ at[c] # "idle" => job[c] \in Jobs
  /\ Active(c) => <<at[c], job[c].kind>> \in Places
  /\ at[c] # "done" => answer[c] = "none"

Placed == Typed /\ \A c \in Requests : PlacedAt(c)

\* Request c moves, and no other.
Turn(c) ==
  /\ at[c] # "done" /\ at'[c] # "idle"
  /\ at[c] = "idle" \/ job'[c] = job[c]
  /\ \A d \in Requests \ {c} : at'[d] = at[d] /\ job'[d] = job[d] /\ answer'[d] = answer[d]

\* A call that goes on leaves a request at a place of its kind.
LEMMA GoesOn ==
  ASSUME Placed, NEW c \in Requests, Active(c), UNCHANGED job,
         NEW next \in Steps, <<next, job[c].kind>> \in Places, Goes(c, next)
  PROVE  Placed' /\ Turn(c)
<1>1. at' = [at EXCEPT ![c] = next] /\ answer' = answer /\ job' = job
  BY DEF Goes
<1>2. next \notin {"idle", "done"}
  BY DEF Places, RecipientPlaces, GroupPlaces, LinkPlaces
<1>3. Typed'
  BY <1>1 DEF Placed, Typed
<1>4. \A d \in Requests : PlacedAt(d)'
  <2> SUFFICES ASSUME NEW d \in Requests PROVE PlacedAt(d)'
    OBVIOUS
  <2>1. CASE d = c
    BY <1>1, <1>2, <2>1 DEF Placed, Typed, PlacedAt, Active
  <2>2. CASE d # c
    BY <1>1, <2>2 DEF Placed, Typed, PlacedAt, Active
  <2> QED
    BY <2>1, <2>2
<1>5. Turn(c)
  BY <1>1, <1>2 DEF Turn, Placed, Typed, Active
<1> QED
  BY <1>3, <1>4, <1>5 DEF Placed

\* An answer ends a request.
LEMMA IsAnswered ==
  ASSUME Placed, NEW c \in Requests, Active(c), UNCHANGED job,
         NEW word \in {"ok", "refused"}, Answers(c, word)
  PROVE  Placed' /\ Turn(c)
<1>1. at' = [at EXCEPT ![c] = "done"] /\ answer' = [answer EXCEPT ![c] = word] /\ job' = job
  BY DEF Answers
<1>3. Typed'
  BY <1>1 DEF Placed, Typed, Words, Steps
<1>4. \A d \in Requests : PlacedAt(d)'
  <2> SUFFICES ASSUME NEW d \in Requests PROVE PlacedAt(d)'
    OBVIOUS
  <2>1. CASE d = c
    BY <1>1, <2>1 DEF Placed, Typed, PlacedAt, Active
  <2>2. CASE d # c
    BY <1>1, <2>2 DEF Placed, Typed, PlacedAt, Active
  <2> QED
    BY <2>1, <2>2
<1>5. Turn(c)
  BY <1>1 DEF Turn, Placed, Typed, Active
<1> QED
  BY <1>3, <1>4, <1>5 DEF Placed

\* A request that begins and goes on is at a place of its kind.
LEMMA BeginsAndGoes ==
  ASSUME Placed, NEW c \in Requests, NEW j \in Jobs, NEW kind, Begins(c, j, kind),
         NEW next \in Steps, <<next, kind>> \in Places, Goes(c, next)
  PROVE  Placed' /\ Turn(c) /\ job'[c] = j
<1>1. /\ at' = [at EXCEPT ![c] = next] /\ answer' = answer
      /\ job' = [job EXCEPT ![c] = j] /\ at[c] = "idle" /\ j.kind = kind
  BY DEF Goes, Begins
<1>2. next \notin {"idle", "done"}
  BY DEF Places, RecipientPlaces, GroupPlaces, LinkPlaces
<1>3. Typed'
  BY <1>1 DEF Placed, Typed
<1>4. \A d \in Requests : PlacedAt(d)'
  <2> SUFFICES ASSUME NEW d \in Requests PROVE PlacedAt(d)'
    OBVIOUS
  <2>1. CASE d = c
    BY <1>1, <1>2, <2>1 DEF Placed, Typed, PlacedAt, Active
  <2>2. CASE d # c
    BY <1>1, <2>2 DEF Placed, Typed, PlacedAt, Active
  <2> QED
    BY <2>1, <2>2
<1>5. Turn(c) /\ job'[c] = j
  BY <1>1, <1>2 DEF Turn, Placed, Typed
<1> QED
  BY <1>3, <1>4, <1>5 DEF Placed

\* A request of a single call ends where it begins.
LEMMA BeginsAndEnds ==
  ASSUME Placed, NEW c \in Requests, NEW j \in Jobs, NEW kind, Begins(c, j, kind),
         NEW word \in {"ok", "refused"}, Answers(c, word)
  PROVE  Placed' /\ Turn(c) /\ job'[c] = j
<1>1. /\ at' = [at EXCEPT ![c] = "done"] /\ answer' = [answer EXCEPT ![c] = word]
      /\ job' = [job EXCEPT ![c] = j] /\ at[c] = "idle"
  BY DEF Answers, Begins
<1>3. Typed'
  BY <1>1 DEF Placed, Typed, Words, Steps
<1>4. \A d \in Requests : PlacedAt(d)'
  <2> SUFFICES ASSUME NEW d \in Requests PROVE PlacedAt(d)'
    OBVIOUS
  <2>1. CASE d = c
    BY <1>1, <2>1 DEF Placed, Typed, PlacedAt, Active
  <2>2. CASE d # c
    BY <1>1, <2>2 DEF Placed, Typed, PlacedAt, Active
  <2> QED
    BY <2>1, <2>2
<1>5. Turn(c) /\ job'[c] = j
  BY <1>1 DEF Turn, Placed, Typed
<1> QED
  BY <1>3, <1>4, <1>5 DEF Placed

\* A call succeeds and the request goes on, or it is refused.
LEMMA GoesIfCases ==
  ASSUME Placed, NEW c \in Requests, NEW ok \in BOOLEAN, NEW next, GoesIf(c, ok, next)
  PROVE  (ok /\ Goes(c, next)) \/ (~ok /\ Answers(c, "refused"))
BY DEF Placed, Typed, GoesIf, Goes, Answers

\* How each request begins: at a place of its kind, or at its end.
LEMMA Starts ==
  ASSUME Placed, NEW c \in Requests, NEW j \in Jobs,
         RecipientRequest(c, j) \/ GroupRequest(c, j) \/ LinkRequest(c, j)
  PROVE  Placed' /\ Turn(c) /\ job'[c] = j /\ at[c] = "idle"
<1> USE DEF Places, RecipientPlaces, GroupPlaces, LinkPlaces, Steps
<1>1. CASE CreateRecipient(c, j)
  BY <1>1, GoesIfCases, BeginsAndGoes, BeginsAndEnds DEF CreateRecipient, Begins
<1>2. CASE CreateRecipients(c, j)
  BY <1>2, BeginsAndGoes, BeginsAndEnds DEF CreateRecipients, Begins
<1>3. CASE ImportRecipientsFromCsv(c, j)
  BY <1>3, GoesIfCases, BeginsAndGoes, BeginsAndEnds DEF ImportRecipientsFromCsv, Begins
<1>4. CASE UpdateRecipientStatus(c, j)
  BY <1>4, BeginsAndEnds DEF UpdateRecipientStatus, Begins, AnswersIf
<1>5. CASE RemoveRecipient(c, j)
  BY <1>5, BeginsAndEnds DEF RemoveRecipient, Begins, AnswersIf
<1>6. CASE AddRecipients(c, j)
  BY <1>6, GoesIfCases, BeginsAndGoes, BeginsAndEnds DEF AddRecipients, FindGroup, Begins
<1>7. CASE RemoveRecipients(c, j)
  BY <1>7, GoesIfCases, BeginsAndGoes, BeginsAndEnds DEF RemoveRecipients, FindGroup, Begins
<1>8. CASE AddRecipientsToGroup(c, j)
  BY <1>8, BeginsAndEnds DEF AddRecipientsToGroup, Joins, Begins, AnswersIf
<1>9. CASE RemoveGroup(c, j)
  BY <1>9, BeginsAndGoes DEF RemoveGroup, Begins
<1>10. CASE CreateCampaign(c, j)
  BY <1>10, BeginsAndGoes DEF CreateCampaign, AfterGroup, Begins
<1>11. CASE UpdateCampaign(c, j)
  BY <1>11, GoesIfCases, BeginsAndGoes, BeginsAndEnds DEF UpdateCampaign, Begins
<1> QED
  BY <1>1, <1>2, <1>3, <1>4, <1>5, <1>6, <1>7, <1>8, <1>9, <1>10, <1>11
     DEF RecipientRequest, GroupRequest, LinkRequest

\* Every step of a request that is under way leaves it at a place of its kind.
LEMMA StepTurns ==
  ASSUME Placed, NEW c \in Requests,
         RecipientStep(c) \/ GroupStep(c) \/ LinkStep(c) \/ RequestFails(c)
  PROVE  Placed' /\ Turn(c) /\ Active(c) /\ job' = job
<1> USE DEF Places, RecipientPlaces, GroupPlaces, LinkPlaces, Steps
<1>0. Placed /\ PlacedAt(c)
  BY DEF Placed
<1>1. CASE InsertRecipient(c)
  BY <1>0, <1>1, IsAnswered DEF InsertRecipient, AnswersIf, PlacedAt, Active
<1>2. CASE InsertRecipients(c)
  BY <1>0, <1>2, IsAnswered DEF InsertRecipients, PlacedAt, Active
<1>3. CASE InsertRecipientsFails(c)
  BY <1>0, <1>3, IsAnswered DEF InsertRecipientsFails, PlacedAt, Active
<1>4. CASE SkipLine(c)
  BY <1>0, <1>4, GoesOn DEF SkipLine, NextLine, PlacedAt, Active
<1>5. CASE FindLine(c)
  BY <1>0, <1>5, GoesOn DEF FindLine, PlacedAt, Active
<1>6. CASE WriteLine(c)
  BY <1>0, <1>6, GoesOn DEF WriteLine, NextLine, PlacedAt, Active
<1>7. CASE RowGone(c)
  BY <1>0, <1>7, GoesOn DEF RowGone, NextLine, PlacedAt, Active
<1>8. CASE DuplicateEmail(c)
  BY <1>0, <1>8, GoesOn DEF DuplicateEmail, Aborts, PlacedAt, Active
<1>9. CASE DeadlockDetected(c)
  BY <1>0, <1>9, GoesOn DEF DeadlockDetected, Aborts, WaitsFor, InTransaction, PlacedAt, Active
<1>10. CASE StatementFails(c)
  BY <1>0, <1>10, GoesOn DEF StatementFails, Aborts, InTransaction, PlacedAt, Active
<1>11. CASE Commit(c)
  BY <1>0, <1>11, IsAnswered DEF Commit, InTransaction, PlacedAt, Active
<1>12. CASE CommitAborted(c)
  BY <1>0, <1>12, IsAnswered DEF CommitAborted, PlacedAt, Active
<1>13. CASE InsertMembers(c)
  BY <1>0, <1>13, IsAnswered DEF InsertMembers, Joins, AnswersIf, PlacedAt, Active
<1>14. CASE DeleteMembers(c)
  BY <1>0, <1>14, IsAnswered DEF DeleteMembers, PlacedAt, Active
<1>15. CASE DeleteGroup(c)
  BY <1>0, <1>15, IsAnswered DEF DeleteGroup, AnswersIf, PlacedAt, Active
<1>16. CASE LinkGroup(c)
  BY <1>0, <1>16, GoesIfCases, GoesOn, IsAnswered DEF LinkGroup, AfterGroup, PlacedAt, Active
<1>17. CASE LinkRecipients(c)
  <2>1. Goes(c, "copyDraft") \/ Answers(c, "refused")
    BY <1>17, GoesIfCases DEF LinkRecipients, Linkable
  <2> QED
    BY <1>0, <1>17, <2>1, GoesOn, IsAnswered DEF LinkRecipients, PlacedAt, Active
<1>18. CASE CopyDraft(c)
  BY <1>0, <1>18, GoesOn DEF CopyDraft, PlacedAt, Active
<1>19. CASE CommitCampaign(c)
  BY <1>0, <1>19, IsAnswered DEF CommitCampaign, PlacedAt, Active
<1>20. CASE Unlink(c)
  BY <1>0, <1>20, GoesOn DEF Unlink, PlacedAt, Active
<1>21. CASE Link(c)
  <2>1. Goes(c, "commitUpdate") \/ Answers(c, "refused")
    BY <1>21, GoesIfCases DEF Link, Linkable
  <2> QED
    BY <1>0, <1>21, <2>1, GoesOn, IsAnswered DEF Link, PlacedAt, Active
<1>22. CASE TransactionTimesOut(c)
  BY <1>0, <1>22, GoesOn DEF TransactionTimesOut, PlacedAt, Active
<1>23. CASE LinkLate(c)
  BY <1>0, <1>23, IsAnswered DEF LinkLate, PlacedAt, Active
<1>24. CASE CommitUpdate(c)
  BY <1>0, <1>24, IsAnswered DEF CommitUpdate, PlacedAt, Active
<1>25. CASE RequestFails(c)
  BY <1>0, <1>25, IsAnswered DEF RequestFails, PlacedAt, Active
<1> QED
  BY <1>1, <1>2, <1>3, <1>4, <1>5, <1>6, <1>7, <1>8, <1>9, <1>10, <1>11, <1>12, <1>13, <1>14, <1>15, <1>16, <1>17, <1>18, <1>19, <1>20, <1>21, <1>22, <1>23, <1>24, <1>25
     DEF RecipientStep, GroupStep, LinkStep

RecipientKinds == {"createRecipient", "createRecipients", "import", "setStatus", "removeRecipient"}
GroupKinds == {"addRecipients", "addRecipientsToGroup", "removeRecipients", "removeGroup"}
LinkKinds == {"createCampaign", "updateCampaign"}

\* A step belongs to the service of the kind of its request.
LEMMA KindsOfSteps ==
  ASSUME Placed, NEW c \in Requests
  PROVE  /\ RecipientStep(c) => job[c].kind \in RecipientKinds
         /\ GroupStep(c) => job[c].kind \in GroupKinds
         /\ LinkStep(c) => job[c].kind \in LinkKinds
<1>0. PlacedAt(c)
  BY DEF Placed
<1> USE DEF PlacedAt, Active, Places, RecipientPlaces, GroupPlaces, LinkPlaces
<1>1. ASSUME RecipientStep(c) PROVE job[c].kind \in RecipientKinds
  <2>1. at[c] \in {"create", "createMany", "find", "write", "aborted"}
    BY <1>1 DEF RecipientStep, InsertRecipient, InsertRecipients, InsertRecipientsFails, SkipLine,
       FindLine, WriteLine, RowGone, DuplicateEmail, DeadlockDetected, WaitsFor, StatementFails,
       InTransaction, Commit, CommitAborted
  <2> QED
    BY <1>0, <2>1 DEF RecipientKinds
<1>2. ASSUME GroupStep(c) PROVE job[c].kind \in GroupKinds
  <2>1. at[c] \in {"insertMembers", "deleteMembers", "removeGroup"}
    BY <1>2 DEF GroupStep, InsertMembers, DeleteMembers, DeleteGroup
  <2> QED
    BY <1>0, <2>1 DEF GroupKinds
<1>3. ASSUME LinkStep(c) PROVE job[c].kind \in LinkKinds
  <2>1. at[c] \in {"linkGroup", "linkRecipients", "copyDraft", "commitCampaign", "unlink",
                   "link", "late", "commitUpdate"}
    BY <1>3 DEF LinkStep, LinkGroup, LinkRecipients, CopyDraft, CommitCampaign, Unlink, Link,
       TransactionTimesOut, LinkLate, CommitUpdate
  <2> QED
    BY <1>0, <2>1 DEF LinkKinds
<1> QED
  BY <1>1, <1>2, <1>3

\* So does the first step of a request.
LEMMA KindsOfRequests ==
  ASSUME NEW c, NEW j
  PROVE  /\ RecipientRequest(c, j) => j.kind \in RecipientKinds
         /\ GroupRequest(c, j) => j.kind \in GroupKinds
         /\ LinkRequest(c, j) => j.kind \in LinkKinds
BY DEF RecipientRequest, CreateRecipient, CreateRecipients, ImportRecipientsFromCsv,
       UpdateRecipientStatus, RemoveRecipient, GroupRequest, AddRecipients, RemoveRecipients,
       FindGroup, AddRecipientsToGroup, RemoveGroup, LinkRequest, CreateCampaign, UpdateCampaign,
       Begins, RecipientKinds, GroupKinds, LinkKinds

\* A step of the whole is a step of one request, by one of the three services or by
\* a failure.
ByRecipients(c) ==
  /\ \/ RecipientStep(c) /\ Active(c) /\ job' = job
     \/ \E j \in Jobs : RecipientRequest(c, j) /\ at[c] = "idle" /\ job'[c] = j
  /\ job'[c].kind \in RecipientKinds /\ UNCHANGED <<groupVars, linkVars>>
ByGroups(c) ==
  /\ \/ GroupStep(c) /\ Active(c) /\ job' = job
     \/ \E j \in Jobs : GroupRequest(c, j) /\ at[c] = "idle" /\ job'[c] = j
  /\ job'[c].kind \in GroupKinds /\ UNCHANGED <<recipientVars, linkVars>>
ByLinks(c) ==
  /\ \/ LinkStep(c) /\ Active(c) /\ job' = job
     \/ \E j \in Jobs : LinkRequest(c, j) /\ at[c] = "idle" /\ job'[c] = j
  /\ job'[c].kind \in LinkKinds /\ UNCHANGED <<recipientVars, groupVars>>
ByFailure(c) == RequestFails(c) /\ Active(c) /\ job' = job

\* Every step is the turn of one request.
LEMMA NextCases ==
  ASSUME Placed, [Next]_vars
  PROVE  \/ UNCHANGED vars
         \/ \E c \in Requests : /\ Placed' /\ Turn(c)
                                /\ ByRecipients(c) \/ ByGroups(c) \/ ByLinks(c) \/ ByFailure(c)
<1> SUFFICES ASSUME NEW c \in Requests, StartsRequest(c) \/ Step(c)
             PROVE  /\ Placed' /\ Turn(c)
                    /\ ByRecipients(c) \/ ByGroups(c) \/ ByLinks(c) \/ ByFailure(c)
  BY DEF Next
<1>1. CASE Step(c)
  BY <1>1, StepTurns, KindsOfSteps DEF Step, ByRecipients, ByGroups, ByLinks, ByFailure
<1>2. CASE StartsRequest(c)
  BY <1>2, Starts, KindsOfRequests DEF StartsRequest, ByRecipients, ByGroups, ByLinks
<1> QED
  BY <1>1, <1>2

\* Every request stays at a place of its kind.
LEMMA PlacedStep ==
  ASSUME Placed, [Next]_vars
  PROVE  Placed'
BY NextCases DEF vars, Placed, Typed, PlacedAt, Active

\* Every request begins at such a place.
LEMMA PlacedInit == Init => Placed
BY DEF Init, Placed, Typed, PlacedAt, Active, Words, Steps

-----------------------------------------------------------------------------
(***************************************************************************)
(* Types                                                                   *)
(***************************************************************************)

Marks == [Requests -> SUBSET Emails]
Rowed == Statuses \union {"none"}

RecipientTypes ==
  /\ recipient \in [Emails -> Rowed]
  /\ line \in [Requests -> Nat]
  /\ seen \in [Requests -> Rowed]
  /\ wrote \in [Requests -> [Emails -> Rowed]]
  /\ fresh \in Marks /\ counted \in Marks /\ saved \in Marks
  /\ contested \in Marks /\ overtaken \in Marks
  /\ crossed \subseteq Requests

GroupTypes ==
  /\ group \in BOOLEAN /\ members \subseteq Emails
  /\ emptied \in Marks /\ refilled \subseteq Requests

LinkTypes ==
  /\ campaigns \subseteq Campaigns /\ grouped \subseteq Campaigns
  /\ links \subseteq Campaigns \X Emails /\ copies \subseteq Campaigns
  /\ unlinked \in Marks /\ before \in Marks /\ added \in Marks

\* An import is at a line of its file, and writes only one that is valid.
LinedAt(c) ==
  /\ at[c] \in {"find", "write"} => line[c] \in Nat \ {0}
  /\ at[c] = "write" => line[c] <= Len(job[c].lines) /\ Line(c).status # "invalid"

Faulty == faults \in 0 .. MaxFaults

Types ==
  /\ Placed /\ Faulty /\ RecipientTypes /\ GroupTypes /\ LinkTypes
  /\ \A c \in Requests : LinedAt(c)

\* The strengthened types contain the type invariant.
LEMMA TypesImplyTypeOK == Types => TypeOK
BY DEF Types, Placed, Typed, Words, Faulty, RecipientTypes, GroupTypes, LinkTypes, Marks,
       Rowed, TypeOK

\* What a request may ask for is typed.
LEMMA JobFacts ==
  \A j \in Jobs : /\ j.kind \in Kinds /\ j.ids \subseteq Emails /\ j.lines \in Seq(Lines)
                  /\ j.status \in Statuses /\ j.flag \in BOOLEAN
BY TablesAssumption DEF JobType

\* The line an import is at is one of its file.
LEMMA LineFacts ==
  ASSUME Placed, NEW c \in Requests, at[c] \in {"find", "write"},
         line[c] \in Nat \ {0}, line[c] <= Len(job[c].lines)
  PROVE  /\ line[c] \in DOMAIN job[c].lines /\ Line(c) \in Lines
         /\ Line(c).email \in Emails /\ Line(c).status \in Statuses \union {"", "invalid"}
<1>1. job[c].lines \in Seq(Lines)
  BY JobFacts DEF Placed, PlacedAt
<1>2. line[c] \in 1 .. Len(job[c].lines)
  OBVIOUS
<1>3. line[c] \in DOMAIN job[c].lines /\ Line(c) \in Lines
  BY <1>1, <1>2 DEF Line
<1> QED
  BY <1>3 DEF Lines

\* The histories of the others are typed after a write.
LEMMA WritesTyped ==
  ASSUME Types, NEW c, NEW table \in [Emails -> Rowed], Writes(c, table)
  PROVE  /\ recipient' \in [Emails -> Rowed]
         /\ contested' \in Marks /\ overtaken' \in Marks
<1>0. Placed /\ RecipientTypes /\ \A d \in Requests : LinedAt(d)
  BY DEF Types
<1>1. recipient' \in [Emails -> Rowed]
  BY DEF Writes
<1>2. contested' \in Marks
  BY <1>0 DEF Writes, RecipientTypes, Marks
<1>3. overtaken' \in Marks
  <2> DEFINE new(d) == {e \in {Line(d).email} :
                          recipient[e] # "UNSUBSCRIBED" /\ table[e] = "UNSUBSCRIBED"}
  <2>1. ASSUME NEW d \in Requests, at[d] = "write" PROVE new(d) \subseteq Emails
    BY <1>0, <2>1, LineFacts DEF LinedAt
  <2> QED
    BY <1>0, <2>1 DEF Writes, RecipientTypes, Marks
<1> QED
  BY <1>1, <1>2, <1>3

RecipientFrame ==
  /\ UNCHANGED <<groupTables, campaignTables>>
  /\ faults' = faults \/ Fault
  /\ RecipientTypes'

\* Imports other than the one that moves stay at their lines.
LEMMA LinesKept ==
  ASSUME Types, NEW c \in Requests, Turn(c), LinedAt(c)',
         \A d \in Requests \ {c} : line'[d] = line[d]
  PROVE  \A d \in Requests : LinedAt(d)'
<1> SUFFICES ASSUME NEW d \in Requests \ {c} PROVE LinedAt(d)'
  OBVIOUS
<1> QED
  BY DEF Types, LinedAt, Turn, Line

\* Steps of the recipients' requests leave the other tables alone and keep the types.
LEMMA RecipientStepTypes ==
  ASSUME Types, NEW c \in Requests, Turn(c), Placed', RecipientStep(c)
  PROVE  RecipientFrame /\ \A d \in Requests : LinedAt(d)'
<1>0. RecipientTypes /\ Placed /\ (\A d \in Requests : LinedAt(d)) /\ at \in [Requests -> Steps]
  BY DEF Types, Placed, Typed
<1> USE DEF RecipientTypes, Marks
<1>1. CASE InsertRecipient(c)
  <2>1. RecipientFrame
    <3> DEFINE table == IF \A e \in fresh[c] : ~Exists(e) THEN WithRows(fresh[c]) ELSE recipient
    <3>1. table \in [Emails -> Rowed]
      BY <1>0 DEF WithRows, Rowed, Statuses
    <3>2. Writes(c, table)
      BY <1>1 DEF InsertRecipient
    <3> HIDE DEF table
    <3>3. counted' \in Marks /\ saved' \in Marks
      BY <1>0, <1>1 DEF InsertRecipient
    <3> QED
      BY <1>0, <1>1, <3>1, <3>2, <3>3, WritesTyped DEF InsertRecipient, RecipientFrame, others, importVars
  <2>2. LinedAt(c)' /\ \A d \in Requests \ {c} : line'[d] = line[d]
    BY <1>0, <1>1 DEF InsertRecipient, AnswersIf, LinedAt, Answers, others, importVars
  <2> QED
    BY <1>0, <2>1, <2>2, LinesKept
<1>2. CASE InsertRecipients(c)
  <2>1. RecipientFrame
    <3>1. WithRows(fresh[c]) \in [Emails -> Rowed]
      BY <1>0 DEF WithRows, Rowed, Statuses
    <3>2. Writes(c, WithRows(fresh[c]))
      BY <1>2 DEF InsertRecipients
    <3>3. counted' \in Marks /\ saved' \in Marks
      BY <1>0, <1>2 DEF InsertRecipients
    <3> QED
      BY <1>0, <1>2, <3>1, <3>2, <3>3, WritesTyped DEF InsertRecipients, RecipientFrame, others, importVars
  <2>2. LinedAt(c)' /\ \A d \in Requests \ {c} : line'[d] = line[d]
    BY <1>0, <1>2 DEF InsertRecipients, LinedAt, Answers, others, importVars
  <2> QED
    BY <1>0, <2>1, <2>2, LinesKept
<1>3. CASE InsertRecipientsFails(c)
  <2>1. RecipientFrame
    BY <1>0, <1>3 DEF InsertRecipientsFails, RecipientFrame, others, importVars, NoWrites
  <2>2. LinedAt(c)' /\ \A d \in Requests \ {c} : line'[d] = line[d]
    BY <1>0, <1>3 DEF InsertRecipientsFails, LinedAt, Answers, others, importVars
  <2> QED
    BY <1>0, <2>1, <2>2, LinesKept
<1>4. CASE SkipLine(c)
  <2>1. RecipientFrame
    <3>1. line' \in [Requests -> Nat]
      BY <1>0, <1>4 DEF SkipLine, NextLine
    <3> QED
      BY <1>0, <1>4, <3>1 DEF SkipLine, RecipientFrame, others, NoWrites
  <2>2. LinedAt(c)' /\ \A d \in Requests \ {c} : line'[d] = line[d]
    BY <1>0, <1>4 DEF SkipLine, NextLine, Goes, LinedAt
  <2> QED
    BY <1>0, <2>1, <2>2, LinesKept
<1>5. CASE FindLine(c)
  <2>0. Line(c).email \in Emails
    BY <1>0, <1>5, LineFacts DEF FindLine, LinedAt
  <2>1. RecipientFrame
    <3>1. View(c, Line(c).email) \in Rowed
      BY <1>0, <2>0 DEF View
    <3>2. seen' \in [Requests -> Rowed]
      BY <1>0, <1>5, <3>1 DEF FindLine
    <3> QED
      BY <1>0, <1>5, <3>2 DEF FindLine, RecipientFrame, others, NoWrites
  <2>2. LinedAt(c)' /\ \A d \in Requests \ {c} : line'[d] = line[d]
    BY <1>0, <1>5 DEF FindLine, Goes, LinedAt, Line
  <2> QED
    BY <1>0, <2>1, <2>2, LinesKept
<1>6. CASE WriteLine(c)
  <2>0. Line(c).email \in Emails /\ Line(c).status \in Statuses \union {""}
    BY <1>0, <1>6, LineFacts DEF WriteLine, LinedAt
  <2>1. RecipientFrame
    <3>1. line' \in [Requests -> Nat]
      BY <1>0, <1>6 DEF WriteLine, NextLine
    <3>2. NewStatus(c) \in Rowed
      BY <1>0, <2>0 DEF NewStatus, Rowed, Statuses
    <3>3. wrote' \in [Requests -> [Emails -> Rowed]]
      BY <1>0, <1>6, <2>0, <3>2 DEF WriteLine
    <3>4. counted' \in Marks
      BY <1>0, <1>6, <2>0 DEF WriteLine
    <3> QED
      BY <1>0, <1>6, <3>1, <3>3, <3>4 DEF WriteLine, RecipientFrame, others, NoWrites
  <2>2. LinedAt(c)' /\ \A d \in Requests \ {c} : line'[d] = line[d]
    BY <1>0, <1>6 DEF WriteLine, NextLine, Goes, LinedAt
  <2> QED
    BY <1>0, <2>1, <2>2, LinesKept
<1>7. CASE RowGone(c)
  <2>1. RecipientFrame
    <3>1. line' \in [Requests -> Nat]
      BY <1>0, <1>7 DEF RowGone, NextLine
    <3> QED
      BY <1>0, <1>7, <3>1 DEF RowGone, RecipientFrame, others, NoWrites
  <2>2. LinedAt(c)' /\ \A d \in Requests \ {c} : line'[d] = line[d]
    BY <1>0, <1>7 DEF RowGone, NextLine, Goes, LinedAt
  <2> QED
    BY <1>0, <2>1, <2>2, LinesKept
<1>8. CASE DuplicateEmail(c)
  <2>1. RecipientFrame
    <3>1. wrote' \in [Requests -> [Emails -> Rowed]]
      BY <1>0, <1>8 DEF DuplicateEmail, Aborts, Rowed
    <3>2. crossed' \subseteq Requests
      BY <1>0, <1>8 DEF DuplicateEmail, Aborts
    <3> QED
      BY <1>0, <1>8, <3>1, <3>2 DEF DuplicateEmail, Aborts, RecipientFrame, others, NoWrites
  <2>2. LinedAt(c)' /\ \A d \in Requests \ {c} : line'[d] = line[d]
    BY <1>0, <1>8 DEF DuplicateEmail, Aborts, Goes, LinedAt
  <2> QED
    BY <1>0, <2>1, <2>2, LinesKept
<1>9. CASE DeadlockDetected(c)
  <2>1. RecipientFrame
    <3>1. wrote' \in [Requests -> [Emails -> Rowed]]
      BY <1>0, <1>9 DEF DeadlockDetected, Aborts, Rowed
    <3>2. crossed' \subseteq Requests
      BY <1>0, <1>9 DEF DeadlockDetected, Aborts
    <3> QED
      BY <1>0, <1>9, <3>1, <3>2 DEF DeadlockDetected, Aborts, RecipientFrame, others, NoWrites
  <2>2. LinedAt(c)' /\ \A d \in Requests \ {c} : line'[d] = line[d]
    BY <1>0, <1>9 DEF DeadlockDetected, Aborts, Goes, LinedAt
  <2> QED
    BY <1>0, <2>1, <2>2, LinesKept
<1>10. CASE StatementFails(c)
  <2>1. RecipientFrame
    <3>1. wrote' \in [Requests -> [Emails -> Rowed]]
      BY <1>0, <1>10 DEF StatementFails, Aborts, Rowed
    <3>2. crossed' \subseteq Requests
      BY <1>0, <1>10 DEF StatementFails, Aborts
    <3> QED
      BY <1>0, <1>10, <3>1, <3>2 DEF StatementFails, Aborts, RecipientFrame, others, NoWrites
  <2>2. LinedAt(c)' /\ \A d \in Requests \ {c} : line'[d] = line[d]
    BY <1>0, <1>10 DEF StatementFails, Aborts, Goes, LinedAt
  <2> QED
    BY <1>0, <2>1, <2>2, LinesKept
<1>11. CASE Commit(c)
  <2>1. RecipientFrame
    <3> DEFINE table == [e \in Emails |-> View(c, e)]
    <3>1. table \in [Emails -> Rowed]
      BY <1>0 DEF View
    <3>2. Writes(c, table)
      BY <1>11 DEF Commit
    <3> HIDE DEF table
    <3>3. saved' \in Marks
      BY <1>0, <1>11 DEF Commit
    <3> QED
      BY <1>0, <1>11, <3>1, <3>2, <3>3, WritesTyped DEF Commit, RecipientFrame, others, importVars
  <2>2. LinedAt(c)' /\ \A d \in Requests \ {c} : line'[d] = line[d]
    BY <1>0, <1>11 DEF Commit, LinedAt, Answers, others, importVars
  <2> QED
    BY <1>0, <2>1, <2>2, LinesKept
<1>12. CASE CommitAborted(c)
  <2>1. RecipientFrame
    BY <1>0, <1>12 DEF CommitAborted, RecipientFrame, others, importVars, NoWrites
  <2>2. LinedAt(c)' /\ \A d \in Requests \ {c} : line'[d] = line[d]
    BY <1>0, <1>12 DEF CommitAborted, LinedAt, Answers, others, importVars
  <2> QED
    BY <1>0, <2>1, <2>2, LinesKept
<1> QED
  BY <1>1, <1>2, <1>3, <1>4, <1>5, <1>6, <1>7, <1>8, <1>9, <1>10, <1>11, <1>12 DEF RecipientStep

\* So do their first steps.
LEMMA RecipientRequestTypes ==
  ASSUME Types, NEW c \in Requests, NEW j \in Jobs, Turn(c), Placed', RecipientRequest(c, j)
  PROVE  RecipientFrame /\ \A d \in Requests : LinedAt(d)'
<1>0. RecipientTypes /\ Placed /\ (\A d \in Requests : LinedAt(d)) /\ at \in [Requests -> Steps]
  BY DEF Types, Placed, Typed
<1>00. j.ids \subseteq Emails /\ j.status \in Statuses
  BY JobFacts
<1> USE DEF RecipientTypes, Marks
<1>1. CASE CreateRecipient(c, j)
  <2>1. RecipientFrame
    <3>1. fresh' \in Marks
      BY <1>0, <1>00, <1>1 DEF CreateRecipient
    <3> QED
      BY <1>0, <1>1, <3>1 DEF CreateRecipient, RecipientFrame, others, importVars, NoWrites
  <2>2. LinedAt(c)' /\ \A d \in Requests \ {c} : line'[d] = line[d]
    BY <1>0, <1>1 DEF CreateRecipient, Begins, GoesIf, LinedAt, importVars
  <2> QED
    BY <1>0, <2>1, <2>2, LinesKept
<1>2. CASE CreateRecipients(c, j)
  <2>1. RecipientFrame
    <3>1. fresh' \in Marks
      BY <1>0, <1>00, <1>2 DEF CreateRecipients
    <3> QED
      BY <1>0, <1>2, <3>1 DEF CreateRecipients, RecipientFrame, others, importVars, NoWrites
  <2>2. LinedAt(c)' /\ \A d \in Requests \ {c} : line'[d] = line[d]
    BY <1>0, <1>2 DEF CreateRecipients, Begins, Goes, Answers, LinedAt, importVars
  <2> QED
    BY <1>0, <2>1, <2>2, LinesKept
<1>3. CASE ImportRecipientsFromCsv(c, j)
  <2>1. RecipientFrame
    <3>1. line' \in [Requests -> Nat]
      BY <1>0, <1>3 DEF ImportRecipientsFromCsv
    <3> QED
      BY <1>0, <1>3, <3>1 DEF ImportRecipientsFromCsv, RecipientFrame, others, NoWrites
  <2>2. LinedAt(c)' /\ \A d \in Requests \ {c} : line'[d] = line[d]
    BY <1>0, <1>3 DEF ImportRecipientsFromCsv, Begins, GoesIf, LinedAt
  <2> QED
    BY <1>0, <2>1, <2>2, LinesKept
<1>4. CASE UpdateRecipientStatus(c, j)
  <2>1. RecipientFrame
    <3> DEFINE table == [e \in Emails |-> IF e \in j.ids /\ Exists(e) THEN j.status ELSE recipient[e]]
    <3>1. table \in [Emails -> Rowed]
      BY <1>0, <1>00 DEF Rowed
    <3>2. Writes(c, table)
      BY <1>4 DEF UpdateRecipientStatus
    <3> HIDE DEF table
    <3> QED
      BY <1>0, <1>4, <3>1, <3>2, WritesTyped DEF UpdateRecipientStatus, RecipientFrame, others, importVars
  <2>2. LinedAt(c)' /\ \A d \in Requests \ {c} : line'[d] = line[d]
    BY <1>0, <1>4 DEF UpdateRecipientStatus, Begins, AnswersIf, Answers, LinedAt, importVars
  <2> QED
    BY <1>0, <2>1, <2>2, LinesKept
<1>5. CASE RemoveRecipient(c, j)
  <2>1. RecipientFrame
    <3> DEFINE table == [e \in Emails |-> IF e \in {i \in j.ids : Exists(i) /\ ~Referred(i)} THEN "none" ELSE recipient[e]]
    <3>1. table \in [Emails -> Rowed]
      BY <1>0, <1>00 DEF Rowed
    <3>2. Writes(c, table)
      BY <1>5 DEF RemoveRecipient
    <3> HIDE DEF table
    <3> QED
      BY <1>0, <1>5, <3>1, <3>2, WritesTyped DEF RemoveRecipient, RecipientFrame, others, importVars
  <2>2. LinedAt(c)' /\ \A d \in Requests \ {c} : line'[d] = line[d]
    BY <1>0, <1>5 DEF RemoveRecipient, Begins, AnswersIf, Answers, LinedAt, importVars
  <2> QED
    BY <1>0, <2>1, <2>2, LinesKept
<1> QED
  BY <1>1, <1>2, <1>3, <1>4, <1>5 DEF RecipientRequest

GroupFrame ==
  /\ UNCHANGED <<recipient, campaigns, links, unlinked, copies>>
  /\ faults' = faults
  /\ GroupTypes' /\ grouped' \subseteq grouped
  /\ group' => group

\* Steps of the group's requests leave recipients and links alone and keep the types.
LEMMA GroupStepTypes ==
  ASSUME Types, NEW c \in Requests, GroupStep(c)
  PROVE  GroupFrame
<1>0. GroupTypes /\ Placed /\ job[c] \in Jobs \union {NoJob}
  BY DEF Types, Placed, Typed
<1>00. job[c].ids \subseteq Emails
  BY <1>0, JobFacts DEF NoJob
<1> USE DEF GroupTypes, Marks
<1>1. CASE InsertMembers(c)
  BY <1>0, <1>00, <1>1 DEF InsertMembers, Joins, GroupFrame, restOfTables, campaignTables
<1>2. CASE DeleteMembers(c)
  BY <1>0, <1>2 DEF DeleteMembers, GroupFrame, restOfTables, campaignTables, groupVars
<1>3. CASE DeleteGroup(c)
  BY <1>0, <1>3 DEF DeleteGroup, GroupFrame, groupVars
<1> QED
  BY <1>1, <1>2, <1>3 DEF GroupStep

\* So do their first steps.
LEMMA GroupRequestTypes ==
  ASSUME Types, NEW c \in Requests, NEW j \in Jobs, GroupRequest(c, j)
  PROVE  GroupFrame
<1>0. GroupTypes /\ j.ids \subseteq Emails
  BY JobFacts DEF Types
<1> USE DEF GroupTypes, Marks
<1>1. CASE AddRecipients(c, j) \/ RemoveRecipients(c, j)
  BY <1>0, <1>1 DEF AddRecipients, RemoveRecipients, FindGroup, GroupFrame, restOfTables,
     campaignTables, groupTables, groupVars
<1>2. CASE AddRecipientsToGroup(c, j)
  BY <1>0, <1>2 DEF AddRecipientsToGroup, Joins, GroupFrame, restOfTables, campaignTables
<1>3. CASE RemoveGroup(c, j)
  <2>1. emptied' \in Marks
    BY <1>0, <1>3 DEF RemoveGroup
  <2> QED
    BY <1>0, <1>3, <2>1 DEF RemoveGroup, GroupFrame, restOfTables, campaignTables
<1> QED
  BY <1>1, <1>2, <1>3 DEF GroupRequest

LinkFrame ==
  /\ UNCHANGED <<recipient, groupTables>>
  /\ faults' = faults
  /\ LinkTypes'

\* What linkRecipientsToCampaign writes is typed.
LEMMA LinkingTyped ==
  ASSUME Types, NEW c \in Requests, NEW k \in Campaigns, LinkRecipientsToCampaign(c, k)
  PROVE  links' \subseteq Campaigns \X Emails /\ added' \in Marks
<1>1. LinkTypes /\ job[c] \in Jobs \union {NoJob}
  BY DEF Types, Placed, Typed
<1>2. job[c].ids \subseteq Emails
  BY <1>1, JobFacts DEF NoJob
<1>3. links' \subseteq Campaigns \X Emails
  BY <1>1, <1>2 DEF LinkRecipientsToCampaign, LinksOf, LinkTypes
<1>4. added' \in Marks
  BY <1>1, <1>2 DEF LinkRecipientsToCampaign, LinkTypes, Marks
<1> QED
  BY <1>3, <1>4

\* Steps of the campaigns' requests leave recipients and the group alone and keep the types.
LEMMA LinkStepTypes ==
  ASSUME Types, NEW c \in Requests, LinkStep(c)
  PROVE  LinkFrame
<1>0. LinkTypes /\ c \in Campaigns /\ Old \in Campaigns /\ (\A k \in Campaigns : LinkedTo(k) \subseteq Emails)
  BY DEF Types, Campaigns, LinkedTo
<1>00. \A S \in SUBSET Emails : [unlinked EXCEPT ![c] = S] \in Marks /\ [before EXCEPT ![c] = S] \in Marks
  BY <1>0 DEF LinkTypes, Marks
<1> USE DEF LinkTypes, notLinks, linkVars
<1>1. CASE LinkGroup(c)
  BY <1>0, <1>1 DEF LinkGroup, LinkFrame
<1>2. CASE LinkRecipients(c)
  BY <1>0, <1>2, LinkingTyped DEF LinkRecipients, LinkFrame
<1>3. CASE CopyDraft(c)
  BY <1>0, <1>3 DEF CopyDraft, LinkFrame
<1>4. CASE CommitCampaign(c)
  BY <1>0, <1>4 DEF CommitCampaign, LinkFrame
<1>5. CASE Unlink(c)
  BY <1>0, <1>00, <1>5 DEF Unlink, LinkFrame
<1>6. CASE Link(c)
  BY <1>0, <1>00, <1>6, LinkingTyped DEF Link, ForgetsUnlinked, LinkFrame
<1>7. CASE TransactionTimesOut(c)
  BY <1>0, <1>00, <1>7 DEF TransactionTimesOut, ForgetsUnlinked, LinkFrame
<1>8. CASE LinkLate(c)
  BY <1>0, <1>8, LinkingTyped DEF LinkLate, LinkFrame
<1>9. CASE CommitUpdate(c)
  BY <1>0, <1>00, <1>9 DEF CommitUpdate, ForgetsUnlinked, LinkFrame
<1> QED
  BY <1>1, <1>2, <1>3, <1>4, <1>5, <1>6, <1>7, <1>8, <1>9 DEF LinkStep

\* So do their first steps, which write nothing.
LEMMA LinkRequestTypes ==
  ASSUME Types, NEW c \in Requests, NEW j \in Jobs, LinkRequest(c, j)
  PROVE  LinkFrame /\ UNCHANGED <<campaignTables, linkVars>>
BY DEF LinkRequest, CreateCampaign, UpdateCampaign, LinkFrame, LinkTypes, notLinks, linkVars,
       campaignTables, Types

\* A failure refuses its request and keeps the types.
LEMMA FailTypes ==
  ASSUME Types, NEW c \in Requests, RequestFails(c)
  PROVE  /\ RecipientTypes' /\ GroupTypes' /\ LinkTypes' /\ Fault
         /\ at'[c] = "done" /\ answer'[c] = "refused"
<1>1. at'[c] = "done" /\ answer'[c] = "refused"
  BY DEF Types, Placed, Typed, RequestFails, Answers
<1>2. LinkTypes'
  <2>1. unlinked' \in Marks
    BY DEF Types, LinkTypes, Marks, RequestFails, ForgetsUnlinked
  <2> QED
    BY <2>1 DEF Types, LinkTypes, RequestFails, linkVars
<1> QED
  BY <1>1, <1>2 DEF RequestFails, Types, RecipientTypes, GroupTypes, recipientVars, importVars,
     groupVars, groupTables

\* Steps that are not of an import leave its line and its job alone.
LEMMA OtherLines ==
  ASSUME Types, NEW c \in Requests, Turn(c), line' = line, at'[c] \notin {"find", "write"}
  PROVE  \A d \in Requests : LinedAt(d)'
BY LinesKept DEF LinedAt

Frame(c) ==
  \/ ByRecipients(c) /\ RecipientFrame
  \/ ByGroups(c) /\ GroupFrame
  \/ ByLinks(c) /\ LinkFrame
  \/ ByFailure(c) /\ Fault

\* A step keeps the types and is the turn of one request within its own tables.
LEMMA StepCases ==
  ASSUME Types, [Next]_vars
  PROVE  Types' /\ (UNCHANGED vars \/ \E c \in Requests : Turn(c) /\ Frame(c))
<1>0. Placed /\ Faulty
  BY DEF Types
<1>1. CASE UNCHANGED vars
  BY <1>1 DEF vars, Types, Placed, Typed, PlacedAt, Active, Faulty, RecipientTypes, GroupTypes,
     LinkTypes, LinedAt, Line, recipientVars, importVars, groupVars, groupTables, linkVars,
     campaignTables
<1>2. CASE ~UNCHANGED vars
  <2>1. PICK c \in Requests : /\ Placed' /\ Turn(c)
                              /\ ByRecipients(c) \/ ByGroups(c) \/ ByLinks(c) \/ ByFailure(c)
    BY <1>0, <1>2, NextCases
  <2>2. Fault => Faulty'
    BY <1>0, TablesAssumption DEF Fault, Faulty
  <2>3. CASE ByRecipients(c)
    <3>1. RecipientFrame /\ \A d \in Requests : LinedAt(d)'
      BY <2>1, <2>3, RecipientStepTypes, RecipientRequestTypes DEF ByRecipients
    <3>2. GroupTypes' /\ LinkTypes' /\ Faulty'
      BY <1>0, <2>2, <2>3, <3>1 DEF ByRecipients, RecipientFrame, Types, GroupTypes, LinkTypes,
         Faulty, groupVars, linkVars, groupTables, campaignTables
    <3> QED
      BY <2>1, <2>3, <3>1, <3>2 DEF Types, RecipientFrame, Frame
  <2>4. ASSUME ~ByRecipients(c), line' = line PROVE \A d \in Requests : LinedAt(d)'
    <3>1. at'[c] \notin {"find", "write"}
      <4>1. CASE ByFailure(c)
        BY <4>1, FailTypes DEF ByFailure
      <4>2. CASE ~ByFailure(c)
        <5>1. job'[c].kind \in GroupKinds \union LinkKinds
          BY <2>1, <2>4, <4>2 DEF ByGroups, ByLinks
        <5> QED
          BY <2>1, <5>1 DEF Placed, PlacedAt, Active, Places, RecipientPlaces, GroupPlaces,
             LinkPlaces, GroupKinds, LinkKinds
      <4> QED
        BY <4>1, <4>2
    <3> QED
      BY <2>1, <2>4, <3>1, OtherLines
  <2>5. CASE ByGroups(c) /\ ~ByRecipients(c)
    <3>1. GroupFrame /\ line' = line
      BY <2>5, GroupStepTypes, GroupRequestTypes DEF ByGroups, recipientVars, importVars
    <3>2. RecipientTypes'
      BY <2>5, <3>1 DEF ByGroups, GroupFrame, Types, RecipientTypes, recipientVars, importVars
    <3>3. LinkTypes' /\ Faulty'
      BY <1>0, <2>5, <3>1 DEF ByGroups, GroupFrame, Types, LinkTypes, Faulty, linkVars
    <3> QED
      BY <2>1, <2>4, <2>5, <3>1, <3>2, <3>3 DEF Types, GroupFrame, Frame
  <2>6. CASE ByLinks(c) /\ ~ByRecipients(c)
    <3>1. LinkFrame /\ line' = line
      BY <2>6, LinkStepTypes, LinkRequestTypes DEF ByLinks, recipientVars, importVars
    <3>2. RecipientTypes'
      BY <2>6, <3>1 DEF ByLinks, LinkFrame, Types, RecipientTypes, recipientVars, importVars
    <3>3. GroupTypes' /\ Faulty'
      BY <1>0, <2>6, <3>1 DEF ByLinks, LinkFrame, Types, GroupTypes, Faulty, groupVars, groupTables
    <3> QED
      BY <2>1, <2>4, <2>6, <3>1, <3>2, <3>3 DEF Types, LinkFrame, Frame
  <2>7. CASE ByFailure(c) /\ ~ByRecipients(c)
    <3>1. RecipientTypes' /\ GroupTypes' /\ LinkTypes' /\ Fault /\ line' = line
      BY <2>7, FailTypes DEF ByFailure, RequestFails, recipientVars, importVars
    <3> QED
      BY <2>1, <2>2, <2>4, <2>7, <3>1 DEF Types, Frame
  <2> QED
    BY <2>1, <2>3, <2>5, <2>6, <2>7
<1> QED
  BY <1>1, <1>2

\* The initial states are typed.
LEMMA TypesInit == Init => Types
<1> SUFFICES ASSUME Init PROVE Types
  OBVIOUS
<1>1. Placed /\ Faulty /\ \A c \in Requests : LinedAt(c)
  BY PlacedInit, TablesAssumption DEF Init, Faulty, LinedAt
<1>2. RecipientTypes
  BY DEF Init, RecipientTypes, Marks, Rowed
<1>3. GroupTypes /\ LinkTypes
  BY RowsAssumption DEF Init, GroupTypes, LinkTypes, Marks, Campaigns
<1> QED
  BY <1>1, <1>2, <1>3 DEF Types

\* The strengthened types are invariant.
LEMMA TypesHold == Spec => []Types
<1>1. Types /\ [Next]_vars => Types'
  BY StepCases
<1> QED
  BY <1>1, TypesInit, PTL DEF Spec

\* Every variable of the three services keeps its type, and every request is at a
\* call of its own kind, an import at a line of its file.
THEOREM TypeCorrect == Spec => []TypeOK
BY TypesHold, TypesImplyTypeOK, PTL

-----------------------------------------------------------------------------
(***************************************************************************)
(* Groups                                                                  *)
(***************************************************************************)

\* Between the deletion of the members and that of the group, the group is empty
\* or was refilled; and what EmptiedGroupHasCause says of a request.
RemovalAt(c) ==
  /\ at[c] = "removeGroup" => members = {} \/ c \in refilled
  /\ Ended(c, "removeGroup") /\ emptied[c] # {} /\ group
     => ~job[c].flag \/ c \in refilled \/ faults > 0

Removal == \A c \in Requests : RemovalAt(c)

\* Every step keeps what is said of the removal of a group.
LEMMA RemovalStep ==
  ASSUME Types, Removal, [Next]_vars
  PROVE  Removal'
<1>0. Types' /\ Placed /\ Placed' /\ Faulty /\ Faulty' /\ GroupTypes
  BY StepCases DEF Types
<1>00. faults \in Nat /\ faults' \in Nat
  BY <1>0, TablesAssumption DEF Faulty
<1>1. CASE UNCHANGED vars
  BY <1>1 DEF vars, Removal, RemovalAt, Ended, groupTables, groupVars
<1>2. ASSUME NEW c \in Requests, Turn(c), Frame(c), NEW d \in Requests
      PROVE  RemovalAt(d)'
  <2>0. RemovalAt(d) /\ (Fault => faults' > 0)
    BY <1>00 DEF Removal, Fault
  <2>1. CASE (ByRecipients(c) /\ RecipientFrame) \/ (ByLinks(c) /\ LinkFrame)
    <3>1. UNCHANGED <<group, members, emptied, refilled>> /\ faults' >= faults
      BY <1>00, <2>1 DEF ByRecipients, ByLinks, RecipientFrame, LinkFrame, Fault, groupTables, groupVars
    <3>2. CASE d = c
      <4>1. job'[c].kind # "removeGroup" /\ at'[c] # "removeGroup"
        BY <1>0, <2>1 DEF ByRecipients, ByLinks, RecipientKinds, LinkKinds, Placed, PlacedAt,
           Active, Places, RecipientPlaces, GroupPlaces, LinkPlaces
      <4> QED
        BY <3>2, <4>1 DEF RemovalAt, Ended
    <3>3. CASE d # c
      BY <1>00, <1>2, <2>0, <3>1, <3>3 DEF RemovalAt, Ended, Turn
    <3> QED
      BY <3>2, <3>3
  <2>2. CASE ByGroups(c) /\ GroupFrame
    <3>0. faults' = faults /\ (group' => group)
      BY <2>2 DEF GroupFrame
    <3>1. CASE AddRecipients(c, job'[c]) \/ RemoveRecipients(c, job'[c])
      <4>1. UNCHANGED <<members, emptied, refilled>>
        BY <3>1 DEF AddRecipients, RemoveRecipients, FindGroup, groupTables, groupVars
      <4>2. job'[c].kind # "removeGroup" /\ at'[c] # "removeGroup"
        BY <1>0, <3>1 DEF AddRecipients, RemoveRecipients, FindGroup, Begins, GoesIf, Placed, Typed
      <4> QED
        BY <1>2, <2>0, <3>0, <4>1, <4>2 DEF RemovalAt, Ended, Turn
    <3>2. CASE AddRecipientsToGroup(c, job'[c]) \/ InsertMembers(c)
      <4>1. /\ emptied' = emptied /\ refilled \subseteq refilled'
            /\ members' = members \/ \A b \in Requests : at[b] = "removeGroup" => b \in refilled'
        BY <3>2 DEF AddRecipientsToGroup, InsertMembers, Joins
      <4>2. job'[c].kind # "removeGroup" /\ at'[c] = "done"
        <5>1. CASE AddRecipientsToGroup(c, job'[c])
          BY <1>0, <5>1 DEF AddRecipientsToGroup, Begins, Joins, AnswersIf, Answers, Placed, Typed
        <5>2. CASE InsertMembers(c)
          BY <1>0, <2>2, <5>2 DEF ByGroups, InsertMembers, Joins, AnswersIf, Answers, Placed, PlacedAt,
             Typed, Active, Places, RecipientPlaces, GroupPlaces, LinkPlaces
        <5> QED
          BY <3>2, <5>1, <5>2
      <4> QED
        BY <1>2, <2>0, <3>0, <4>1, <4>2 DEF RemovalAt, Ended, Turn
    <3>3. CASE RemoveGroup(c, job'[c])
      <4>1. /\ members' = {} /\ refilled' = refilled /\ at'[c] = "removeGroup"
            /\ \A b \in Requests \ {c} : emptied'[b] = emptied[b]
        BY <1>0, <3>3 DEF RemoveGroup, Goes, Placed, Typed, GroupTypes, Marks
      <4> QED
        BY <1>2, <2>0, <3>0, <4>1 DEF RemovalAt, Ended, Turn
    <3>4. CASE DeleteMembers(c)
      <4>1. members' \subseteq members /\ UNCHANGED <<emptied, refilled>>
        BY <3>4 DEF DeleteMembers, groupVars
      <4>2. at'[c] = "done" /\ job'[c].kind # "removeGroup"
        BY <1>0, <3>4 DEF DeleteMembers, Answers, Placed, PlacedAt, Typed, Active, Places,
           RecipientPlaces, GroupPlaces, LinkPlaces
      <4> QED
        BY <1>2, <2>0, <3>0, <4>1, <4>2 DEF RemovalAt, Ended, Turn
    <3>5. CASE DeleteGroup(c)
      <4>1. /\ UNCHANGED <<members, emptied, refilled>>
            /\ at[c] = "removeGroup" /\ at'[c] = "done"
            /\ group' => ~job[c].flag \/ members # {}
        BY <1>0, <3>5 DEF DeleteGroup, AnswersIf, Answers, groupVars, Placed, Typed
      <4>2. \A b \in Requests : job'[b] = job[b]
        BY <3>5 DEF DeleteGroup
      <4>3. d # c => at'[d] = at[d]
        BY <1>2 DEF Turn
      <4> QED
        BY <2>0, <3>0, <4>1, <4>2, <4>3 DEF RemovalAt, Ended
    <3> QED
      BY <2>2, <3>1, <3>2, <3>3, <3>4, <3>5 DEF ByGroups, GroupStep, GroupRequest
  <2>3. CASE ByFailure(c) /\ Fault
    <3>1. UNCHANGED <<group, members, emptied, refilled>> /\ faults' > 0 /\ at'[c] = "done"
      BY <2>0, <2>3, FailTypes DEF ByFailure, RequestFails, groupTables, groupVars
    <3> QED
      BY <1>2, <2>0, <3>1 DEF RemovalAt, Ended, Turn
  <2> QED
    BY <1>2, <2>1, <2>2, <2>3 DEF Frame
<1> QED
  BY <1>1, <1>2, StepCases DEF Removal

\* A group outlives its members only when the request that removed it was not its
\* owner's, failed, or met one that added members.
THEOREM GroupRemoval == Spec => []EmptiedGroupHasCause
<1>1. Init => Removal
  BY DEF Init, Removal, RemovalAt, Ended
<1>2. Types /\ Removal /\ [Next]_vars => Removal'
  BY RemovalStep
<1>3. Removal => EmptiedGroupHasCause
  BY DEF Removal, RemovalAt, EmptiedGroupHasCause
<1> QED
  BY <1>1, <1>2, <1>3, TypesHold, PTL DEF Spec

-----------------------------------------------------------------------------
(***************************************************************************)
(* createCampaign                                                          *)
(***************************************************************************)

\* Until a campaign is committed nothing links to it, and only one that asks for
\* no links gets so far.
CreationAt(c) ==
  /\ c \notin grouped /\ LinkedTo(c) = {}
  /\ c \in campaigns => at[c] = "done" /\ job[c].ids = {} /\ ~job[c].flag /\ c \in copies
  /\ at[c] = "linkRecipients" => job[c].ids # {}
  /\ at[c] = "linkGroup" => job[c].flag
  /\ at[c] \in {"copyDraft", "commitCampaign"} => job[c].ids = {} /\ ~job[c].flag
  /\ at[c] = "commitCampaign" => c \in copies

Creation == \A c \in Requests : CreationAt(c)

\* Every step keeps what is said of the creation of a campaign.
LEMMA CreationStep ==
  ASSUME Types, Creation, [Next]_vars
  PROVE  Creation'
<1>0. Types' /\ Placed /\ Placed' /\ LinkTypes
  BY StepCases DEF Types
<1>00. at \in [Requests -> Steps] /\ answer \in [Requests -> Words] /\ Old \notin Requests
  BY <1>0, TablesAssumption DEF Placed, Typed
<1>1. CASE UNCHANGED vars
  BY <1>1 DEF vars, Creation, CreationAt, LinkedTo, campaignTables
<1>2. ASSUME NEW c \in Requests, Turn(c), Frame(c), NEW d \in Requests
      PROVE  CreationAt(d)'
  <2>0. CreationAt(c) /\ CreationAt(d)
    BY DEF Creation
  <2>1. d # c => at'[d] = at[d] /\ job'[d] = job[d]
    BY <1>2 DEF Turn
  <2>2. c \notin campaigns
    BY <1>2, <2>0 DEF CreationAt, Turn
  <2>3. ASSUME grouped' \subseteq grouped, UNCHANGED <<campaigns, links, copies>>,
               at'[c] \notin {"linkRecipients", "linkGroup", "copyDraft", "commitCampaign"}
        PROVE  CreationAt(d)'
    BY <2>0, <2>1, <2>2, <2>3 DEF CreationAt, LinkedTo
  <2>4. ASSUME job'[c].kind # "createCampaign"
        PROVE  at'[c] \notin {"linkRecipients", "linkGroup", "copyDraft", "commitCampaign"}
    BY <1>0, <2>4 DEF Placed, PlacedAt, Active, Places, RecipientPlaces, GroupPlaces, LinkPlaces
  <2>5. CASE ByRecipients(c) /\ RecipientFrame
    BY <2>3, <2>4, <2>5 DEF ByRecipients, RecipientFrame, campaignTables, RecipientKinds
  <2>6. CASE ByGroups(c) /\ GroupFrame
    BY <2>3, <2>4, <2>6 DEF ByGroups, GroupFrame, GroupKinds
  <2>7. CASE ByFailure(c) /\ Fault
    BY <2>3, <2>7, FailTypes DEF ByFailure, RequestFails
  <2>8. CASE ByLinks(c) /\ LinkFrame
    <3>1. CASE CreateCampaign(c, job'[c])
      <4>1. UNCHANGED <<campaigns, grouped, links, copies>>
        BY <3>1 DEF CreateCampaign, campaignTables
      <4>2. at'[c] = IF job'[c].flag THEN "linkGroup" ELSE AfterGroup(job'[c])
        BY <1>00, <3>1 DEF CreateCampaign, Goes
      <4> QED
        BY <2>0, <2>1, <2>2, <4>1, <4>2 DEF CreationAt, LinkedTo, AfterGroup
    <3>2. CASE UpdateCampaign(c, job'[c])
      <4>1. UNCHANGED <<campaigns, grouped, links, copies>>
        BY <3>2 DEF UpdateCampaign, campaignTables
      <4> QED
        BY <2>3, <2>4, <3>2, <4>1 DEF UpdateCampaign, Begins
    <3>3. CASE LinkGroup(c)
      <4>1. UNCHANGED <<campaigns, grouped, links, copies>> /\ at'[c] = "done"
        BY <1>00, <2>2, <3>3 DEF LinkGroup, Linkable, GoesIf
      <4> QED
        BY <2>3, <4>1
    <3>4. CASE LinkRecipients(c)
      <4>1. ~Linkable(c, job[c].ids)
        BY <2>2 DEF Linkable
      <4>2. links' = links
        BY <3>4, <4>1 DEF LinkRecipients, LinkRecipientsToCampaign, LinksOf
      <4>3. UNCHANGED <<campaigns, grouped, copies>> /\ at'[c] = "done"
        BY <1>00, <3>4, <4>1 DEF LinkRecipients, GoesIf
      <4> QED
        BY <2>3, <4>2, <4>3
    <3>5. CASE CopyDraft(c)
      <4>1. /\ copies' = copies \union {c} /\ UNCHANGED <<campaigns, grouped, links, job>>
            /\ at[c] = "copyDraft" /\ at'[c] = "commitCampaign"
        BY <1>00, <3>5 DEF CopyDraft, Goes
      <4> QED
        BY <2>0, <2>1, <2>2, <4>1 DEF CreationAt, LinkedTo
    <3>6. CASE CommitCampaign(c)
      <4>1. /\ campaigns' = campaigns \union {c} /\ UNCHANGED <<copies, grouped, links, job>>
            /\ at[c] = "commitCampaign" /\ at'[c] = "done"
        BY <1>00, <3>6 DEF CommitCampaign, Answers
      <4> QED
        BY <2>0, <2>1, <4>1 DEF CreationAt, LinkedTo
    <3>7. CASE Unlink(c) \/ TransactionTimesOut(c)
      <4>1. UNCHANGED <<campaigns, grouped, links, copies>>
        BY <3>7 DEF Unlink, TransactionTimesOut, linkVars
      <4>2. at'[c] \in {"commitUpdate", "link", "late"}
        BY <1>00, <3>7 DEF Unlink, TransactionTimesOut, Goes
      <4> QED
        BY <2>3, <4>1, <4>2
    <3>8. CASE Link(c) \/ LinkLate(c)
      <4>1. UNCHANGED <<campaigns, grouped, copies>> /\ LinkRecipientsToCampaign(c, Old)
        BY <3>8 DEF Link, LinkLate
      <4>2. \A k \in Requests : LinkedTo(k)' = LinkedTo(k)
        BY <1>00, <4>1 DEF LinkRecipientsToCampaign, LinksOf, LinkedTo
      <4>3. at'[c] \in {"commitUpdate", "done"}
        BY <1>00, <3>8 DEF Link, LinkLate, GoesIf, Answers
      <4> QED
        BY <2>0, <2>1, <2>2, <4>1, <4>2, <4>3 DEF CreationAt
    <3>9. CASE CommitUpdate(c)
      <4>1. links' \subseteq links /\ grouped' \subseteq grouped \union {Old} /\ UNCHANGED <<campaigns, copies>>
        BY <3>9 DEF CommitUpdate
      <4>2. at'[c] = "done"
        BY <1>00, <3>9 DEF CommitUpdate, Answers
      <4> QED
        BY <1>00, <2>0, <2>1, <2>2, <4>1, <4>2 DEF CreationAt, LinkedTo
    <3> QED
      BY <2>8, <3>1, <3>2, <3>3, <3>4, <3>5, <3>6, <3>7, <3>8, <3>9
         DEF ByLinks, LinkStep, LinkRequest
  <2> QED
    BY <1>2, <2>5, <2>6, <2>7, <2>8 DEF Frame
<1> QED
  BY <1>1, <1>2, StepCases DEF Creation

\* It is invariant.
LEMMA CreationHolds == Spec => []Creation
<1>1. Init => Creation
  <2> SUFFICES ASSUME Init, NEW c \in Requests PROVE CreationAt(c)
    BY DEF Creation
  <2>1. c # Old
    BY TablesAssumption
  <2> QED
    BY <2>1 DEF Init, CreationAt, LinkedTo
<1>2. Types /\ Creation /\ [Next]_vars => Creation'
  BY CreationStep
<1> QED
  BY <1>1, <1>2, TypesHold, PTL DEF Spec

\* No campaign that createCampaign commits has a group or a recipient: a request
\* that asks for them is refused.
THEOREM CreationWithoutLinks == Spec => []CreationNeverLinks
<1>1. Types /\ Creation => CreationNeverLinks
  BY DEF Types, LinkTypes, Campaigns, Creation, CreationAt, CreationNeverLinks
<1> QED
  BY <1>1, TypesHold, CreationHolds, PTL

-----------------------------------------------------------------------------
(***************************************************************************)
(* update                                                                  *)
(***************************************************************************)

Added == UNION {added[d] : d \in Requests}

\* The links of Old while an update is under way: what it deleted, what it made
\* beside its transaction, and that whatever else is new was made by others.
UpdatingAt(c) ==
  /\ at[c] \in {"idle", "unlink"} => before[c] = {}
  /\ at[c] \in {"idle", "linkGroup", "linkRecipients", "unlink", "link", "late"} => added[c] = {}
  /\ at[c] \in {"link", "commitUpdate"} =>
       unlinked[c] = before[c] /\ LinkedTo(Old) \ before[c] \subseteq Added
  /\ at[c] = "commitUpdate" =>
       /\ before[c] \intersect job[c].ids = {}
       /\ job[c].ids \subseteq LinkedTo(Old) /\ added[c] \subseteq job[c].ids
  /\ at[c] = "late" => before[c] \intersect job[c].ids # {}

\* What UpdateOutcome says of a request.
EndedAt(c) ==
  Ended(c, "updateCampaign") =>
    /\ answer[c] = "ok" => before[c] \intersect job[c].ids = {}
    /\ answer[c] = "refused" /\ added[c] # {}
         => before[c] \intersect job[c].ids # {} \/ faults > 0

Exclusive == \A c, d \in Requests : HasRow(c) /\ HasRow(d) => c = d

Updating == Exclusive /\ \A c \in Requests : UpdatingAt(c) /\ EndedAt(c)

\* What request c may do to the links while the others are where they are.
LEMMA OthersUpdating ==
  ASSUME Types, Updating, NEW c \in Requests, Turn(c),
         faults' \in Nat, faults' >= faults,
         \A d \in Requests \ {c} : unlinked'[d] = unlinked[d] /\ before'[d] = before[d] /\ added'[d] = added[d],
         \A d \in Requests \ {c} :
           at[d] \in {"link", "commitUpdate"} =>
             LinkedTo(Old) \subseteq LinkedTo(Old)' /\ LinkedTo(Old)' \ before[d] \subseteq Added'
  PROVE  \A d \in Requests \ {c} : UpdatingAt(d)' /\ EndedAt(d)'
<1> SUFFICES ASSUME NEW d \in Requests \ {c} PROVE UpdatingAt(d)' /\ EndedAt(d)'
  OBVIOUS
<1>1. UpdatingAt(d) /\ EndedAt(d) /\ at'[d] = at[d] /\ job'[d] = job[d] /\ answer'[d] = answer[d]
  BY DEF Updating, Turn
<1>2. faults \in Nat
  BY TablesAssumption DEF Types, Faulty
<1>3. UpdatingAt(d)'
  BY <1>1 DEF UpdatingAt
<1>4. EndedAt(d)'
  BY <1>1, <1>2 DEF EndedAt, Ended
<1> QED
  BY <1>3, <1>4

\* linkRecipientsToCampaign adds all the links it is asked for, or none.
LEMMA LinkingAdds ==
  ASSUME Types, Updating, NEW c \in Requests, added[c] = {}, LinkRecipientsToCampaign(c, Old)
  PROVE  /\ LinkedTo(Old) \subseteq LinkedTo(Old)'
         /\ LinkedTo(Old)' \subseteq LinkedTo(Old) \union Added' /\ Added \subseteq Added'
         /\ Linkable(Old, job[c].ids) => job[c].ids \subseteq LinkedTo(Old)'
         /\ ~Linkable(Old, job[c].ids) => added'[c] = {}
         /\ added'[c] \subseteq job[c].ids /\ \A d \in Requests \ {c} : added'[d] = added[d]
<1> DEFINE ids == IF Linkable(Old, job[c].ids) THEN job[c].ids ELSE {}
<1>0. ids \subseteq Emails /\ ids \subseteq job[c].ids /\ added \in Marks
  BY JobFacts DEF Types, LinkTypes, Placed, Typed, NoJob
<1>1. links' = links \union LinksOf(Old, ids) /\ added' = [added EXCEPT ![c] = ids \ LinkedTo(Old)]
  BY DEF LinkRecipientsToCampaign
<1>2. Linkable(Old, job[c].ids) => ids = job[c].ids
  OBVIOUS
<1>3. ~Linkable(Old, job[c].ids) => ids = {}
  OBVIOUS
<1> HIDE DEF ids
<1>4. LinkedTo(Old)' = LinkedTo(Old) \union ids
  BY <1>0, <1>1 DEF LinkedTo, LinksOf
<1>5. added'[c] = ids \ LinkedTo(Old) /\ \A d \in Requests \ {c} : added'[d] = added[d]
  BY <1>0, <1>1 DEF Marks
<1>6. Added \subseteq Added' /\ ids \ LinkedTo(Old) \subseteq Added'
  BY <1>5 DEF Added
<1> QED
  BY <1>0, <1>2, <1>3, <1>4, <1>5, <1>6

\* Only one open update holds the row of the campaign.
LEMMA ExclusiveStep ==
  ASSUME Types, Types', Updating, NEW c \in Requests, Turn(c),
         HasRow(c)' => HasRow(c) \/ \A d \in Requests : ~HasRow(d)
  PROVE  Exclusive'
<1>1. \A d \in Requests \ {c} : HasRow(d)' <=> HasRow(d)
  BY DEF HasRow, Turn
<1> QED
  BY <1>1 DEF Exclusive, Updating

\* Every step keeps what is said of the update of a campaign.
LEMMA UpdatingStep ==
  ASSUME Types, Creation, Updating, [Next]_vars
  PROVE  Updating'
<1>0. Types' /\ Placed /\ Placed' /\ LinkTypes /\ Faulty /\ Faulty'
  BY StepCases DEF Types
<1>00. /\ at \in [Requests -> Steps] /\ answer \in [Requests -> Words] /\ Old \notin Requests
       /\ unlinked \in Marks /\ before \in Marks /\ added \in Marks
       /\ faults \in Nat /\ faults' \in Nat /\ (Fault => faults' > 0 /\ faults' >= faults)
  BY <1>0, TablesAssumption DEF Placed, Typed, LinkTypes, Faulty, Fault
<1>1. CASE UNCHANGED vars
  BY <1>1 DEF vars, Updating, UpdatingAt, EndedAt, Ended, Exclusive, HasRow, LinkedTo, Added,
     campaignTables, linkVars
<1>2. ASSUME NEW c \in Requests, Turn(c), Frame(c)
      PROVE  Updating'
  <2>0. UpdatingAt(c) /\ EndedAt(c) /\ CreationAt(c)
    BY DEF Updating, Creation
  <2>1. ASSUME UNCHANGED <<links, unlinked, linkVars>>, faults' >= faults
        PROVE  \A d \in Requests \ {c} : UpdatingAt(d)' /\ EndedAt(d)'
    <3>1. Added' = Added /\ LinkedTo(Old)' = LinkedTo(Old)
      BY <2>1 DEF Added, LinkedTo, linkVars
    <3>2. \A d \in Requests : UpdatingAt(d)
      BY DEF Updating
    <3> QED
      BY <1>00, <1>2, <2>1, <3>1, <3>2, OthersUpdating DEF linkVars, UpdatingAt
  <2>2. ASSUME at'[c] # "idle", job'[c].kind # "updateCampaign", UNCHANGED <<links, unlinked, linkVars>>,
               faults' >= faults, at'[c] \in {"linkGroup", "linkRecipients"} => added[c] = {}
        PROVE  Updating'
    <3>1. at'[c] \notin {"unlink", "link", "late", "commitUpdate"}
      BY <1>0, <2>2 DEF Placed, PlacedAt, Active, Places, RecipientPlaces, GroupPlaces, LinkPlaces
    <3>2. UpdatingAt(c)' /\ EndedAt(c)'
      BY <2>2, <3>1 DEF UpdatingAt, EndedAt, Ended, linkVars
    <3>3. Exclusive'
      BY <1>0, <1>2, <2>2, ExclusiveStep DEF HasRow
    <3> QED
      BY <2>1, <2>2, <3>2, <3>3 DEF Updating
  <2>3. CASE (ByRecipients(c) /\ RecipientFrame) \/ (ByGroups(c) /\ GroupFrame)
    <3>1. UNCHANGED <<links, unlinked, linkVars>> /\ faults' >= faults
      BY <1>00, <2>3 DEF ByRecipients, ByGroups, RecipientFrame, GroupFrame, campaignTables
    <3>2. job'[c].kind \notin LinkKinds
      BY <2>3 DEF ByRecipients, ByGroups, RecipientKinds, GroupKinds, LinkKinds
    <3>3. at'[c] \notin {"linkGroup", "linkRecipients"}
      BY <1>0, <3>2 DEF Placed, PlacedAt, Active, Places, RecipientPlaces, GroupPlaces, LinkPlaces,
         LinkKinds
    <3> QED
      BY <1>2, <2>2, <3>1, <3>2, <3>3 DEF LinkKinds, Turn
  <2>4. CASE ByFailure(c) /\ Fault
    <3>1. /\ UNCHANGED <<links, linkVars>> /\ faults' > 0 /\ faults' >= faults
          /\ at'[c] = "done" /\ answer'[c] = "refused"
      BY <1>00, <2>4, FailTypes DEF ByFailure, RequestFails
    <3>2. unlinked' = [unlinked EXCEPT ![c] = {}]
      BY <2>4 DEF ByFailure, RequestFails, ForgetsUnlinked
    <3>3. Added' = Added /\ LinkedTo(Old)' = LinkedTo(Old)
      BY <3>1 DEF Added, LinkedTo, linkVars
    <3>4. \A d \in Requests \ {c} : UpdatingAt(d)' /\ EndedAt(d)'
      BY <1>00, <1>2, <3>1, <3>2, <3>3, OthersUpdating DEF linkVars, UpdatingAt, Updating, Marks
    <3>5. UpdatingAt(c)' /\ EndedAt(c)'
      BY <3>1 DEF UpdatingAt, EndedAt
    <3>6. Exclusive'
      BY <1>0, <1>2, <3>1, ExclusiveStep DEF HasRow
    <3> QED
      BY <3>4, <3>5, <3>6 DEF Updating
  <2>5. CASE ByLinks(c) /\ LinkFrame
    <3>0. faults' = faults /\ faults' >= faults
      BY <1>00, <2>5 DEF LinkFrame
    <3>1. CASE CreateCampaign(c, job'[c])
      <4>1. UNCHANGED <<links, unlinked, linkVars>> /\ job'[c].kind = "createCampaign" /\ at[c] = "idle"
        BY <3>1 DEF CreateCampaign, campaignTables, Begins
      <4> QED
        BY <1>2, <2>0, <2>2, <3>0, <4>1 DEF Turn, UpdatingAt
    <3>2. CASE UpdateCampaign(c, job'[c])
      <4>1. /\ UNCHANGED <<links, unlinked, linkVars>> /\ at[c] = "idle"
            /\ at'[c] \in {"unlink", "done"} /\ \A d \in Requests : ~HasRow(d)
        BY <1>00, <3>2 DEF UpdateCampaign, campaignTables, Begins, GoesIf
      <4>2. UpdatingAt(c)' /\ EndedAt(c)'
        BY <2>0, <4>1 DEF UpdatingAt, EndedAt, linkVars
      <4>3. Exclusive'
        BY <1>0, <1>2, <4>1, ExclusiveStep
      <4> QED
        BY <2>1, <3>0, <4>1, <4>2, <4>3 DEF Updating
    <3>3. CASE LinkGroup(c)
      <4>1. UNCHANGED <<links, unlinked, linkVars, job>> /\ at[c] = "linkGroup"
        BY <3>3 DEF LinkGroup
      <4>2. job'[c].kind = "createCampaign"
        BY <1>0, <4>1 DEF Placed, PlacedAt, Active, Places, RecipientPlaces, GroupPlaces, LinkPlaces
      <4> QED
        BY <1>2, <2>0, <2>2, <3>0, <4>1, <4>2 DEF Turn, UpdatingAt
    <3>4. CASE LinkRecipients(c)
      <4>1. ~Linkable(c, job[c].ids) /\ at[c] = "linkRecipients" /\ UNCHANGED <<unlinked, before, job>>
        BY <1>00, <2>0, <3>4 DEF Linkable, CreationAt, LinkRecipients
      <4>2. links' = links /\ added' = [added EXCEPT ![c] = {}]
        BY <3>4, <4>1 DEF LinkRecipients, LinkRecipientsToCampaign, LinksOf
      <4>3. added' = added
        BY <1>00, <2>0, <4>1, <4>2 DEF UpdatingAt, Marks
      <4>4. job'[c].kind = "createCampaign"
        BY <1>0, <4>1 DEF Placed, PlacedAt, Active, Places, RecipientPlaces, GroupPlaces, LinkPlaces
      <4> QED
        BY <1>2, <2>0, <2>2, <3>0, <4>1, <4>2, <4>3, <4>4 DEF Turn, UpdatingAt, linkVars
    <3>5. CASE CopyDraft(c) \/ CommitCampaign(c)
      <4>1. /\ UNCHANGED <<links, unlinked, linkVars, job>>
            /\ at[c] \in {"copyDraft", "commitCampaign"} /\ at'[c] \in {"commitCampaign", "done"}
        BY <1>00, <3>5 DEF CopyDraft, CommitCampaign, Goes, Answers
      <4>2. job'[c].kind = "createCampaign"
        BY <1>0, <4>1 DEF Placed, PlacedAt, Active, Places, RecipientPlaces, GroupPlaces, LinkPlaces
      <4> QED
        BY <1>2, <2>2, <3>0, <4>1, <4>2 DEF Turn
    <3>6. CASE Unlink(c)
      <4>1. /\ at[c] = "unlink" /\ UNCHANGED <<links, added, job>>
            /\ unlinked' = [unlinked EXCEPT ![c] = LinkedTo(Old)]
            /\ before' = [before EXCEPT ![c] = LinkedTo(Old)]
            /\ at'[c] = IF job[c].ids = {} THEN "commitUpdate" ELSE "link"
        BY <1>00, <3>6 DEF Unlink, Goes
      <4>2. Added' = Added /\ LinkedTo(Old)' = LinkedTo(Old)
        BY <4>1 DEF Added, LinkedTo
      <4>3. unlinked'[c] = LinkedTo(Old) /\ before'[c] = LinkedTo(Old) /\ added'[c] = {}
        BY <1>00, <2>0, <4>1 DEF UpdatingAt, Marks
      <4>4. UpdatingAt(c)' /\ EndedAt(c)'
        BY <4>1, <4>2, <4>3 DEF UpdatingAt, EndedAt, Ended
      <4>5. \A d \in Requests \ {c} : UpdatingAt(d)' /\ EndedAt(d)'
        BY <1>00, <1>2, <3>0, <4>1, <4>2, OthersUpdating DEF UpdatingAt, Updating, Marks
      <4>6. Exclusive'
        BY <1>0, <1>2, <4>1, ExclusiveStep DEF HasRow
      <4> QED
        BY <4>4, <4>5, <4>6 DEF Updating
    <3>7. CASE Link(c)
      <4>1. /\ at[c] = "link" /\ UNCHANGED <<before, job>> /\ added[c] = {}
            /\ unlinked[c] \intersect job[c].ids = {} /\ LinkRecipientsToCampaign(c, Old)
            /\ at'[c] = IF Linkable(Old, job[c].ids) THEN "commitUpdate" ELSE "done"
        BY <1>00, <2>0, <3>7 DEF Link, InTheWay, GoesIf, UpdatingAt
      <4>2. unlinked' = unlinked \/ (~Linkable(Old, job[c].ids) /\ unlinked' = [unlinked EXCEPT ![c] = {}])
        BY <3>7 DEF Link, ForgetsUnlinked
      <4>3. \A d \in Requests \ {c} : unlinked'[d] = unlinked[d] /\ added'[d] = added[d]
        BY <1>00, <4>1, <4>2, LinkingAdds DEF Marks
      <4>4. \A d \in Requests \ {c} : UpdatingAt(d)' /\ EndedAt(d)'
        BY <1>00, <1>2, <3>0, <4>1, <4>3, LinkingAdds, OthersUpdating DEF UpdatingAt, Updating
      <4>5. UpdatingAt(c)'
        BY <2>0, <4>1, <4>2, LinkingAdds DEF UpdatingAt
      <4>6. EndedAt(c)'
        <5>1. CASE Linkable(Old, job[c].ids)
          BY <4>1, <5>1 DEF EndedAt, Ended
        <5>2. CASE ~Linkable(Old, job[c].ids)
          BY <2>0, <4>1, <5>2, LinkingAdds DEF EndedAt, UpdatingAt
        <5> QED
          BY <5>1, <5>2
      <4>7. Exclusive'
        BY <1>0, <1>2, <4>1, ExclusiveStep DEF HasRow
      <4> QED
        BY <4>4, <4>5, <4>6, <4>7 DEF Updating
    <3>8. CASE TransactionTimesOut(c)
      <4>1. /\ at[c] = "link" /\ UNCHANGED <<links, linkVars, job>> /\ at'[c] = "late"
            /\ unlinked[c] \intersect job[c].ids # {} /\ unlinked' = [unlinked EXCEPT ![c] = {}]
        BY <1>00, <3>8 DEF TransactionTimesOut, ForgetsUnlinked, Goes
      <4>2. Added' = Added /\ LinkedTo(Old)' = LinkedTo(Old)
        BY <4>1 DEF Added, LinkedTo, linkVars
      <4>3. \A d \in Requests \ {c} : UpdatingAt(d)' /\ EndedAt(d)'
        BY <1>00, <1>2, <3>0, <4>1, <4>2, OthersUpdating DEF UpdatingAt, Updating, Marks, linkVars
      <4>4. UpdatingAt(c)' /\ EndedAt(c)'
        BY <2>0, <4>1 DEF UpdatingAt, EndedAt, Ended, linkVars
      <4>5. Exclusive'
        BY <1>0, <1>2, <4>1, ExclusiveStep DEF HasRow
      <4> QED
        BY <4>3, <4>4, <4>5 DEF Updating
    <3>9. CASE LinkLate(c)
      <4>1. /\ at[c] = "late" /\ UNCHANGED <<before, job, unlinked>> /\ added[c] = {}
            /\ before[c] \intersect job[c].ids # {} /\ LinkRecipientsToCampaign(c, Old)
            /\ at'[c] = "done" /\ answer'[c] = "refused"
        BY <1>00, <2>0, <3>9 DEF LinkLate, Answers, UpdatingAt
      <4>2. \A d \in Requests \ {c} : UpdatingAt(d)' /\ EndedAt(d)'
        BY <1>00, <1>2, <3>0, <4>1, LinkingAdds, OthersUpdating DEF UpdatingAt, Updating
      <4>3. UpdatingAt(c)' /\ EndedAt(c)'
        BY <4>1 DEF UpdatingAt, EndedAt
      <4>4. Exclusive'
        BY <1>0, <1>2, <4>1, ExclusiveStep DEF HasRow
      <4> QED
        BY <4>2, <4>3, <4>4 DEF Updating
    <3>10. CASE CommitUpdate(c)
      <4>1. /\ at[c] = "commitUpdate" /\ UNCHANGED <<linkVars, job>>
            /\ at'[c] = "done" /\ answer'[c] = "ok" /\ unlinked' = [unlinked EXCEPT ![c] = {}]
        BY <1>00, <3>10 DEF CommitUpdate, ForgetsUnlinked, Answers
      <4>2. HasRow(c) /\ \A d \in Requests \ {c} : at[d] \notin {"link", "commitUpdate"}
        BY <1>0, <4>1 DEF Updating, Exclusive, HasRow, Placed, PlacedAt, Active, Places,
           RecipientPlaces, GroupPlaces, LinkPlaces
      <4>3. \A d \in Requests \ {c} : UpdatingAt(d)' /\ EndedAt(d)'
        BY <1>00, <1>2, <3>0, <4>1, <4>2, OthersUpdating DEF Marks, linkVars
      <4>4. UpdatingAt(c)' /\ EndedAt(c)'
        BY <2>0, <4>1 DEF UpdatingAt, EndedAt, linkVars
      <4>5. Exclusive'
        BY <1>0, <1>2, <4>1, ExclusiveStep DEF HasRow
      <4> QED
        BY <4>3, <4>4, <4>5 DEF Updating
    <3> QED
      BY <2>5, <3>1, <3>2, <3>3, <3>4, <3>5, <3>6, <3>7, <3>8, <3>9, <3>10
         DEF ByLinks, LinkStep, LinkRequest
  <2> QED
    BY <1>2, <2>3, <2>4, <2>5 DEF Frame
<1> QED
  BY <1>1, <1>2, StepCases

\* It is invariant.
LEMMA UpdatingHolds == Spec => []Updating
<1>1. Init => Updating
  BY DEF Init, Updating, Exclusive, HasRow, UpdatingAt, EndedAt, Ended
<1>2. Types /\ Creation /\ Updating /\ [Next]_vars => Updating'
  BY UpdatingStep
<1> QED
  BY <1>1, <1>2, TypesHold, CreationHolds, PTL DEF Spec

\* An update that asks for a recipient already linked never succeeds, and one that
\* is refused leaves new links behind only then, or after a failure.
THEOREM UpdatesEnd == Spec => []UpdateOutcome
<1>1. Updating => UpdateOutcome
  BY DEF Updating, EndedAt, UpdateOutcome
<1> QED
  BY <1>1, UpdatingHolds, PTL

\* An update that succeeds leaves the links it was asked for, and no others than
\* requests whose transaction had ended made beside it.
THEOREM UpdatesLink == Spec => UpdateLinksAsAsked
<1> DEFINE Good(c) == LET now == {e \in Emails : <<Old, e>> \in links'} IN
                      /\ job[c].ids \subseteq now
                      /\ now \ job[c].ids \subseteq UNION {added[d] : d \in Requests \ {c}}
           Asks(c) == job[c].kind = "updateCampaign" /\ answer[c] = "none" /\ answer'[c] = "ok"
<1>1. ASSUME Types, Creation, Updating, [Next]_vars, NEW c \in Requests, Asks(c) PROVE Good(c)
  <2>0. /\ at \in [Requests -> Steps] /\ answer \in [Requests -> Words]
        /\ UpdatingAt(c) /\ Placed
    BY <1>1 DEF Types, Placed, Typed, Updating
  <2>1. CommitUpdate(c)
    <3>1. answer' # answer
      BY <1>1
    <3>2. PICK b \in Requests : Turn(b) /\ Frame(b)
      BY <1>1, <3>1, StepCases DEF vars
    <3>3. b = c
      BY <1>1, <3>2 DEF Turn
    <3>4. job[c] # NoJob /\ job'[c].kind = "updateCampaign" /\ at[c] # "idle"
      <4>1. job[c].kind = "updateCampaign"
        BY <1>1
      <4>2. job[c] # NoJob
        BY <4>1 DEF NoJob
      <4>3. at[c] # "idle"
        BY <2>0, <4>2 DEF Placed, PlacedAt
      <4>4. job'[c] = job[c]
        BY <3>2, <3>3, <4>3 DEF Turn
      <4> QED
        BY <4>1, <4>2, <4>3, <4>4
    <3>5. ~ByRecipients(c) /\ ~ByGroups(c)
      BY <3>4 DEF ByRecipients, ByGroups, RecipientKinds, GroupKinds
    <3>6. ~ByFailure(c)
      BY <1>1, FailTypes DEF ByFailure
    <3>7. LinkStep(c)
      BY <3>2, <3>3, <3>4, <3>5, <3>6 DEF Frame, ByLinks
    <3>8. at[c] \notin {"linkGroup", "linkRecipients", "copyDraft", "commitCampaign"}
      BY <1>1, <2>0, <3>4 DEF Placed, PlacedAt, Active, Places, RecipientPlaces, GroupPlaces, LinkPlaces
    <3>9. ~Unlink(c) /\ ~TransactionTimesOut(c) /\ ~LinkLate(c) /\ ~Link(c)
      BY <1>1, <2>0 DEF Unlink, TransactionTimesOut, LinkLate, Link, Goes, GoesIf, Answers
    <3> QED
      BY <3>7, <3>8, <3>9 DEF LinkStep, LinkGroup, LinkRecipients, CopyDraft, CommitCampaign
  <2>2. /\ at[c] = "commitUpdate" /\ links' = links \ LinksOf(Old, unlinked[c])
    BY <2>1 DEF CommitUpdate
  <2>3. {e \in Emails : <<Old, e>> \in links'} = LinkedTo(Old) \ unlinked[c]
    BY <2>2 DEF LinkedTo, LinksOf
  <2>4. job[c].ids \subseteq LinkedTo(Old) \ unlinked[c]
    BY <2>0, <2>2 DEF UpdatingAt
  <2>5. (LinkedTo(Old) \ unlinked[c]) \ job[c].ids \subseteq UNION {added[d] : d \in Requests \ {c}}
    BY <2>0, <2>2 DEF UpdatingAt, Added
  <2> QED
    BY <2>3, <2>4, <2>5
<1>2. Types /\ Creation /\ Updating /\ [Next]_vars => [\A c \in Requests : Asks(c) => Good(c)]_vars
  BY <1>1
<1> QED
  BY <1>2, TypesHold, CreationHolds, UpdatingHolds, PTL DEF Spec, UpdateLinksAsAsked

-----------------------------------------------------------------------------
(***************************************************************************)
(* What a request sees of the recipients that the others write             *)
(***************************************************************************)

Written(c) == NoWrites \/ Writes(c, recipient')

\* Request c keeps to its own books.
OwnBooks(c) ==
  /\ \A d \in Requests \ {c} :
       /\ line'[d] = line[d] /\ seen'[d] = seen[d] /\ wrote'[d] = wrote[d]
       /\ fresh'[d] = fresh[d] /\ counted'[d] = counted[d] /\ saved'[d] = saved[d]
       /\ d \in crossed <=> d \in crossed'
  /\ crossed \subseteq crossed'

\* A step of a recipients' request writes its own books, and the table by Writes.
LEMMA OwnSteps ==
  ASSUME Types, NEW c \in Requests, RecipientStep(c)
  PROVE  OwnBooks(c) /\ Written(c)
<1>0. RecipientTypes
  BY DEF Types
<1> USE DEF RecipientTypes, Marks, OwnBooks, Written, importVars
<1>1. CASE InsertRecipient(c)
  <2>1. Written(c)
    BY <1>1 DEF InsertRecipient, Writes
  <2>2. OwnBooks(c)
    BY <1>0, <1>1 DEF InsertRecipient
  <2> QED
    BY <2>1, <2>2
<1>2. CASE InsertRecipients(c)
  <2>1. Written(c)
    BY <1>2 DEF InsertRecipients, Writes
  <2>2. OwnBooks(c)
    BY <1>0, <1>2 DEF InsertRecipients
  <2> QED
    BY <2>1, <2>2
<1>3. CASE InsertRecipientsFails(c)
  BY <1>0, <1>3 DEF InsertRecipientsFails
<1>4. CASE SkipLine(c)
  BY <1>0, <1>4 DEF SkipLine, NextLine
<1>5. CASE FindLine(c)
  BY <1>0, <1>5 DEF FindLine
<1>6. CASE WriteLine(c)
  BY <1>0, <1>6 DEF WriteLine, NextLine
<1>7. CASE RowGone(c)
  BY <1>0, <1>7 DEF RowGone, NextLine
<1>8. CASE DuplicateEmail(c)
  BY <1>0, <1>8 DEF DuplicateEmail, Aborts
<1>9. CASE DeadlockDetected(c)
  BY <1>0, <1>9 DEF DeadlockDetected, Aborts
<1>10. CASE StatementFails(c)
  BY <1>0, <1>10 DEF StatementFails, Aborts
<1>11. CASE Commit(c)
  <2>1. Written(c)
    BY <1>11 DEF Commit, Writes
  <2>2. OwnBooks(c)
    BY <1>0, <1>11 DEF Commit
  <2> QED
    BY <2>1, <2>2
<1>12. CASE CommitAborted(c)
  BY <1>0, <1>12 DEF CommitAborted
<1> QED
  BY <1>1, <1>2, <1>3, <1>4, <1>5, <1>6, <1>7, <1>8, <1>9, <1>10, <1>11, <1>12 DEF RecipientStep

\* So does its first step.
LEMMA OwnRequests ==
  ASSUME Types, NEW c \in Requests, NEW j \in Jobs, RecipientRequest(c, j)
  PROVE  OwnBooks(c) /\ Written(c)
<1>0. RecipientTypes
  BY DEF Types
<1> USE DEF RecipientTypes, Marks, OwnBooks, Written, importVars
<1>1. CASE CreateRecipient(c, j)
  BY <1>0, <1>1 DEF CreateRecipient
<1>2. CASE CreateRecipients(c, j)
  BY <1>0, <1>2 DEF CreateRecipients
<1>3. CASE ImportRecipientsFromCsv(c, j)
  BY <1>0, <1>3 DEF ImportRecipientsFromCsv
<1>4. CASE UpdateRecipientStatus(c, j)
  <2>1. Written(c)
    BY <1>4 DEF UpdateRecipientStatus, Writes
  <2>2. OwnBooks(c)
    BY <1>0, <1>4 DEF UpdateRecipientStatus
  <2> QED
    BY <2>1, <2>2
<1>5. CASE RemoveRecipient(c, j)
  <2>1. Written(c)
    BY <1>5 DEF RemoveRecipient, Writes
  <2>2. OwnBooks(c)
    BY <1>0, <1>5 DEF RemoveRecipient
  <2> QED
    BY <2>1, <2>2
<1> QED
  BY <1>1, <1>2, <1>3, <1>4, <1>5 DEF RecipientRequest

\* So does every step of the whole.
LEMMA FrameBooks ==
  ASSUME Types, NEW c \in Requests, Frame(c)
  PROVE  OwnBooks(c) /\ Written(c) /\ faults \in Nat /\ faults' \in Nat /\ faults' >= faults
<1>1. faults \in Nat
  BY TablesAssumption DEF Types, Faulty
<1>2. CASE ByRecipients(c) /\ RecipientFrame
  BY <1>1, <1>2, OwnSteps, OwnRequests DEF ByRecipients, RecipientFrame, Fault
<1>3. CASE (ByGroups(c) /\ GroupFrame) \/ (ByLinks(c) /\ LinkFrame)
  BY <1>1, <1>3 DEF ByGroups, ByLinks, GroupFrame, LinkFrame, OwnBooks, Written, NoWrites,
     recipientVars, importVars
<1>4. CASE ByFailure(c) /\ Fault
  BY <1>1, <1>4 DEF ByFailure, RequestFails, OwnBooks, Written, NoWrites, Fault,
     recipientVars, importVars
<1> QED
  BY <1>2, <1>3, <1>4 DEF Frame

\* The rows that others insert, delete or set to UNSUBSCRIBED are on record.
LEMMA OthersSee ==
  ASSUME Types, NEW c \in Requests, NEW d \in Requests \ {c}, Frame(c)
  PROVE  /\ ~Active(d) => contested'[d] = contested[d]
         /\ contested[d] \subseteq contested'[d] /\ overtaken[d] \subseteq overtaken'[d]
         /\ \A e \in Emails : Active(d) /\ Exists(e) # Exists(e)' => e \in contested'[d]
         /\ at[d] = "write" /\ InTransaction(d) /\ recipient[Line(d).email] # "UNSUBSCRIBED"
            /\ recipient'[Line(d).email] = "UNSUBSCRIBED"
            => Line(d).email \in overtaken'[d]
<1>0. RecipientTypes /\ Written(c)
  BY FrameBooks DEF Types
<1>1. CASE NoWrites
  BY <1>1 DEF NoWrites, Exists
<1>2. CASE Writes(c, recipient')
  <2>1. /\ contested'[d] = IF Active(d)
                           THEN contested[d] \union {e \in Emails : Exists(e) # (recipient'[e] # "none")}
                           ELSE contested[d]
        /\ overtaken'[d] = IF InTransaction(d) /\ at[d] = "write"
                           THEN overtaken[d] \union {e \in {Line(d).email} :
                                  recipient[e] # "UNSUBSCRIBED" /\ recipient'[e] = "UNSUBSCRIBED"}
                           ELSE overtaken[d]
    BY <1>0, <1>2 DEF Writes, RecipientTypes, Marks
  <2> QED
    BY <2>1 DEF Exists
<1> QED
  BY <1>0, <1>1, <1>2 DEF Written

\* A write does not count against its own request.
LEMMA OwnHistories ==
  ASSUME Types, NEW c \in Requests, Written(c)
  PROVE  contested'[c] = contested[c] /\ overtaken'[c] = overtaken[c]
BY DEF Types, RecipientTypes, Marks, Written, NoWrites, Writes

-----------------------------------------------------------------------------
(***************************************************************************)
(* What is counted and what is saved                                       *)
(***************************************************************************)

\* What CountedMeansSaved says of a request.
CountedAt(c) ==
  answer[c] = "ok" =>
    IF job[c].kind = "import"
    THEN \/ saved[c] = counted[c]
         \/ saved[c] = {} /\ (contested[c] # {} \/ c \in crossed \/ faults > 0)
    ELSE counted[c] \ saved[c] \subseteq contested[c]

\* A request saves nothing before it ends; what it found, or did not find, is so
\* still unless another request inserted or deleted it meanwhile; and an import is
\* not aborted without a cause.
SavingAt(c) ==
  /\ at[c] # "done" => saved[c] = {}
  /\ at[c] # "done" /\ job[c].kind # "import" => counted[c] = {}
  /\ at[c] = "idle" => counted[c] = {}
  /\ at[c] = "createMany" => \A e \in fresh[c] : Exists(e) => e \in contested[c]
  /\ at[c] = "write" =>
       ((seen[c] = "none") # (View(c, Line(c).email) = "none") => Line(c).email \in contested[c])
  /\ at[c] = "aborted" => contested[c] # {} \/ c \in crossed \/ faults > 0

Saving == \A c \in Requests : SavingAt(c) /\ CountedAt(c)

\* A step keeps what is said of the requests that do not move.
LEMMA OthersSaving ==
  ASSUME Types, Saving, NEW c \in Requests, NEW d \in Requests \ {c}, Turn(c), Frame(c)
  PROVE  SavingAt(d)' /\ CountedAt(d)'
<1>0. /\ SavingAt(d) /\ CountedAt(d) /\ LinedAt(d) /\ Placed /\ PlacedAt(d) /\ RecipientTypes
  BY DEF Saving, Types, Placed
<1>1. /\ at'[d] = at[d] /\ job'[d] = job[d] /\ answer'[d] = answer[d]
      /\ line'[d] = line[d] /\ seen'[d] = seen[d] /\ wrote'[d] = wrote[d]
      /\ fresh'[d] = fresh[d] /\ counted'[d] = counted[d] /\ saved'[d] = saved[d]
      /\ (d \in crossed <=> d \in crossed') /\ faults \in Nat /\ faults' \in Nat /\ faults' >= faults
  BY FrameBooks DEF Turn, OwnBooks
<1>2. /\ ~Active(d) => contested'[d] = contested[d]
      /\ contested[d] \subseteq contested'[d]
      /\ \A e \in Emails : Active(d) /\ Exists(e) # Exists(e)' => e \in contested'[d]
  BY OthersSee
<1>3. faults > 0 => faults' > 0
  BY <1>1
<1>4. CountedAt(d)'
  <2> HIDE DEF Active
  <2>1. answer[d] = "ok" => ~Active(d)
    BY <1>0 DEF PlacedAt, Active
  <2> QED
    BY <1>0, <1>1, <1>2, <1>3, <2>1 DEF CountedAt
<1>5. ASSUME at[d] = "createMany" PROVE \A e \in fresh'[d] : Exists(e)' => e \in contested'[d]
  <2>1. fresh[d] \subseteq Emails /\ Active(d)
    BY <1>0, <1>5 DEF RecipientTypes, Marks, Active
  <2> QED
    BY <1>0, <1>1, <1>2, <1>5, <2>1 DEF SavingAt, Exists
<1>6. ASSUME at[d] = "write"
      PROVE  (seen'[d] = "none") # (View(d, Line(d).email)' = "none") => Line(d).email' \in contested'[d]
  <2> DEFINE e == Line(d).email
  <2>1. e \in Emails /\ Active(d) /\ Line(d).email' = e
    BY <1>0, <1>1, <1>6, LineFacts DEF LinedAt, Active, Line
  <2>2. (seen[d] = "none") # (View(d, e) = "none") => e \in contested[d]
    BY <1>0, <1>6 DEF SavingAt
  <2>3. View(d, Line(d).email)' = IF wrote[d][e] # "none" THEN wrote[d][e] ELSE recipient'[e]
    BY <1>1, <2>1 DEF View
  <2>4. View(d, e) = IF wrote[d][e] # "none" THEN wrote[d][e] ELSE recipient[e]
    BY DEF View
  <2> HIDE DEF e
  <2>5. (recipient[e] # "none") # (recipient'[e] # "none") => e \in contested'[d]
    BY <1>2, <2>1 DEF Exists
  <2> QED
    BY <1>1, <1>2, <2>1, <2>2, <2>3, <2>4, <2>5 DEF e
<1> QED
  BY <1>0, <1>1, <1>2, <1>3, <1>4, <1>5, <1>6 DEF SavingAt

\* The steps of a group's or a campaign's request, and failures.
LEMMA BesideSaving ==
  ASSUME Types, Saving, Placed', NEW c \in Requests, Turn(c),
         (ByGroups(c) /\ GroupFrame) \/ (ByLinks(c) /\ LinkFrame) \/ (ByFailure(c) /\ Fault)
  PROVE  SavingAt(c)' /\ CountedAt(c)'
<1>0. SavingAt(c) /\ PlacedAt(c) /\ PlacedAt(c)'
  BY DEF Saving, Types, Placed
<1>1. CASE ByFailure(c)
  <2>1. at'[c] = "done" /\ answer'[c] = "refused"
    BY <1>1, FailTypes DEF ByFailure
  <2> QED
    BY <1>0, <2>1 DEF SavingAt, CountedAt
<1>2. CASE (ByGroups(c) /\ GroupFrame) \/ (ByLinks(c) /\ LinkFrame)
  <2>1. UNCHANGED recipientVars /\ job'[c].kind \in GroupKinds \union LinkKinds
    BY <1>2 DEF ByGroups, ByLinks
  <2>2. at'[c] \notin {"idle", "createMany", "write", "aborted"} /\ job'[c].kind # "import"
    BY <1>0, <2>1 DEF Turn, PlacedAt, Active, Places, RecipientPlaces, GroupPlaces, LinkPlaces,
       GroupKinds, LinkKinds
  <2>3. at[c] # "done" /\ (at[c] = "idle" \/ job[c].kind # "import")
    BY <2>2 DEF Turn
  <2>4. saved[c] = {} /\ counted[c] = {}
    BY <1>0, <2>3 DEF SavingAt
  <2>5. saved' = saved /\ counted' = counted
    BY <2>1 DEF recipientVars
  <2> QED
    BY <2>2, <2>4, <2>5 DEF SavingAt, CountedAt
<1> QED
  BY <1>1, <1>2

\* The steps of the recipients' requests keep it for the one that moves.
LEMMA RecipientStepSaving ==
  ASSUME Types, Saving, NEW c \in Requests, RecipientStep(c)
  PROVE  SavingAt(c)' /\ CountedAt(c)'
<1>0. /\ SavingAt(c) /\ CountedAt(c) /\ LinedAt(c) /\ Placed /\ PlacedAt(c) /\ RecipientTypes
      /\ at \in [Requests -> Steps] /\ answer \in [Requests -> Words] /\ faults \in Nat
  BY TablesAssumption DEF Saving, Types, Placed, Typed, Faulty
<1>00. contested'[c] = contested[c]
  BY OwnSteps, OwnHistories
<1> USE DEF RecipientTypes, Marks
<1>1. CASE InsertRecipient(c)
  <2>1. /\ at'[c] = "done" /\ counted'[c] = saved'[c]
    BY <1>0, <1>1 DEF InsertRecipient, AnswersIf, Answers
  <2> QED
    BY <1>00, <2>1 DEF SavingAt, CountedAt
<1>2. CASE InsertRecipients(c)
  <2>1. /\ at[c] = "createMany" /\ at'[c] = "done" /\ job'[c] = job[c]
        /\ counted'[c] = fresh[c] /\ saved'[c] = {e \in fresh[c] : ~Exists(e)}
    BY <1>0, <1>2 DEF InsertRecipients, Answers
  <2>2. job[c].kind # "import"
    BY <1>0, <2>1 DEF PlacedAt, Active, Places, RecipientPlaces, GroupPlaces, LinkPlaces
  <2>3. counted'[c] \ saved'[c] \subseteq contested'[c]
    BY <1>0, <1>00, <2>1 DEF SavingAt
  <2> QED
    BY <2>1, <2>2, <2>3 DEF SavingAt, CountedAt
<1>3. CASE InsertRecipientsFails(c)
  <2>1. /\ at[c] = "createMany" /\ at'[c] = "done" /\ job'[c] = job[c]
        /\ counted'[c] = counted[c] /\ saved'[c] = saved[c]
    BY <1>0, <1>3 DEF InsertRecipientsFails, Answers
  <2>2. job[c].kind # "import"
    BY <1>0, <2>1 DEF PlacedAt, Active, Places, RecipientPlaces, GroupPlaces, LinkPlaces
  <2>3. counted'[c] = {}
    BY <1>0, <2>1, <2>2 DEF SavingAt
  <2> QED
    BY <2>1, <2>2, <2>3 DEF SavingAt, CountedAt
<1>4. ASSUME at[c] \in {"find", "write"}, at'[c] = "find", answer' = answer, job' = job,
             saved'[c] = saved[c]
      PROVE  SavingAt(c)' /\ CountedAt(c)'
  <2>1. job[c].kind = "import" /\ answer'[c] = "none"
    BY <1>0, <1>4 DEF PlacedAt, Active, Places, RecipientPlaces, GroupPlaces, LinkPlaces
  <2> QED
    BY <1>0, <1>4, <2>1 DEF SavingAt, CountedAt
<1>5. CASE SkipLine(c)
  BY <1>0, <1>4, <1>5 DEF SkipLine, NextLine, Goes
<1>6. CASE FindLine(c)
  <2>1. job[c].kind = "import" /\ answer'[c] = "none"
    BY <1>0, <1>6 DEF FindLine, Goes, PlacedAt, Active, Places, RecipientPlaces, GroupPlaces, LinkPlaces
  <2>2. /\ at[c] = "find" /\ at'[c] = "write" /\ saved'[c] = saved[c] /\ job' = job
        /\ seen'[c] = View(c, Line(c).email)
    BY <1>0, <1>6 DEF FindLine, Goes
  <2>3. View(c, Line(c).email)' = View(c, Line(c).email)
    BY <1>6 DEF FindLine, View, Line, NoWrites
  <2> QED
    BY <1>0, <2>1, <2>2, <2>3 DEF SavingAt, CountedAt
<1>7. CASE WriteLine(c)
  BY <1>0, <1>4, <1>7 DEF WriteLine, NextLine, Goes
<1>8. CASE RowGone(c)
  BY <1>0, <1>4, <1>8 DEF RowGone, NextLine, Goes
<1>9. ASSUME at[c] \in {"find", "write"}, at'[c] = "aborted", answer' = answer, job' = job,
             saved'[c] = saved[c], contested'[c] # {} \/ c \in crossed' \/ faults' > 0
      PROVE  SavingAt(c)' /\ CountedAt(c)'
  <2>1. job[c].kind = "import" /\ answer'[c] = "none"
    BY <1>0, <1>9 DEF PlacedAt, Active, Places, RecipientPlaces, GroupPlaces, LinkPlaces
  <2> QED
    BY <1>0, <1>9, <2>1 DEF SavingAt, CountedAt
<1>10. CASE DuplicateEmail(c)
  <2>1. Line(c).email \in contested[c]
    BY <1>0, <1>10 DEF DuplicateEmail, SavingAt
  <2> QED
    BY <1>0, <1>00, <1>9, <1>10, <2>1 DEF DuplicateEmail, Aborts, Goes
<1>11. CASE DeadlockDetected(c)
  BY <1>0, <1>9, <1>11 DEF DeadlockDetected, WaitsFor, InTransaction, Aborts, Goes
<1>12. CASE StatementFails(c)
  BY <1>0, <1>9, <1>12 DEF StatementFails, InTransaction, Aborts, Goes, Fault
<1>13. CASE Commit(c)
  <2>1. /\ at'[c] = "done" /\ job'[c].kind = "import" /\ saved'[c] = counted'[c]
    BY <1>0, <1>13 DEF Commit, InTransaction, Answers
  <2> QED
    BY <2>1 DEF SavingAt, CountedAt
<1>14. CASE CommitAborted(c)
  <2>1. /\ at[c] = "aborted" /\ at'[c] = "done" /\ job'[c] = job[c] /\ saved'[c] = saved[c]
        /\ crossed' = crossed /\ faults' = faults
    BY <1>0, <1>14 DEF CommitAborted, Answers
  <2>2. job[c].kind = "import"
    BY <1>0, <2>1 DEF PlacedAt, Active, Places, RecipientPlaces, GroupPlaces, LinkPlaces
  <2>3. saved'[c] = {} /\ (contested'[c] # {} \/ c \in crossed' \/ faults' > 0)
    BY <1>0, <1>00, <2>1 DEF SavingAt
  <2> QED
    BY <2>1, <2>2, <2>3 DEF SavingAt, CountedAt
<1> QED
  BY <1>1, <1>2, <1>3, <1>5, <1>6, <1>7, <1>8, <1>10, <1>11, <1>12, <1>13, <1>14
     DEF RecipientStep

\* So do their first steps.
LEMMA RecipientRequestSaving ==
  ASSUME Types, Saving, NEW c \in Requests, NEW j \in Jobs, RecipientRequest(c, j)
  PROVE  SavingAt(c)' /\ CountedAt(c)'
<1>0. /\ SavingAt(c) /\ PlacedAt(c) /\ RecipientTypes /\ at[c] = "idle" /\ answer[c] = "none"
      /\ at \in [Requests -> Steps] /\ answer \in [Requests -> Words] /\ job \in [Requests -> Jobs \union {NoJob}]
  BY DEF Saving, Types, Placed, PlacedAt, Typed, RecipientRequest, CreateRecipient, CreateRecipients,
     ImportRecipientsFromCsv, UpdateRecipientStatus, RemoveRecipient, Begins
<1>1. saved[c] = {} /\ counted[c] = {}
  BY <1>0 DEF SavingAt
<1>2. saved'[c] = saved[c] /\ counted'[c] = counted[c]
  BY DEF RecipientRequest, CreateRecipient, CreateRecipients, ImportRecipientsFromCsv,
     UpdateRecipientStatus, RemoveRecipient
<1>3. at'[c] \in {"done", "create", "find"} \/ (CreateRecipients(c, j) /\ at'[c] = "createMany")
  BY <1>0 DEF RecipientRequest, CreateRecipient, CreateRecipients, ImportRecipientsFromCsv,
     UpdateRecipientStatus, RemoveRecipient, Goes, GoesIf, Answers, AnswersIf
<1>4. CASE CreateRecipients(c, j)
  <2>1. \A e \in fresh'[c] : ~Exists(e)'
    BY <1>0, <1>4 DEF CreateRecipients, RecipientTypes, Marks, NoWrites, Exists
  <2> QED
    BY <1>1, <1>2, <1>3, <2>1 DEF SavingAt, CountedAt
<1> QED
  BY <1>1, <1>2, <1>3, <1>4 DEF SavingAt, CountedAt

\* Every step keeps it.
LEMMA SavingStep ==
  ASSUME Types, Saving, [Next]_vars
  PROVE  Saving'
<1>1. CASE UNCHANGED vars
  BY <1>1 DEF vars, Saving, SavingAt, CountedAt, Exists, View, Line, recipientVars, importVars
<1>2. ASSUME NEW c \in Requests, Turn(c), Frame(c)
      PROVE  Saving'
  <2>1. SavingAt(c)' /\ CountedAt(c)'
    <3>1. CASE ByRecipients(c)
      BY <3>1, RecipientStepSaving, RecipientRequestSaving DEF ByRecipients
    <3>2. Placed'
      BY StepCases DEF Types
    <3> QED
      BY <1>2, <3>1, <3>2, BesideSaving DEF Frame
  <2>2. \A d \in Requests \ {c} : SavingAt(d)' /\ CountedAt(d)'
    BY <1>2, OthersSaving
  <2> QED
    BY <2>1, <2>2 DEF Saving
<1> QED
  BY <1>1, <1>2, StepCases

\* It is invariant.
LEMMA SavingHolds == Spec => []Saving
<1>1. Init => Saving
  BY DEF Init, Saving, SavingAt, CountedAt
<1>2. Types /\ Saving /\ [Next]_vars => Saving'
  BY SavingStep
<1> QED
  BY <1>1, <1>2, TypesHold, PTL DEF Spec

\* A request that says it created recipients did, those apart that others inserted
\* meanwhile; an import kept all it counts, or nothing and for a cause.
THEOREM Accounted == Spec => []CountedMeansSaved
<1>1. Saving => CountedMeansSaved
  BY DEF Saving, CountedAt, CountedMeansSaved
<1> QED
  BY <1>1, SavingHolds, PTL

-----------------------------------------------------------------------------
(***************************************************************************)
(* An import that nothing disturbs                                         *)
(***************************************************************************)

ValidBefore(j, n) ==
  {j.lines[i].email : i \in {i \in DOMAIN j.lines : i < n /\ j.lines[i].status # "invalid"}}

Undisturbed(c) == contested[c] = {} /\ c \notin crossed /\ faults = 0

\* As long as nothing disturbs it, an import counts the valid lines it has been at.
WholeAt(c) ==
  /\ at[c] \in {"find", "write"} =>
       /\ line[c] <= Len(job[c].lines) + 1
       /\ Undisturbed(c) => counted[c] = ValidBefore(job[c], line[c])
  /\ Ended(c, "import") /\ answer[c] = "ok" /\ Undisturbed(c) => saved[c] = Valid(job[c])

Whole == \A c \in Requests : WholeAt(c)

\* The valid lines before the first, before the next and before the end of the file.
LEMMA ValidLines ==
  ASSUME NEW j \in Jobs, NEW n \in Nat \ {0}
  PROVE  /\ ValidBefore(j, 1) = {}
         /\ n > Len(j.lines) => ValidBefore(j, n) = Valid(j)
         /\ n <= Len(j.lines) =>
              ValidBefore(j, n + 1) = IF j.lines[n].status = "invalid" THEN ValidBefore(j, n)
                                      ELSE ValidBefore(j, n) \union {j.lines[n].email}
<1>1. j.lines \in Seq(Lines) /\ Len(j.lines) \in Nat /\ DOMAIN j.lines = 1 .. Len(j.lines)
  BY JobFacts
<1>2. ValidBefore(j, 1) = {}
  BY <1>1 DEF ValidBefore
<1>3. ASSUME n > Len(j.lines) PROVE ValidBefore(j, n) = Valid(j)
  BY <1>1, <1>3 DEF ValidBefore, Valid
<1>4. ASSUME n <= Len(j.lines)
      PROVE  ValidBefore(j, n + 1) = IF j.lines[n].status = "invalid" THEN ValidBefore(j, n)
                                     ELSE ValidBefore(j, n) \union {j.lines[n].email}
  <2>1. \A i \in 1 .. Len(j.lines) : i < n + 1 <=> i < n \/ i = n
    BY <1>1
  <2>2. n \in DOMAIN j.lines /\ ~(n < n)
    BY <1>1, <1>4
  <2> QED
    BY <1>1, <2>1, <2>2 DEF ValidBefore
<1> QED
  BY <1>2, <1>3, <1>4

\* A step keeps what is said of the imports that do not move.
LEMMA OthersWhole ==
  ASSUME Types, Whole, NEW c \in Requests, NEW d \in Requests \ {c}, Turn(c), Frame(c)
  PROVE  WholeAt(d)'
<1>1. /\ at'[d] = at[d] /\ job'[d] = job[d] /\ answer'[d] = answer[d] /\ line'[d] = line[d]
      /\ counted'[d] = counted[d] /\ saved'[d] = saved[d] /\ WholeAt(d)
  BY FrameBooks DEF Turn, OwnBooks, Whole
<1>2. Undisturbed(d)' => Undisturbed(d)
  <2>1. contested[d] \subseteq contested'[d]
    BY OthersSee
  <2>2. /\ (d \in crossed <=> d \in crossed') /\ faults \in Nat /\ faults' \in Nat /\ faults' >= faults
    BY FrameBooks DEF OwnBooks
  <2> QED
    BY <2>1, <2>2 DEF Undisturbed
<1> QED
  BY <1>1, <1>2 DEF WholeAt, Ended

\* The steps of an import keep it.
LEMMA RecipientStepWhole ==
  ASSUME Types, Saving, Whole, NEW c \in Requests, RecipientStep(c)
  PROVE  WholeAt(c)'
<1>0. /\ SavingAt(c) /\ WholeAt(c) /\ LinedAt(c) /\ Placed /\ PlacedAt(c) /\ RecipientTypes
      /\ at \in [Requests -> Steps] /\ answer \in [Requests -> Words] /\ job' = job
      /\ at[c] \notin {"idle", "done"}
  BY StepTurns DEF Saving, Whole, Types, Placed, Typed, Active
<1>00. Undisturbed(c)' => Undisturbed(c)
  <2>1. contested'[c] = contested[c] /\ crossed \subseteq crossed'
    BY OwnSteps, OwnHistories DEF OwnBooks
  <2>2. faults' = faults \/ Fault
    BY DEF RecipientStep, InsertRecipient, InsertRecipients, InsertRecipientsFails, SkipLine, FindLine,
       WriteLine, RowGone, DuplicateEmail, DeadlockDetected, StatementFails, Commit, CommitAborted
  <2>3. faults' = 0 => faults = 0
    BY <2>2, TablesAssumption DEF Types, Faulty, Fault
  <2> QED
    BY <2>1, <2>3 DEF Undisturbed
<1> USE DEF RecipientTypes, Marks
<1>1. CASE InsertRecipient(c) \/ InsertRecipients(c) \/ InsertRecipientsFails(c)
  <2>1. at'[c] = "done" /\ at[c] \in {"create", "createMany"}
    BY <1>0, <1>1 DEF InsertRecipient, InsertRecipients, InsertRecipientsFails, AnswersIf, Answers
  <2>2. job'[c].kind # "import"
    BY <1>0, <2>1 DEF PlacedAt, Active, Places, RecipientPlaces, GroupPlaces, LinkPlaces
  <2> QED
    BY <2>1, <2>2 DEF WholeAt, Ended
<1>2. ASSUME at[c] \in {"find", "write"}, at'[c] = "find", line'[c] = line[c] + 1,
             line[c] <= Len(job[c].lines),
             Undisturbed(c) =>
               counted'[c] = IF Line(c).status = "invalid" THEN counted[c]
                             ELSE counted[c] \union {Line(c).email}
      PROVE  WholeAt(c)'
  <2>1. job[c] \in Jobs /\ line[c] \in Nat \ {0}
    BY <1>0, <1>2 DEF PlacedAt, LinedAt
  <2>2. Len(job[c].lines) \in Nat
    BY <2>1, JobFacts
  <2>3. line'[c] <= Len(job[c].lines) + 1
    BY <1>2, <2>1, <2>2
  <2>4. Undisturbed(c) => counted[c] = ValidBefore(job[c], line[c])
    BY <1>0, <1>2 DEF WholeAt
  <2>5. Undisturbed(c) => counted'[c] = ValidBefore(job[c], line[c] + 1)
    BY <1>2, <2>1, <2>4, ValidLines DEF Line
  <2> QED
    BY <1>0, <1>00, <1>2, <2>3, <2>5 DEF WholeAt, Ended
<1>3. CASE SkipLine(c)
  BY <1>0, <1>2, <1>3 DEF SkipLine, NextLine, Goes
<1>4. CASE FindLine(c)
  <2>1. at'[c] = "write" /\ at[c] = "find" /\ line'[c] = line[c] /\ counted'[c] = counted[c]
    BY <1>0, <1>4 DEF FindLine, Goes
  <2> QED
    BY <1>0, <1>00, <2>1 DEF WholeAt, Ended
<1>5. CASE WriteLine(c)
  <2>1. at[c] = "write" /\ at'[c] = "find" /\ line'[c] = line[c] + 1
    BY <1>0, <1>5 DEF WriteLine, NextLine, Goes
  <2>2. counted'[c] = counted[c] \union {Line(c).email}
    BY <1>0, <1>5 DEF WriteLine
  <2> QED
    BY <1>0, <1>2, <2>1, <2>2 DEF LinedAt
<1>6. CASE RowGone(c)
  <2>1. at[c] = "write" /\ at'[c] = "find" /\ line'[c] = line[c] + 1
    BY <1>0, <1>6 DEF RowGone, NextLine, Goes
  <2>2. ~Undisturbed(c)
    BY <1>0, <1>6 DEF RowGone, SavingAt, Undisturbed
  <2> QED
    BY <1>0, <1>2, <2>1, <2>2 DEF LinedAt
<1>7. CASE DuplicateEmail(c) \/ DeadlockDetected(c) \/ StatementFails(c)
  <2>1. at'[c] = "aborted"
    BY <1>0, <1>7 DEF DuplicateEmail, DeadlockDetected, StatementFails, Aborts, Goes
  <2> QED
    BY <2>1 DEF WholeAt, Ended
<1>8. CASE Commit(c)
  <2>1. /\ at[c] = "find" /\ at'[c] = "done" /\ line[c] > Len(job[c].lines) /\ saved'[c] = counted[c]
    BY <1>0, <1>8 DEF Commit, InTransaction, Answers
  <2>2. job[c] \in Jobs /\ line[c] \in Nat \ {0}
    BY <1>0, <2>1 DEF PlacedAt, LinedAt
  <2>3. Undisturbed(c) => counted[c] = ValidBefore(job[c], line[c])
    BY <1>0, <2>1 DEF WholeAt
  <2>4. Undisturbed(c) => counted[c] = Valid(job[c])
    BY <2>1, <2>2, <2>3, ValidLines
  <2> QED
    BY <1>0, <1>00, <2>1, <2>4 DEF WholeAt, Valid
<1>9. CASE CommitAborted(c)
  <2>1. at[c] = "aborted" /\ at'[c] = "done"
    BY <1>0, <1>9 DEF CommitAborted, Answers
  <2>2. ~Undisturbed(c)
    BY <1>0, <2>1, TablesAssumption DEF SavingAt, Undisturbed
  <2> QED
    BY <1>00, <2>1, <2>2 DEF WholeAt
<1> QED
  BY <1>1, <1>3, <1>4, <1>5, <1>6, <1>7, <1>8, <1>9 DEF RecipientStep

\* So do the first steps of requests.
LEMMA RecipientRequestWhole ==
  ASSUME Types, Saving, NEW c \in Requests, NEW j \in Jobs, RecipientRequest(c, j)
  PROVE  WholeAt(c)'
<1>0. /\ SavingAt(c) /\ RecipientTypes /\ at[c] = "idle" /\ answer[c] = "none"
      /\ at \in [Requests -> Steps] /\ answer \in [Requests -> Words] /\ job \in [Requests -> Jobs \union {NoJob}]
  BY DEF Saving, Types, Placed, PlacedAt, Typed, RecipientRequest, CreateRecipient, CreateRecipients,
     ImportRecipientsFromCsv, UpdateRecipientStatus, RemoveRecipient, Begins
<1>1. CASE ImportRecipientsFromCsv(c, j)
  <2>1. /\ job'[c] = j /\ line'[c] = 1 /\ counted'[c] = counted[c] /\ answer'[c] # "ok"
    BY <1>0, <1>1 DEF ImportRecipientsFromCsv, Begins, GoesIf, RecipientTypes
  <2>2. counted[c] = {}
    BY <1>0 DEF SavingAt
  <2>4. ValidBefore(j, 1) = {}
    <3>1. 1 \in Nat \ {0}
      OBVIOUS
    <3> QED
      BY <3>1, ValidLines
  <2>3. 1 <= Len(j.lines) + 1
    BY JobFacts
  <2> QED
    <3>1. counted'[c] = ValidBefore(job'[c], line'[c])
      BY <2>1, <2>2, <2>4
    <3>2. line'[c] <= Len(job'[c].lines) + 1
      BY <2>1, <2>3
    <3> QED
      BY <2>1, <3>1, <3>2 DEF WholeAt
<1>2. CASE ~ImportRecipientsFromCsv(c, j)
  <2>1. job'[c].kind # "import" /\ at'[c] \in {"done", "create", "createMany"}
    BY <1>0, <1>2 DEF RecipientRequest, CreateRecipient, CreateRecipients,
       UpdateRecipientStatus, RemoveRecipient, Begins, Goes, GoesIf, Answers, AnswersIf
  <2> QED
    BY <2>1 DEF WholeAt, Ended
<1> QED
  BY <1>1, <1>2

\* Every step keeps it.
LEMMA WholeStep ==
  ASSUME Types, Saving, Whole, [Next]_vars
  PROVE  Whole'
<1>1. CASE UNCHANGED vars
  BY <1>1 DEF vars, Whole, WholeAt, Ended, Undisturbed, recipientVars, importVars
<1>2. ASSUME NEW c \in Requests, Turn(c), Frame(c)
      PROVE  Whole'
  <2>1. WholeAt(c)'
    <3>1. CASE ByRecipients(c)
      BY <3>1, RecipientStepWhole, RecipientRequestWhole DEF ByRecipients
    <3>2. CASE ByGroups(c) \/ ByLinks(c)
      <4>1. PlacedAt(c)' /\ at'[c] # "idle"
        BY <1>2, StepCases DEF Types, Placed, Turn
      <4> QED
        BY <3>2, <4>1 DEF ByGroups, ByLinks, GroupKinds, LinkKinds, WholeAt, Ended, PlacedAt, Active,
           Places, RecipientPlaces, GroupPlaces, LinkPlaces
    <3>3. CASE ByFailure(c)
      BY <3>3, FailTypes DEF ByFailure, WholeAt
    <3> QED
      BY <1>2, <3>1, <3>2, <3>3 DEF Frame
  <2>2. \A d \in Requests \ {c} : WholeAt(d)'
    BY <1>2, OthersWhole
  <2> QED
    BY <2>1, <2>2 DEF Whole
<1> QED
  BY <1>1, <1>2, StepCases

\* An import that meets nobody and no failure keeps every valid line of its file.
THEOREM WholeImports == Spec => []UndisturbedImportIsWhole
<1>1. Init => Whole
  BY DEF Init, Whole, WholeAt, Ended
<1>2. Types /\ Saving /\ Whole /\ [Next]_vars => Whole'
  BY WholeStep
<1>3. Whole => UndisturbedImportIsWhole
  BY DEF Whole, WholeAt, Undisturbed, UndisturbedImportIsWhole
<1> QED
  BY <1>1, <1>2, <1>3, TypesHold, SavingHolds, PTL DEF Spec

-----------------------------------------------------------------------------
(***************************************************************************)
(* Recipients who have unsubscribed                                        *)
(***************************************************************************)

Excused(c, e) == SaysActive(job[c], e) \/ e \in overtaken[c]

\* An import that writes ACTIVE over UNSUBSCRIBED, or is about to, was told so or
\* read the row before it was set.
StaleAt(c) ==
  /\ at[c] = "idle" => \A e \in Emails : wrote[c][e] = "none"
  /\ \A e \in Emails :
       InTransaction(c) /\ wrote[c][e] = "ACTIVE" /\ recipient[e] = "UNSUBSCRIBED" => Excused(c, e)
  /\ at[c] = "write" /\ seen[c] = "ACTIVE" /\ recipient[Line(c).email] = "UNSUBSCRIBED"
     => Excused(c, Line(c).email)

\* A row is written by one open transaction at most.
Locks ==
  \A c, d \in Requests : \A e \in Emails :
    InTransaction(c) /\ InTransaction(d) /\ wrote[c][e] # "none" /\ wrote[d][e] # "none" => c = d

Stale == Locks /\ \A c \in Requests : StaleAt(c)

\* Nobody else changes a row that an open transaction wrote.
LEMMA LockedKept ==
  ASSUME Types, Locks, NEW c \in Requests, NEW d \in Requests \ {c}, Frame(c),
         NEW e \in Emails, InTransaction(d), wrote[d][e] # "none"
  PROVE  recipient'[e] = recipient[e]
<1>0. ~Free(c, e) /\ recipient \in [Emails -> Rowed] /\ fresh \in Marks
  BY DEF Free, LockedBy, Types, RecipientTypes
<1>1. CASE InsertRecipient(c)
  <2>1. e \notin fresh[c]
    BY <1>0, <1>1 DEF InsertRecipient
  <2> QED
    BY <1>0, <1>1, <2>1 DEF InsertRecipient, Writes, WithRows
<1>2. CASE InsertRecipients(c)
  <2>1. e \notin fresh[c]
    BY <1>0, <1>2 DEF InsertRecipients
  <2> QED
    BY <1>0, <1>2, <2>1 DEF InsertRecipients, Writes, WithRows
<1>3. CASE Commit(c)
  <2>1. InTransaction(c) /\ recipient'[e] = View(c, e)
    BY <1>3 DEF Commit, Writes
  <2>2. wrote[c][e] = "none"
    BY <2>1 DEF Locks
  <2> QED
    BY <2>1, <2>2 DEF View
<1>4. ASSUME NEW j \in Jobs, UpdateRecipientStatus(c, j) PROVE recipient'[e] = recipient[e]
  <2>1. e \notin j.ids
    BY <1>0, <1>4 DEF UpdateRecipientStatus
  <2> QED
    BY <1>0, <1>4, <2>1 DEF UpdateRecipientStatus, Writes
<1>5. ASSUME NEW j \in Jobs, RemoveRecipient(c, j) PROVE recipient'[e] = recipient[e]
  <2>1. e \notin j.ids
    BY <1>0, <1>5 DEF RemoveRecipient
  <2> QED
    BY <1>0, <1>5, <2>1 DEF RemoveRecipient, Writes
<1>6. CASE ByRecipients(c)
  <2>1. CASE RecipientStep(c)
    <3>1. InsertRecipient(c) \/ InsertRecipients(c) \/ Commit(c) \/ recipient' = recipient
      BY <2>1 DEF RecipientStep, InsertRecipientsFails, SkipLine, FindLine, WriteLine, RowGone,
         DuplicateEmail, DeadlockDetected, StatementFails, Aborts, CommitAborted, NoWrites
    <3> QED
      BY <1>1, <1>2, <1>3, <3>1
  <2>2. ASSUME NEW j \in Jobs, RecipientRequest(c, j) PROVE recipient'[e] = recipient[e]
    BY <1>4, <1>5, <2>2 DEF RecipientRequest, CreateRecipient, CreateRecipients,
       ImportRecipientsFromCsv, NoWrites
  <2> QED
    BY <1>6, <2>1, <2>2 DEF ByRecipients
<1> QED
  BY <1>6 DEF Frame, GroupFrame, LinkFrame, ByFailure, RequestFails

\* A step keeps what is said of the imports that do not move.
LEMMA OthersStale ==
  ASSUME Types, Stale, NEW c \in Requests, NEW d \in Requests \ {c}, Turn(c), Frame(c)
  PROVE  StaleAt(d)'
<1>0. StaleAt(d) /\ LinedAt(d) /\ Placed /\ PlacedAt(d)
  BY DEF Stale, Types, Placed
<1>1. /\ at'[d] = at[d] /\ job'[d] = job[d] /\ line'[d] = line[d] /\ seen'[d] = seen[d]
      /\ wrote'[d] = wrote[d]
  BY FrameBooks DEF Turn, OwnBooks
<1>2. \A e \in Emails : Excused(d, e) => Excused(d, e)'
  <2>1. overtaken[d] \subseteq overtaken'[d]
    BY OthersSee
  <2> QED
    BY <1>1, <2>1 DEF Excused, SaysActive
<1>3. InTransaction(d)' = InTransaction(d) /\ Line(d)' = Line(d)
  BY <1>1 DEF InTransaction, Line
<1>4. ASSUME NEW e \in Emails, InTransaction(d)', wrote'[d][e] = "ACTIVE", recipient'[e] = "UNSUBSCRIBED"
      PROVE  Excused(d, e)'
  <2>1. recipient'[e] = recipient[e]
    BY <1>1, <1>3, <1>4, LockedKept DEF Stale
  <2> QED
    BY <1>0, <1>1, <1>2, <1>3, <1>4, <2>1 DEF StaleAt
<1>5. ASSUME NEW e \in Emails, e = Line(d).email, at[d] = "write", seen[d] = "ACTIVE",
             recipient'[e] = "UNSUBSCRIBED"
      PROVE  Excused(d, e)'
  <2>1. InTransaction(d)
    BY <1>0, <1>5 DEF InTransaction, PlacedAt, Active, Places, RecipientPlaces, GroupPlaces, LinkPlaces
  <2>2. CASE recipient[e] = "UNSUBSCRIBED"
    BY <1>0, <1>2, <1>5, <2>2 DEF StaleAt
  <2>3. CASE recipient[e] # "UNSUBSCRIBED"
    <3>1. e \in overtaken'[d]
      BY <1>5, <2>1, <2>3, OthersSee
    <3> QED
      BY <3>1 DEF Excused
  <2> QED
    BY <2>2, <2>3
<1>6. ASSUME at'[d] = "write", seen'[d] = "ACTIVE", recipient'[Line(d)'.email] = "UNSUBSCRIBED"
      PROVE  Excused(d, Line(d).email)'
  <2>1. Line(d).email \in Emails /\ Line(d)' = Line(d)
    BY <1>0, <1>1, <1>3, <1>6, LineFacts DEF LinedAt
  <2>2. PICK e \in Emails : e = Line(d).email /\ e = Line(d)'.email
    BY <2>1
  <2>3. Excused(d, e)'
    BY <1>1, <1>5, <1>6, <2>2
  <2> QED
    BY <2>2, <2>3 DEF Excused, SaysActive
<1> QED
  BY <1>0, <1>1, <1>3, <1>4, <1>6 DEF StaleAt

\* Every step keeps the locks: who writes a row has waited until it was free.
LEMMA LocksStep ==
  ASSUME Types, Stale, NEW c \in Requests, Turn(c), Frame(c)
  PROVE  Locks'
<1>0. RecipientTypes /\ at \in [Requests -> Steps] /\ job \in [Requests -> Jobs \union {NoJob}]
      /\ (\A d \in Requests : LinedAt(d)) /\ Placed
  BY DEF Types, Placed, Typed
<1>1. \A d \in Requests \ {c} : wrote'[d] = wrote[d] /\ InTransaction(d)' = InTransaction(d)
  BY FrameBooks DEF OwnBooks, Turn, InTransaction
<1>2. ASSUME NEW e \in Emails, InTransaction(c)', wrote'[c][e] # "none"
      PROVE  Free(c, e) \/ (InTransaction(c) /\ wrote[c][e] # "none")
  <2>1. ByRecipients(c)
    BY <1>2, FailTypes DEF Frame, ByGroups, ByLinks, ByFailure, GroupKinds, LinkKinds, InTransaction
  <2>2. ASSUME NEW j \in Jobs, RecipientRequest(c, j) PROVE FALSE
    <3>1. wrote' = wrote /\ at[c] = "idle"
      BY <2>2 DEF RecipientRequest, CreateRecipient, CreateRecipients, ImportRecipientsFromCsv,
         UpdateRecipientStatus, RemoveRecipient, Begins, importVars
    <3> QED
      BY <1>2, <3>1 DEF Stale, StaleAt
  <2>3. CASE WriteLine(c)
    <3>1. Free(c, Line(c).email) /\ InTransaction(c)
      BY <1>0, <2>3 DEF WriteLine, InTransaction, Placed, PlacedAt, Active, Places,
         RecipientPlaces, GroupPlaces, LinkPlaces
    <3>2. e # Line(c).email => wrote'[c][e] = wrote[c][e]
      BY <1>0, <2>3 DEF WriteLine, RecipientTypes
    <3> QED
      BY <1>2, <3>1, <3>2
  <2>4. CASE RecipientStep(c) /\ ~WriteLine(c)
    <3>1. CASE DuplicateEmail(c) \/ DeadlockDetected(c) \/ StatementFails(c)
      <4>1. at'[c] = "aborted"
        BY <1>0, <3>1 DEF DuplicateEmail, DeadlockDetected, StatementFails, Aborts, Goes
      <4> QED
        BY <1>2, <4>1 DEF InTransaction
    <3>2. CASE SkipLine(c) \/ FindLine(c) \/ RowGone(c)
      <4>1. wrote' = wrote /\ at[c] \in {"find", "write"} /\ job' = job
        BY <3>2 DEF SkipLine, FindLine, RowGone
      <4> QED
        BY <1>2, <4>1 DEF InTransaction
    <3>3. CASE InsertRecipient(c) \/ InsertRecipients(c) \/ InsertRecipientsFails(c)
               \/ Commit(c) \/ CommitAborted(c)
      <4>1. at'[c] = "done"
        BY <1>0, <3>3 DEF InsertRecipient, InsertRecipients, InsertRecipientsFails, Commit,
           CommitAborted, Answers, AnswersIf
      <4> QED
        BY <1>2, <4>1 DEF InTransaction
    <3> QED
      BY <2>4, <3>1, <3>2, <3>3 DEF RecipientStep
  <2> QED
    BY <2>1, <2>2, <2>3, <2>4 DEF ByRecipients
<1>3. \A d \in Requests \ {c} : \A e \in Emails :
        ~(InTransaction(c)' /\ InTransaction(d)' /\ wrote'[c][e] # "none" /\ wrote'[d][e] # "none")
  BY <1>1, <1>2 DEF Stale, Locks, Free, LockedBy
<1>4. \A b, d \in Requests \ {c} : \A e \in Emails :
        InTransaction(b)' /\ InTransaction(d)' /\ wrote'[b][e] # "none" /\ wrote'[d][e] # "none" => b = d
  BY <1>1 DEF Stale, Locks
<1> QED
  BY <1>3, <1>4 DEF Locks

\* A step keeps what is said of the import that moves.
LEMMA OwnStale ==
  ASSUME Types, Types', Stale, NEW c \in Requests, Turn(c), Frame(c)
  PROVE  StaleAt(c)'
<1>0. /\ StaleAt(c) /\ LinedAt(c) /\ Placed /\ PlacedAt(c) /\ PlacedAt(c)' /\ RecipientTypes
      /\ at \in [Requests -> Steps] /\ at'[c] # "idle"
  BY DEF Stale, Types, Placed, Typed, Turn
<1>1. at'[c] \notin {"find", "write"} => StaleAt(c)'
  BY <1>0 DEF StaleAt, InTransaction
<1>2. CASE ~ByRecipients(c)
  <2>1. at'[c] \notin {"find", "write"}
    BY <1>0, <1>2, FailTypes DEF Frame, ByGroups, ByLinks, ByFailure, GroupKinds, LinkKinds,
       PlacedAt, Active, Places, RecipientPlaces, GroupPlaces, LinkPlaces
  <2> QED
    BY <1>1, <2>1
<1>3. ASSUME NEW j \in Jobs, RecipientRequest(c, j) PROVE StaleAt(c)'
  <2>1. wrote' = wrote /\ at[c] = "idle"
    BY <1>3 DEF RecipientRequest, CreateRecipient, CreateRecipients, ImportRecipientsFromCsv,
       UpdateRecipientStatus, RemoveRecipient, Begins, importVars
  <2>2. at'[c] # "write"
    BY <1>0, <1>3 DEF RecipientRequest, CreateRecipient, CreateRecipients, ImportRecipientsFromCsv,
       UpdateRecipientStatus, RemoveRecipient, Goes, GoesIf, Answers, AnswersIf
  <2> QED
    BY <1>0, <2>1, <2>2 DEF StaleAt
<1>4. CASE RecipientStep(c)
  <2>0. job' = job /\ overtaken'[c] = overtaken[c] /\ \A e \in Emails : Excused(c, e)' = Excused(c, e)
    BY <1>4, StepTurns, OwnSteps, OwnHistories, <1>0 DEF Excused, SaysActive
  <2>1. CASE SkipLine(c) \/ RowGone(c)
    <3>1. wrote' = wrote /\ recipient' = recipient /\ at[c] \in {"find", "write"} /\ at'[c] = "find"
      BY <1>0, <2>1 DEF SkipLine, RowGone, NextLine, Goes, NoWrites
    <3>2. InTransaction(c)' => InTransaction(c)
      BY <2>0, <3>1 DEF InTransaction
    <3> QED
      BY <1>0, <2>0, <3>1, <3>2 DEF StaleAt
  <2>2. CASE FindLine(c)
    <3> DEFINE e == Line(c).email
    <3>1. /\ wrote' = wrote /\ recipient' = recipient /\ at[c] = "find" /\ at'[c] = "write"
          /\ seen'[c] = View(c, e) /\ line' = line
      BY <1>0, <2>2 DEF FindLine, Goes, NoWrites, RecipientTypes
    <3>2. InTransaction(c) /\ Line(c)' = Line(c) /\ e \in Emails
      BY <1>0, <2>0, <2>2, <3>1, LineFacts DEF InTransaction, Line, LinedAt, FindLine, PlacedAt, Active,
         Places, RecipientPlaces, GroupPlaces, LinkPlaces
    <3>3. ASSUME seen'[c] = "ACTIVE", recipient'[e] = "UNSUBSCRIBED" PROVE Excused(c, e)
      BY <1>0, <3>1, <3>2, <3>3 DEF StaleAt, View
    <3>4. Excused(c, e)' => Excused(c, Line(c).email)'
      BY <3>2 DEF Excused, SaysActive
    <3> HIDE DEF e
    <3>5. \A i \in Emails : InTransaction(c)' /\ wrote'[c][i] = "ACTIVE" /\ recipient'[i] = "UNSUBSCRIBED"
                            => Excused(c, i)'
      BY <1>0, <2>0, <3>1, <3>2 DEF StaleAt
    <3> QED
      BY <2>0, <3>1, <3>2, <3>3, <3>4, <3>5 DEF StaleAt, e
  <2>3. CASE WriteLine(c)
    <3> DEFINE e == Line(c).email
    <3>1. /\ recipient' = recipient /\ at[c] = "write" /\ at'[c] = "find"
          /\ (seen[c] = "none") = (View(c, e) = "none")
      BY <1>0, <2>3 DEF WriteLine, NextLine, Goes, NoWrites
    <3>2. /\ InTransaction(c) /\ e \in Emails /\ line[c] \in DOMAIN job[c].lines /\ Line(c) \in Lines
      BY <1>0, <3>1, LineFacts DEF InTransaction, LinedAt, PlacedAt, Active,
         Places, RecipientPlaces, GroupPlaces, LinkPlaces
    <3>3. /\ wrote'[c][e] = NewStatus(c) /\ \A i \in Emails \ {e} : wrote'[c][i] = wrote[c][i]
      BY <1>0, <2>3, <3>2 DEF WriteLine, RecipientTypes
    <3>4. ASSUME NewStatus(c) = "ACTIVE", recipient[e] = "UNSUBSCRIBED" PROVE Excused(c, e)
      <4>1. seen[c] # "none"
        BY <1>0, <3>1, <3>4 DEF View
      <4>2. CASE Line(c).status = ""
        BY <1>0, <3>1, <3>4, <4>1, <4>2 DEF NewStatus, StaleAt
      <4>3. CASE Line(c).status # ""
        <5>1. Line(c).status = "ACTIVE"
          BY <3>4, <4>3 DEF NewStatus
        <5>2. Line(c) = [email |-> e, status |-> "ACTIVE"]
          BY <3>2, <5>1 DEF Lines
        <5> QED
          BY <3>2, <5>2 DEF Excused, SaysActive, Line
      <4> QED
        BY <4>2, <4>3
    <3> HIDE DEF e
    <3>5. ASSUME NEW i \in Emails, InTransaction(c)', wrote'[c][i] = "ACTIVE", recipient'[i] = "UNSUBSCRIBED"
          PROVE  Excused(c, i)'
      <4>1. CASE i = e
        BY <2>0, <3>1, <3>3, <3>4, <3>5, <4>1
      <4>2. CASE i # e
        BY <1>0, <2>0, <3>1, <3>2, <3>3, <3>5, <4>2 DEF StaleAt
      <4> QED
        BY <4>1, <4>2
    <3> QED
      BY <3>1, <3>5 DEF StaleAt
  <2>4. CASE ~(SkipLine(c) \/ RowGone(c) \/ FindLine(c) \/ WriteLine(c))
    <3>1. at'[c] \in {"done", "aborted"}
      BY <1>0, <1>4, <2>4 DEF RecipientStep, InsertRecipient, InsertRecipients, InsertRecipientsFails,
         Commit, CommitAborted, DuplicateEmail, DeadlockDetected, StatementFails, Aborts, Goes, Answers,
         AnswersIf
    <3> QED
      BY <1>1, <3>1
  <2> QED
    BY <2>1, <2>2, <2>3, <2>4
<1> QED
  BY <1>2, <1>3, <1>4 DEF ByRecipients

\* Every step keeps both.
LEMMA StaleStep ==
  ASSUME Types, Stale, [Next]_vars
  PROVE  Stale'
<1>1. CASE UNCHANGED vars
  BY <1>1 DEF vars, Stale, Locks, StaleAt, InTransaction, Excused, SaysActive, Line, recipientVars,
     importVars
<1>2. ASSUME NEW c \in Requests, Turn(c), Frame(c)
      PROVE  Stale'
  <2>1. StaleAt(c)'
    BY <1>2, OwnStale, StepCases
  <2>2. \A d \in Requests \ {c} : StaleAt(d)'
    BY <1>2, OthersStale
  <2> QED
    BY <1>2, <2>1, <2>2, LocksStep DEF Stale
<1> QED
  BY <1>1, <1>2, StepCases

\* It is invariant.
LEMMA StaleHolds == Spec => []Stale
<1>1. Init => Stale
  BY DEF Init, Stale, Locks, StaleAt, InTransaction, NoJob
<1>2. Types /\ Stale /\ [Next]_vars => Stale'
  BY StaleStep
<1> QED
  BY <1>1, <1>2, TypesHold, PTL DEF Spec

\* A recipient who has unsubscribed becomes ACTIVE again only by a request that says
\* so of him, or by an import that read him before he unsubscribed.
THEOREM UnsubscribedKept == Spec => UnsubscribedStays
<1> DEFINE Back(e) == recipient[e] = "UNSUBSCRIBED" /\ recipient'[e] = "ACTIVE"
           By(c, e) == /\ at[c] # "done" /\ at'[c] = "done"
                       /\ SaysActive(job'[c], e) \/ e \in overtaken[c]
<1>1. ASSUME Types, Stale, [Next]_vars, NEW e \in Emails, Back(e)
      PROVE  \E c \in Requests : By(c, e)
  <2>0. /\ recipient \in [Emails -> Rowed] /\ at \in [Requests -> Steps] /\ fresh \in Marks
        /\ job \in [Requests -> Jobs \union {NoJob}]
    BY <1>1 DEF Types, RecipientTypes, Placed, Typed
  <2>1. recipient'[e] # recipient[e]
    BY <1>1
  <2>2. PICK c \in Requests : Turn(c) /\ Frame(c)
    BY <1>1, <2>1, StepCases DEF vars
  <2>3. at[c] # "done" /\ ByRecipients(c)
    BY <2>1, <2>2 DEF Turn, Frame, GroupFrame, LinkFrame, ByFailure, RequestFails
  <2>4. CASE InsertRecipient(c) \/ InsertRecipients(c)
    BY <1>1, <2>0, <2>4 DEF InsertRecipient, InsertRecipients, Writes, WithRows, Exists
  <2>5. CASE Commit(c)
    <3>1. InTransaction(c) /\ recipient'[e] = View(c, e) /\ at'[c] = "done" /\ job'[c] = job[c]
      BY <2>0, <2>5 DEF Commit, Writes, Answers
    <3>2. wrote[c][e] = "ACTIVE"
      BY <1>1, <3>1 DEF View
    <3>3. Excused(c, e)
      BY <1>1, <3>1, <3>2 DEF Stale, StaleAt
    <3> QED
      BY <2>3, <3>1, <3>3 DEF Excused
  <2>6. ASSUME NEW j \in Jobs, UpdateRecipientStatus(c, j) PROVE \E d \in Requests : By(d, e)
    <3>1. /\ job'[c] = j /\ j.kind = "setStatus" /\ at'[c] = "done"
          /\ recipient'[e] = IF e \in j.ids /\ Exists(e) THEN j.status ELSE recipient[e]
      BY <2>0, <2>6 DEF UpdateRecipientStatus, Begins, AnswersIf, Answers, Writes
    <3>2. SaysActive(job'[c], e)
      BY <1>1, <3>1 DEF SaysActive
    <3> QED
      BY <2>3, <3>1, <3>2
  <2>7. ASSUME NEW j \in Jobs, RemoveRecipient(c, j) PROVE FALSE
    BY <1>1, <2>0, <2>7 DEF RemoveRecipient, Writes
  <2>8. RecipientStep(c) => InsertRecipient(c) \/ InsertRecipients(c) \/ Commit(c) \/ recipient' = recipient
    BY DEF RecipientStep, InsertRecipientsFails, SkipLine, FindLine, WriteLine, RowGone,
       DuplicateEmail, DeadlockDetected, StatementFails, Aborts, CommitAborted, NoWrites
  <2>9. \A j \in Jobs : RecipientRequest(c, j) =>
          UpdateRecipientStatus(c, j) \/ RemoveRecipient(c, j) \/ recipient' = recipient
    BY DEF RecipientRequest, CreateRecipient, CreateRecipients, ImportRecipientsFromCsv, NoWrites
  <2> QED
    BY <2>1, <2>3, <2>4, <2>5, <2>6, <2>7, <2>8, <2>9 DEF ByRecipients
<1>2. Types /\ Stale /\ [Next]_vars => [\A e \in Emails : Back(e) => \E c \in Requests : By(c, e)]_vars
  BY <1>1
<1> QED
  BY <1>2, TypesHold, StaleHolds, PTL DEF Spec, UnsubscribedStays
=============================================================================
