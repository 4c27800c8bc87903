------------------------------ MODULE Audience ------------------------------
(***************************************************************************)
(* Whom a campaign reaches: modules Recipients, Groups and CampaignLinks   *)
(* over the tables they share, with any requests at work together.         *)
(***************************************************************************)
EXTENDS Recipients, Groups, CampaignLinks

CONSTANTS
  Rows,       \* the recipients that are there from the start
  InitMembers \* those in the group and linked to the campaign Old

ASSUME RowsAssumption == InitMembers \subseteq Rows /\ Rows \subseteq Emails

vars == <<recipient, groupTables, campaignTables, job, at, answer, faults,
          recipientVars, groupVars, linkVars>>

Steps == {"idle", "done", "create", "createMany", "find", "write", "aborted",
          "insertMembers", "deleteMembers", "removeGroup", "linkGroup",
          "linkRecipients", "copyDraft", "commitCampaign", "unlink", "link",
          "late", "commitUpdate"}

TypeOK ==
  /\ recipient \in [Emails -> Statuses \union {"none"}]
  /\ group \in BOOLEAN /\ members \subseteq Emails
  /\ campaigns \subseteq Campaigns /\ grouped \subseteq Campaigns
  /\ links \subseteq Campaigns \X Emails /\ copies \subseteq Campaigns
  /\ unlinked \in [Requests -> SUBSET Emails]
  /\ job \in [Requests -> Jobs \union {NoJob}]
  /\ at \in [Requests -> Steps]
  /\ answer \in [Requests -> {"none", "ok", "refused"}]
  /\ faults \in 0 .. MaxFaults
  /\ line \in [Requests -> Nat]
  /\ seen \in [Requests -> Statuses \union {"none"}]
  /\ wrote \in [Requests -> [Emails -> Statuses \union {"none"}]]
  /\ {fresh, counted, saved, contested, overtaken, emptied, before, added}
       \subseteq [Requests -> SUBSET Emails]
  /\ crossed \subseteq Requests /\ refilled \subseteq Requests

Init ==
  /\ recipient \in {f \in [Emails -> Statuses \union {"none"}] :
                      \A e \in Emails : (f[e] # "none") = (e \in Rows)}
  /\ group = TRUE /\ members = InitMembers
  /\ campaigns = {Old} /\ grouped = {Old} /\ copies = {Old}
  /\ links = {Old} \X InitMembers
  /\ unlinked = [c \in Requests |-> {}]
  /\ job = [c \in Requests |-> NoJob]
  /\ at = [c \in Requests |-> "idle"]
  /\ answer = [c \in Requests |-> "none"]
  /\ faults = 0
  /\ line = [c \in Requests |-> 0]
  /\ seen = [c \in Requests |-> "none"]
  /\ wrote = [c \in Requests |-> [e \in Emails |-> "none"]]
  /\ fresh = [c \in Requests |-> {}] /\ counted = fresh /\ saved = fresh
  /\ contested = fresh /\ overtaken = fresh /\ crossed = {}
  /\ emptied = fresh /\ refilled = {}
  /\ before = fresh /\ added = fresh

\* A call fails, a transaction takes too long, or the process dies: the request
\* is over, its transaction rolled back, and what was written outside stays.
RequestFails(c) ==
  /\ Active(c) /\ at[c] # "createMany"
  /\ Fault
  /\ Answers(c, "refused")
  /\ ForgetsUnlinked(c)
  /\ UNCHANGED <<recipient, groupTables, campaigns, grouped, links, copies, job,
                 recipientVars, groupVars, linkVars>>

StartsRequest(c) ==
  \E j \in Jobs :
    \/ RecipientRequest(c, j) /\ UNCHANGED <<groupVars, linkVars>>
    \/ GroupRequest(c, j) /\ UNCHANGED <<recipientVars, linkVars>>
    \/ LinkRequest(c, j) /\ UNCHANGED <<recipientVars, groupVars>>

Step(c) ==
  \/ RecipientStep(c) /\ UNCHANGED <<groupVars, linkVars>>
  \/ GroupStep(c) /\ UNCHANGED <<recipientVars, linkVars>>
  \/ LinkStep(c) /\ UNCHANGED <<recipientVars, groupVars>>
  \/ RequestFails(c)

Next == \E c \in Requests : StartsRequest(c) \/ Step(c)

Spec == Init /\ [][Next]_vars

\* Calls are answered: a request that can go on does.
FairSpec == Spec /\ \A c \in Requests : WF_vars(Step(c))

-----------------------------------------------------------------------------
(* Properties                                                              *)

Ended(c, kind) == at[c] = "done" /\ job[c].kind = kind

\* A request that says it created recipients did, those apart that others
\* inserted meanwhile; an import kept all the lines it counts, or none, and none
\* only when it met another request for one of its emails, a deadlock or a
\* failure. (createRecipient 37, createRecipients 80-110, import 52-110)
CountedMeansSaved ==
  \A c \in Requests :
    answer[c] = "ok" =>
      IF job[c].kind = "import"
      THEN \/ saved[c] = counted[c]
           \/ saved[c] = {} /\ (contested[c] # {} \/ c \in crossed \/ faults > 0)
      ELSE counted[c] \ saved[c] \subseteq contested[c]

\* An import that meets nobody and no failure keeps every valid line, whatever
\* its other lines are. (53-107)
UndisturbedImportIsWhole ==
  \A c \in Requests :
    Ended(c, "import") /\ answer[c] = "ok" /\ contested[c] = {} /\ c \notin crossed
      /\ faults = 0
    => saved[c] = Valid(job[c])

SaysActive(j, e) ==
  \/ j.kind = "setStatus" /\ j.status = "ACTIVE" /\ e \in j.ids
  \/ \E i \in DOMAIN j.lines : j.lines[i] = [email |-> e, status |-> "ACTIVE"]

\* A recipient who has unsubscribed becomes ACTIVE again only by a request that
\* says ACTIVE of him, or by an import that read him before he unsubscribed and
\* writes back what it read. (upload.service.ts 68-81, unsubscribe 186)
UnsubscribedStays ==
  [][\A e \in Emails :
       recipient[e] = "UNSUBSCRIBED" /\ recipient'[e] = "ACTIVE" =>
         \E c \in Requests : /\ at[c] # "done" /\ at'[c] = "done"
                             /\ SaysActive(job'[c], e) \/ e \in overtaken[c]]_vars

\* A group outlives its members only if the request that deleted them was not
\* its owner's, failed, or met one that added members. (GroupService.remove)
EmptiedGroupHasCause ==
  \A c \in Requests :
    Ended(c, "removeGroup") /\ emptied[c] # {} /\ group
    => ~job[c].flag \/ c \in refilled \/ faults > 0

\* What createCampaign commits has neither a group nor recipients: a request that
\* asks for them is refused, since the links are made where the campaign is not
\* to be seen yet. (66-74, 395-420)
CreationNeverLinks ==
  \A c \in campaigns \ {Old} :
    /\ job[c].ids = {} /\ ~job[c].flag
    /\ c \notin grouped /\ LinkedTo(c) = {} /\ c \in copies

\* An update that asks for a recipient already linked never succeeds; one that
\* is refused leaves new links behind only then, or after a failure. (501-509)
UpdateOutcome ==
  \A c \in Requests :
    Ended(c, "updateCampaign") =>
      /\ answer[c] = "ok" => before[c] \intersect job[c].ids = {}
      /\ answer[c] = "refused" /\ added[c] # {}
           => before[c] \intersect job[c].ids # {} \/ faults > 0

\* An update that succeeds leaves the links it was asked for, and no others than
\* requests whose transaction had ended made beside it. (501-510)
UpdateLinksAsAsked ==
  [][\A c \in Requests :
       job[c].kind = "updateCampaign" /\ answer[c] = "none" /\ answer'[c] = "ok" =>
         LET now == {e \in Emails : <<Old, e>> \in links'} IN
         /\ job[c].ids \subseteq now
         /\ now \ job[c].ids \subseteq UNION {added[d] : d \in Requests \ {c}}]_vars

\* Every request is answered: no circle of locks, and no transaction that waits
\* for a call which waits for it, is there for ever.
EveryRequestAnswered == \A c \in Requests : Active(c) ~> at[c] = "done"
=============================================================================
