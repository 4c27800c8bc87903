------------------------------- MODULE Tables -------------------------------
(***************************************************************************)
(* The tables of recipients, groups and campaigns, and the requests of the *)
(* services that work on them: what modules Recipients, Groups and         *)
(* CampaignLinks share.                                                    *)
(*                                                                         *)
(* The tables hold what is committed. A statement sees that and what its   *)
(* own transaction wrote (READ COMMITTED); a statement outside of a        *)
(* transaction is one of its own. A request is cut at its awaits, begins   *)
(* with its first call to the database and is answered once.               *)
(***************************************************************************)
EXTENDS Naturals, Sequences

CONSTANTS
  Emails,   \* recipients, each known by its email
  Requests, \* requests of one behaviour, in any order and overlap (a bound)
  Jobs,     \* what a request may ask for
  Old,      \* the campaign that is there from the start
  MaxFaults \* calls that fail in one behaviour (a bound)

Statuses == {"ACTIVE", "UNSUBSCRIBED"}

\* A line of an import: "" says nothing of the status, and "invalid" stands for
\* a line whose email or status is none.
Lines == [email : Emails, status : Statuses \union {"", "invalid"}]

Kinds == {"createRecipient", "createRecipients", "import", "setStatus",
          "removeRecipient", "addRecipients", "addRecipientsToGroup",
          "removeRecipients", "removeGroup", "createCampaign", "updateCampaign"}

\* `flag': the group is the caller's, or is to be linked to the campaign.
JobType == [kind : Kinds, ids : SUBSET Emails, lines : Seq(Lines),
            status : Statuses, flag : BOOLEAN]
NoJob == [kind |-> "none", ids |-> {}, lines |-> <<>>, status |-> "ACTIVE",
          flag |-> FALSE]

ASSUME TablesAssumption ==
  /\ Jobs \subseteq JobType
  /\ Old \notin Requests
  /\ MaxFaults \in Nat

VARIABLES
  recipient, \* email -> status, "none" when there is no row
  group,     \* the group exists
  members,   \* groupRecipient: the members of the group
  campaigns, \* committed campaigns: Old, or the request that created it
  grouped,   \* the campaigns linked to the group
  links,     \* campaignRecipient: pairs of campaign and email
  unlinked,  \* per request: the links of Old its open transaction has deleted
  copies,    \* campaigns whose status is in Redis
  job,       \* per request: what it asks for
  at,        \* per request: what it awaits
  answer,    \* per request: "none", "ok" or "refused"
  faults

groupTables == <<group, members>>
campaignTables == <<campaigns, grouped, links, unlinked, copies>>

Campaigns == {Old} \union Requests
Exists(e) == recipient[e] # "none"
LinkedTo(k) == {e \in Emails : <<k, e>> \in links}

BeingUnlinked(e) == \E c \in Requests : e \in unlinked[c]

Active(c) == at[c] \notin {"idle", "done"}

Begins(c, j, kind) ==
  /\ at[c] = "idle" /\ j.kind = kind
  /\ job' = [job EXCEPT ![c] = j]

Goes(c, next) == at' = [at EXCEPT ![c] = next] /\ UNCHANGED answer

Answers(c, word) ==
  /\ at' = [at EXCEPT ![c] = "done"]
  /\ answer' = [answer EXCEPT ![c] = word]

\* The request goes on if its call succeeded; else it throws.
GoesIf(c, success, next) ==
  /\ at' = [at EXCEPT ![c] = IF success THEN next ELSE "done"]
  /\ answer' = [answer EXCEPT ![c] = IF success THEN @ ELSE "refused"]

AnswersIf(c, success) == Answers(c, IF success THEN "ok" ELSE "refused")

Fault == faults < MaxFaults /\ faults' = faults + 1
=============================================================================
