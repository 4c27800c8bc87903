---------------------------- MODULE CampaignLinks ----------------------------
(***************************************************************************)
(* CampaignService.createCampaign and update: a campaign and its links to  *)
(* the group and to recipients. Both run a transaction, and both call      *)
(* helpers that write the links by `this.prisma', a connection of its own, *)
(* which neither sees nor is seen by what the transaction has not          *)
(* committed.                                                              *)
(***************************************************************************)
EXTENDS Tables

VARIABLES
  before, \* history: per update, the recipients linked when it deleted them
  added   \* history: per request, the links it made outside its transaction

linkVars == <<before, added>>
notLinks == <<recipient, groupTables>>

\* The foreign keys of a link: a committed campaign, existing recipients.
Linkable(k, ids) == k \in campaigns /\ \A e \in ids : Exists(e)
LinksOf(k, ids) == {k} \X ids

\* linkRecipientsToCampaign: createMany with skipDuplicates.
LinkRecipientsToCampaign(c, k) ==
  LET ids == IF Linkable(k, job[c].ids) THEN job[c].ids ELSE {} IN
  /\ links' = links \union LinksOf(k, ids)
  /\ added' = [added EXCEPT ![c] = ids \ LinkedTo(k)]

-----------------------------------------------------------------------------
(* createCampaign                                                          *)

\* What comes after the insert, and after the group.
AfterGroup(j) == IF j.ids # {} THEN "linkRecipients" ELSE "copyDraft"

\* Mutant: the campaign is created before the transaction.
CreateFirst(c, j) ==
  /\ Begins(c, j, "createCampaign")
  /\ campaigns' = campaigns \union {c}
  /\ Goes(c, IF j.flag THEN "linkGroup" ELSE AfterGroup(j))
  /\ UNCHANGED <<notLinks, grouped, links, unlinked, copies, linkVars, faults>>

\* The row is inserted, for the transaction only.
CreateCampaign(c, j) ==
  /\ Begins(c, j, "createCampaign")
  /\ Goes(c, IF j.flag THEN "linkGroup" ELSE AfterGroup(j))
  /\ UNCHANGED <<notLinks, campaignTables, linkVars, faults>>

\* linkGroupsToCampaign updates a campaign that its connection has to find.
LinkGroup(c) ==
  LET found == Linkable(c, {}) /\ group IN
  /\ at[c] = "linkGroup"
  /\ grouped' = IF found THEN grouped \union {c} ELSE grouped
  /\ GoesIf(c, found, AfterGroup(job[c]))
  /\ UNCHANGED <<notLinks, campaigns, links, unlinked, copies, job, linkVars, faults>>

LinkRecipients(c) ==
  /\ at[c] = "linkRecipients"
  /\ LinkRecipientsToCampaign(c, c)
  /\ GoesIf(c, Linkable(c, job[c].ids), "copyDraft")
  /\ UNCHANGED <<notLinks, campaigns, grouped, unlinked, copies, job, before, faults>>

CopyDraft(c) ==
  /\ at[c] = "copyDraft"
  /\ copies' = copies \union {c}
  /\ Goes(c, "commitCampaign")
  /\ UNCHANGED <<notLinks, campaigns, grouped, links, unlinked, job, linkVars, faults>>

CommitCampaign(c) ==
  /\ at[c] = "commitCampaign"
  /\ campaigns' = campaigns \union {c}
  /\ Answers(c, "ok")
  /\ UNCHANGED <<notLinks, grouped, links, unlinked, copies, job, linkVars, faults>>

-----------------------------------------------------------------------------
(* update, of the campaign Old                                             *)

\* The row of Old is locked from its first update to the end of the transaction.
HasRow(d) == job[d].kind = "updateCampaign" /\ at[d] \in {"unlink", "link", "commitUpdate"}

\* Rows that an open transaction has deleted are waited for: whether they still
\* are in the way is not known before it ends.
InTheWay(ids) == \E d \in Requests : unlinked[d] \intersect ids # {}

UpdateCampaign(c, j) ==
  /\ Begins(c, j, "updateCampaign")
  /\ \A d \in Requests : ~HasRow(d)
  /\ GoesIf(c, j.flag => group, "unlink")
  /\ UNCHANGED <<notLinks, campaignTables, linkVars, faults>>

\* Mutant: links that are asked for again stay.
UnlinkOthers(c) ==
  /\ at[c] = "unlink"
  /\ unlinked' = [unlinked EXCEPT ![c] = LinkedTo(Old) \ job[c].ids]
  /\ before' = [before EXCEPT ![c] = LinkedTo(Old)]
  /\ Goes(c, IF job[c].ids = {} THEN "commitUpdate" ELSE "link")
  /\ UNCHANGED <<notLinks, campaigns, grouped, links, copies, job, added, faults>>

\* Mutant: the links there were stay.
UnlinkNone(c) ==
  /\ at[c] = "unlink"
  /\ before' = [before EXCEPT ![c] = LinkedTo(Old)]
  /\ Goes(c, IF job[c].ids = {} THEN "commitUpdate" ELSE "link")
  /\ UNCHANGED <<notLinks, campaigns, grouped, links, unlinked, copies, job, added, faults>>

\* deleteMany in the transaction.
Unlink(c) ==
  /\ at[c] = "unlink"
  /\ unlinked' = [unlinked EXCEPT ![c] = LinkedTo(Old)]
  /\ before' = [before EXCEPT ![c] = LinkedTo(Old)]
  /\ Goes(c, IF job[c].ids = {} THEN "commitUpdate" ELSE "link")
  /\ UNCHANGED <<notLinks, campaigns, grouped, links, copies, job, added, faults>>

\* The transaction is rolled back.
ForgetsUnlinked(c) == unlinked' = [unlinked EXCEPT ![c] = {}]

\* The links are inserted beside the transaction, and are there at once.
Link(c) ==
  LET linkable == Linkable(Old, job[c].ids) IN
  /\ at[c] = "link" /\ ~InTheWay(job[c].ids)
  /\ LinkRecipientsToCampaign(c, Old)
  /\ GoesIf(c, linkable, "commitUpdate")
  /\ IF linkable THEN UNCHANGED unlinked ELSE ForgetsUnlinked(c)
  /\ UNCHANGED <<notLinks, campaigns, grouped, copies, job, before, faults>>

\* Mutant: a transaction in which nothing is under way is ended.
IdleTransactionTimesOut(c) ==
  /\ at[c] = "link" /\ ~InTheWay(job[c].ids)
  /\ ForgetsUnlinked(c)
  /\ Goes(c, "late")
  /\ UNCHANGED <<notLinks, campaigns, grouped, links, copies, job, linkVars, faults>>

\* The insert waits for rows that the transaction has deleted, and the
\* transaction waits for the insert. Prisma ends it after its timeout.
TransactionTimesOut(c) ==
  /\ at[c] = "link" /\ unlinked[c] \intersect job[c].ids # {}
  /\ ForgetsUnlinked(c)
  /\ Goes(c, "late")
  /\ UNCHANGED <<notLinks, campaigns, grouped, links, copies, job, linkVars, faults>>

\* The insert is executed all the same; the commit then finds no transaction.
LinkLate(c) ==
  /\ at[c] = "late" /\ ~InTheWay(job[c].ids)
  /\ LinkRecipientsToCampaign(c, Old)
  /\ Answers(c, "refused")
  /\ UNCHANGED <<notLinks, campaigns, grouped, unlinked, copies, job, before, faults>>

\* The deletes take effect, and the group is set if it is still there.
CommitUpdate(c) ==
  /\ at[c] = "commitUpdate"
  /\ links' = links \ LinksOf(Old, unlinked[c])
  /\ grouped' = IF job[c].flag /\ group THEN grouped \union {Old} ELSE grouped \ {Old}
  /\ ForgetsUnlinked(c)
  /\ Answers(c, "ok")
  /\ UNCHANGED <<notLinks, campaigns, copies, job, linkVars, faults>>

LinkStep(c) ==
  \/ LinkGroup(c) \/ LinkRecipients(c) \/ CopyDraft(c) \/ CommitCampaign(c)
  \/ Unlink(c) \/ Link(c) \/ TransactionTimesOut(c) \/ LinkLate(c) \/ CommitUpdate(c)

LinkRequest(c, j) == CreateCampaign(c, j) \/ UpdateCampaign(c, j)
=============================================================================
