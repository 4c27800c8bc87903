------------------------------- MODULE Groups -------------------------------
(***************************************************************************)
(* GroupService, and addRecipientsToGroup of RecipientService: the members *)
(* of one group. Nothing here is a transaction: who owns the group is      *)
(* looked at, or not, in one call and acted on in another.                 *)
(***************************************************************************)
EXTENDS Tables

VARIABLES
  emptied, \* history: members deleted by a request that removes the group
  refilled \* history: such requests that met a new member

groupVars == <<emptied, refilled>>
restOfTables == <<recipient, campaignTables>>

FindGroup(c, j, kind, next) ==
  /\ Begins(c, j, kind)
  /\ GoesIf(c, group /\ j.flag, next)
  /\ UNCHANGED <<restOfTables, groupTables, groupVars, faults>>

AddRecipients(c, j) == FindGroup(c, j, "addRecipients", "insertMembers")
RemoveRecipients(c, j) == FindGroup(c, j, "removeRecipients", "deleteMembers")

\* createMany with skipDuplicates: the foreign keys want the group and all the
\* recipients to be there.
Joins(c, ids) ==
  LET there == group /\ \A e \in ids : Exists(e) IN
  /\ members' = IF there THEN members \union ids ELSE members
  /\ refilled' = IF there THEN refilled \union {d \in Requests : at[d] = "removeGroup"}
                 ELSE refilled
  /\ AnswersIf(c, there)
  /\ UNCHANGED <<restOfTables, group, emptied, faults>>

InsertMembers(c) == at[c] = "insertMembers" /\ Joins(c, job[c].ids) /\ UNCHANGED job

\* The group is not looked up first, nor whose it is.
AddRecipientsToGroup(c, j) == Begins(c, j, "addRecipientsToGroup") /\ Joins(c, j.ids)

DeleteMembers(c) ==
  /\ at[c] = "deleteMembers"
  /\ members' = members \ job[c].ids
  /\ Answers(c, "ok")
  /\ UNCHANGED <<restOfTables, job, group, groupVars, faults>>

\* remove: the members go first.
RemoveGroup(c, j) ==
  /\ Begins(c, j, "removeGroup")
  /\ emptied' = [emptied EXCEPT ![c] = members]
  /\ members' = {}
  /\ Goes(c, "removeGroup")
  /\ UNCHANGED <<restOfTables, group, refilled, faults>>

\* Mutant: only a group that no campaign uses is deleted.
DeleteUnused(c) ==
  LET deleted == group /\ job[c].flag /\ members = {} /\ grouped = {} IN
  /\ at[c] = "removeGroup"
  /\ group' = (group /\ ~deleted)
  /\ UNCHANGED grouped
  /\ AnswersIf(c, deleted)
  /\ UNCHANGED <<recipient, campaigns, links, unlinked, copies, job, members, groupVars, faults>>

\* Then the group, if it is the caller's and has no member by now. The links to
\* campaigns go with it.
DeleteGroup(c) ==
  LET deleted == group /\ job[c].flag /\ members = {} IN
  /\ at[c] = "removeGroup"
  /\ group' = (group /\ ~deleted)
  /\ grouped' = IF deleted THEN {} ELSE grouped
  /\ AnswersIf(c, deleted)
  /\ UNCHANGED <<recipient, campaigns, links, unlinked, copies, job, members, groupVars, faults>>

GroupStep(c) == InsertMembers(c) \/ DeleteMembers(c) \/ DeleteGroup(c)

GroupRequest(c, j) ==
  AddRecipients(c, j) \/ RemoveRecipients(c, j) \/ AddRecipientsToGroup(c, j)
  \/ RemoveGroup(c, j)
=============================================================================
