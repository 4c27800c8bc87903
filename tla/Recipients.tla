----------------------------- MODULE Recipients -----------------------------
(***************************************************************************)
(* RecipientService and UploadService: recipients are created one by one,  *)
(* in bulk or from a file, change their status and are deleted. An import  *)
(* is one transaction whose lines are each in a `try' of their own.        *)
(*                                                                         *)
(* A row that a transaction wrote is locked until it ends: who wants to    *)
(* write it, or to insert its email, waits. A statement that PostgreSQL    *)
(* refuses aborts its transaction: the writes are gone, every later        *)
(* statement fails, and the commit is a rollback that raises no error.     *)
(***************************************************************************)
EXTENDS Tables

VARIABLES
  line,      \* per import: the line it is at
  seen,      \* per import: the status it read for that line
  wrote,     \* per import: the status it wrote, "none" where it did not
  fresh,     \* per request: the emails it found no row for
  counted,   \* per request: the emails it counts as created or imported
  saved,     \* history: the emails it committed
  contested, \* history: emails others inserted or deleted while it was under way
  overtaken, \* history: emails that others set to UNSUBSCRIBED after it read them
  crossed    \* history: the imports that PostgreSQL ended for a deadlock

importVars == <<line, seen, wrote>>
recipientVars == <<importVars, fresh, counted, saved, contested, overtaken, crossed>>

InTransaction(c) == job[c].kind = "import" /\ at[c] \in {"find", "write"}
Line(c) == job[c].lines[line[c]]
\* What a statement of import c sees.
View(c, e) == IF wrote[c][e] # "none" THEN wrote[c][e] ELSE recipient[e]
Valid(j) == {j.lines[i].email : i \in {i \in DOMAIN j.lines : j.lines[i].status # "invalid"}}

\* The row or the index entry of e is locked by another import than c.
LockedBy(d, c, e) == d # c /\ InTransaction(d) /\ wrote[d][e] # "none"
Free(c, e) == \A d \in Requests : ~LockedBy(d, c, e)

\* The committed rows change, by request c: the histories of the others.
Writes(c, table) ==
  /\ recipient' = table
  /\ contested' = [d \in Requests |->
       IF d # c /\ Active(d)
       THEN contested[d] \union {e \in Emails : Exists(e) # (table[e] # "none")}
       ELSE contested[d]]
  /\ overtaken' = [d \in Requests |->
       IF d # c /\ InTransaction(d) /\ at[d] = "write"
       THEN overtaken[d] \union {e \in {Line(d).email} :
              recipient[e] # "UNSUBSCRIBED" /\ table[e] = "UNSUBSCRIBED"}
       ELSE overtaken[d]]

NoWrites == UNCHANGED <<recipient, contested, overtaken>>
WithRows(es) == [e \in Emails |-> IF e \in es /\ ~Exists(e) THEN "ACTIVE" ELSE recipient[e]]

others == <<groupTables, campaignTables>>

-----------------------------------------------------------------------------
(* createRecipient, createRecipients: look up, then insert                 *)

CreateRecipient(c, j) ==
  /\ Begins(c, j, "createRecipient")
  /\ fresh' = [fresh EXCEPT ![c] = {e \in j.ids : ~Exists(e)}]
  /\ GoesIf(c, \A e \in j.ids : ~Exists(e), "create")
  /\ NoWrites
  /\ UNCHANGED <<others, importVars, counted, saved, crossed, faults>>

\* The unique index refuses the row if there is one by now.
InsertRecipient(c) ==
  LET free == \A e \in fresh[c] : ~Exists(e) IN
  /\ at[c] = "create" /\ \A e \in fresh[c] : Free(c, e)
  /\ Writes(c, IF free THEN WithRows(fresh[c]) ELSE recipient)
  /\ counted' = [counted EXCEPT ![c] = IF free THEN fresh[c] ELSE {}]
  /\ saved' = [saved EXCEPT ![c] = counted'[c]]
  /\ AnswersIf(c, free)
  /\ UNCHANGED <<others, job, importVars, fresh, crossed, faults>>

\* One batch of createRecipients; a call with several does this once for each.
CreateRecipients(c, j) ==
  /\ Begins(c, j, "createRecipients")
  /\ fresh' = [fresh EXCEPT ![c] = {e \in j.ids : ~Exists(e)}]
  /\ IF \A e \in j.ids : Exists(e) THEN Answers(c, "ok") ELSE Goes(c, "createMany")
  /\ NoWrites
  /\ UNCHANGED <<others, importVars, counted, saved, crossed, faults>>

\* Mutant: the emails that had a row are counted too.
InsertAndCountAll(c) ==
  /\ at[c] = "createMany" /\ \A e \in fresh[c] : Free(c, e)
  /\ Writes(c, WithRows(fresh[c]))
  /\ counted' = [counted EXCEPT ![c] = job[c].ids]
  /\ saved' = [saved EXCEPT ![c] = {e \in fresh[c] : ~Exists(e)}]
  /\ Answers(c, "ok")
  /\ UNCHANGED <<others, job, importVars, fresh, crossed, faults>>

\* createMany with skipDuplicates: rows that have come in between are kept, and
\* counted as created.
InsertRecipients(c) ==
  /\ at[c] = "createMany" /\ \A e \in fresh[c] : Free(c, e)
  /\ Writes(c, WithRows(fresh[c]))
  /\ counted' = [counted EXCEPT ![c] = fresh[c]]
  /\ saved' = [saved EXCEPT ![c] = {e \in fresh[c] : ~Exists(e)}]
  /\ Answers(c, "ok")
  /\ UNCHANGED <<others, job, importVars, fresh, crossed, faults>>

\* A failure is caught, and every email of the batch reported as an error.
InsertRecipientsFails(c) ==
  /\ at[c] = "createMany" /\ Fault
  /\ Answers(c, "ok")
  /\ NoWrites
  /\ UNCHANGED <<others, job, importVars, fresh, counted, saved, crossed>>

-----------------------------------------------------------------------------
(* importRecipientsFromCsv                                                 *)

\* The header is checked and the file parsed; one without a line is refused.
ImportRecipientsFromCsv(c, j) ==
  /\ Begins(c, j, "import")
  /\ GoesIf(c, j.lines # <<>>, "find")
  /\ line' = [line EXCEPT ![c] = 1]
  /\ NoWrites
  /\ UNCHANGED <<others, seen, wrote, fresh, counted, saved, crossed, faults>>

NextLine(c) == line' = [line EXCEPT ![c] = @ + 1] /\ Goes(c, "find")

\* A line that is not valid raises no error in the database.
SkipLine(c) ==
  /\ at[c] = "find" /\ line[c] <= Len(job[c].lines) /\ Line(c).status = "invalid"
  /\ NextLine(c)
  /\ NoWrites
  /\ UNCHANGED <<others, job, seen, wrote, fresh, counted, saved, crossed, faults>>

\* Mutant: the look-up uses the client in place of the transaction.
FindCommitted(c) ==
  /\ at[c] = "find" /\ line[c] <= Len(job[c].lines) /\ Line(c).status # "invalid"
  /\ seen' = [seen EXCEPT ![c] = recipient[Line(c).email]]
  /\ Goes(c, "write")
  /\ NoWrites
  /\ UNCHANGED <<others, job, line, wrote, fresh, counted, saved, crossed, faults>>

FindLine(c) ==
  /\ at[c] = "find" /\ line[c] <= Len(job[c].lines) /\ Line(c).status # "invalid"
  /\ seen' = [seen EXCEPT ![c] = View(c, Line(c).email)]
  /\ Goes(c, "write")
  /\ NoWrites
  /\ UNCHANGED <<others, job, line, wrote, fresh, counted, saved, crossed, faults>>

\* Mutant: what the file says is taken as it is.
StatusAsGiven(c) == Line(c).status

\* Mutant: a line that says nothing makes the recipient ACTIVE.
StatusOrActive(c) == IF Line(c).status = "" THEN "ACTIVE" ELSE Line(c).status

\* recipientData.status || existingRecipient.status, ACTIVE for a new row.
NewStatus(c) ==
  IF Line(c).status # "" THEN Line(c).status
  ELSE IF seen[c] = "none" THEN "ACTIVE" ELSE seen[c]

\* The line is written: as a new row if none was seen, over the row otherwise.
WriteLine(c) ==
  LET e == Line(c).email IN
  /\ at[c] = "write" /\ Free(c, e)
  /\ (seen[c] = "none") = (View(c, e) = "none")
  /\ wrote' = [wrote EXCEPT ![c][e] = NewStatus(c)]
  /\ counted' = [counted EXCEPT ![c] = @ \union {e}]
  /\ NextLine(c)
  /\ NoWrites
  /\ UNCHANGED <<others, job, seen, fresh, saved, crossed, faults>>

\* The row that was seen is gone: Prisma reports it, the transaction goes on.
RowGone(c) ==
  LET e == Line(c).email IN
  /\ at[c] = "write" /\ Free(c, e)
  /\ seen[c] # "none" /\ View(c, e) = "none"
  /\ NextLine(c)
  /\ NoWrites
  /\ UNCHANGED <<others, job, seen, wrote, fresh, counted, saved, crossed, faults>>

\* The transaction is aborted; its lines fail one after the other from here.
Aborts(c) ==
  /\ wrote' = [wrote EXCEPT ![c] = [e \in Emails |-> "none"]]
  /\ Goes(c, "aborted")
  /\ NoWrites
  /\ UNCHANGED <<others, job, line, seen, fresh, counted, saved>>

\* Another request has inserted the email meanwhile: the index refuses it.
DuplicateEmail(c) ==
  LET e == Line(c).email IN
  /\ at[c] = "write" /\ Free(c, e)
  /\ seen[c] = "none" /\ View(c, e) # "none"
  /\ Aborts(c)
  /\ UNCHANGED <<crossed, faults>>

WaitsFor(c, d) == InTransaction(c) /\ at[c] = "write" /\ LockedBy(d, c, Line(c).email)

\* Imports that wait for each other in a circle: PostgreSQL ends one of them.
DeadlockDetected(c) ==
  /\ \E S \in SUBSET Requests :
       /\ c \in S
       /\ \A d \in S : (\E f \in S : WaitsFor(d, f)) /\ (\E f \in S : WaitsFor(f, d))
  /\ Aborts(c)
  /\ crossed' = crossed \union {c}
  /\ UNCHANGED faults

\* A statement fails for another reason.
StatementFails(c) ==
  /\ InTransaction(c) /\ Fault
  /\ Aborts(c)
  /\ UNCHANGED crossed

Commit(c) ==
  /\ InTransaction(c) /\ at[c] = "find" /\ line[c] > Len(job[c].lines)
  /\ Writes(c, [e \in Emails |-> View(c, e)])
  /\ saved' = [saved EXCEPT ![c] = counted[c]]
  /\ Answers(c, "ok")
  /\ UNCHANGED <<others, job, importVars, fresh, counted, crossed, faults>>

\* The commit of an aborted transaction: nothing is kept, the answer says
\* success and how many lines were imported before.
CommitAborted(c) ==
  /\ at[c] = "aborted"
  /\ Answers(c, "ok")
  /\ NoWrites
  /\ UNCHANGED <<others, job, importVars, fresh, counted, saved, crossed, faults>>

-----------------------------------------------------------------------------
(* One call each                                                           *)

\* updateRecipientStatus, unsubscribe and update.
UpdateRecipientStatus(c, j) ==
  /\ Begins(c, j, "setStatus")
  /\ \A e \in j.ids : Free(c, e)
  /\ Writes(c, [e \in Emails |-> IF e \in j.ids /\ Exists(e) THEN j.status ELSE recipient[e]])
  /\ AnswersIf(c, \A e \in j.ids : Exists(e))
  /\ UNCHANGED <<others, importVars, fresh, counted, saved, crossed, faults>>

\* Rows that refer to the recipient keep it; one that is being deleted is waited
\* for.
Referred(e) == e \in members \/ \E k \in campaigns : <<k, e>> \in links

RemoveRecipient(c, j) ==
  LET gone == {e \in j.ids : Exists(e) /\ ~Referred(e)} IN
  /\ Begins(c, j, "removeRecipient")
  /\ \A e \in j.ids : Free(c, e) /\ ~BeingUnlinked(e)
  /\ Writes(c, [e \in Emails |-> IF e \in gone THEN "none" ELSE recipient[e]])
  /\ AnswersIf(c, gone = j.ids)
  /\ UNCHANGED <<others, importVars, fresh, counted, saved, crossed, faults>>

RecipientStep(c) ==
  \/ InsertRecipient(c) \/ InsertRecipients(c) \/ InsertRecipientsFails(c)
  \/ SkipLine(c) \/ FindLine(c) \/ WriteLine(c) \/ RowGone(c)
  \/ DuplicateEmail(c) \/ DeadlockDetected(c) \/ StatementFails(c)
  \/ Commit(c) \/ CommitAborted(c)

RecipientRequest(c, j) ==
  \/ CreateRecipient(c, j) \/ CreateRecipients(c, j) \/ ImportRecipientsFromCsv(c, j)
  \/ UpdateRecipientStatus(c, j) \/ RemoveRecipient(c, j)
=============================================================================
