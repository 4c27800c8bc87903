------------------------------ MODULE MCAudience ------------------------------
(* Instances of Audience for TLC.                                             *)
EXTENDS Audience, TLC

CONSTANTS a, b, q1, q2, q3

TwoEmails == {a, b}
OneEmail == {a}
TwoRequests == {q1, q2}
ThreeRequests == {q1, q2, q3}

Ask(kind, ids, status, flag) ==
  [kind |-> kind, ids |-> ids, lines |-> <<>>, status |-> status, flag |-> flag]
File(lines) == [NoJob EXCEPT !.kind = "import", !.lines = lines]
Says(e, status) == [email |-> e, status |-> status]

\* Files in both orders of the emails, with an email twice, with a line that is
\* not valid, and without lines.
Files == {File(<<Says(a, ""), Says(b, "")>>), File(<<Says(b, ""), Says(a, "UNSUBSCRIBED")>>),
          File(<<Says(b, ""), Says(b, "ACTIVE")>>),
          File(<<Says(a, "invalid"), Says(b, "")>>), File(<<>>)}

RecipientJobs == Files
  \union {Ask("createRecipient", {b}, "ACTIVE", FALSE),
          Ask("createRecipients", {a, b}, "ACTIVE", FALSE),
          Ask("removeRecipient", {b}, "ACTIVE", FALSE)}
  \union {Ask("setStatus", {a}, s, FALSE) : s \in Statuses}

GroupJobs ==
  {Ask(k, {b}, "ACTIVE", TRUE) : k \in {"addRecipients", "addRecipientsToGroup"}}
  \union {Ask("removeRecipients", {a}, "ACTIVE", TRUE)}
  \union {Ask("removeGroup", {}, "ACTIVE", own) : own \in BOOLEAN}

LinkJobs ==
  {Ask("createCampaign", ids, "ACTIVE", g) : ids \in {{}, {a}}, g \in BOOLEAN}
  \union {Ask("updateCampaign", ids, "ACTIVE", g) :
            ids \in {{}, {b}, {a, b}}, g \in BOOLEAN}

AllJobs == RecipientJobs \union GroupJobs \union LinkJobs
=============================================================================
