--------------------------- MODULE TemplateVersions ---------------------------
(***************************************************************************)
(* The versions of one mail template: TemplateService of modules/template, *)
(* which keeps a history, and TemplateService of modules/mail, which does  *)
(* not.                                                                    *)
(*                                                                         *)
(* Saving the history and writing the template are two calls to the        *)
(* database, outside a transaction; what a request read is kept in it      *)
(* until then. The index on (templateId, version) is all that holds two    *)
(* requests apart.                                                         *)
(***************************************************************************)
EXTENDS Naturals

CONSTANTS
  Requests,  \* requests of one behaviour, in any order and overlap (a bound)
  First,     \* the content the template was created with
  MaxFaults  \* calls that fail in one behaviour (a bound)

ASSUME TemplateAssumption ==
  /\ First \notin Requests
  /\ MaxFaults \in Nat

\* MJML, description and merge tags together: each request brings its own.
Contents == Requests \union {First}

VARIABLES
  version,  \* mailTemplate.version
  content,  \* mailTemplate.mjmlContent, description, mergeTags
  gone,     \* the template is deleted
  versions, \* rows of mailTemplateVersion: version and content
  proc,     \* per request: what it awaits, what it read, what it will write
  had,      \* history: the version and content of every state of the row
  unsaved,  \* history: contents that updateTemplate replaced
  restored, \* history: a restore has begun
  crossed,  \* history: a restore or an updateTemplate overlapped a request
  passed,   \* history: requests whose row was written under them, not by an
            \* update that came in turn
  faults

vars == <<version, content, gone, versions, proc, had, unsaved, restored, crossed,
          passed, faults>>

row == <<version, content, gone>>
history == <<had, unsaved, restored, crossed, passed>>

Entry(v, c) == [version |-> v, content |-> c]
\* The unique index over the history.
Labels == {h.version : h \in versions}

Idle == [at |-> "idle", version |-> 1, content |-> First, label |-> 1, target |-> First]
Done == [Idle EXCEPT !.at = "done"]

Active(p) == proc[p].at \notin {"idle", "done"}
OthersActive(p) == \E q \in Requests \ {p} : Active(q)
Restoring(p) == proc[p].at = "reread" \/ (Active(p) /\ proc[p].label > proc[p].version)
\* Those who hold what they read of the row, but for p.
Readers(p) == {q \in Requests \ {p} : proc[q].at \in {"save", "write"}}

TypeOK ==
  /\ version \in Nat /\ content \in Contents /\ gone \in BOOLEAN
  /\ versions \subseteq [version : Nat, content : Contents]
  /\ \A g, h \in versions : g.version = h.version => g = h
  /\ proc \in [Requests -> [at : {"idle", "reread", "save", "write", "done"},
                            version : Nat, content : Contents,
                            label : Nat, target : Contents]]
  /\ had \subseteq [version : Nat, content : Contents]
  /\ unsaved \subseteq Contents
  /\ restored \in BOOLEAN /\ crossed \in BOOLEAN
  /\ passed \subseteq Requests
  /\ faults \in 0 .. MaxFaults

Init ==
  /\ version = 1 /\ content = First /\ gone = FALSE
  /\ versions = {}
  /\ proc = [p \in Requests |-> Idle]
  /\ had = {Entry(1, First)}
  /\ unsaved = {} /\ restored = FALSE /\ crossed = FALSE /\ passed = {}
  /\ faults = 0

Ends(p) == proc' = [proc EXCEPT ![p] = Done]

\* The request goes on with what the row is now: to save it under label, then
\* to write target.
HasRead(p, label, target) ==
  /\ proc' = [proc EXCEPT ![p] = [at |-> "save", version |-> version,
             content |-> content, label |-> label, target |-> target]]
  /\ passed' = passed \ {p}

WritesRow(v, c) ==
  /\ version' = v /\ content' = c
  /\ had' = had \union {Entry(v, c)}
  /\ UNCHANGED gone

\* A restore may write beside an update, a request that was passed writes late.
Passes(p) ==
  passed' = passed \union
    {q \in Readers(p) : p \in passed \/ Restoring(p) \/ Restoring(q)}

-----------------------------------------------------------------------------
\* update: findOne and validateMjml.
Update(p) ==
  /\ proc[p].at = "idle" /\ ~gone
  /\ HasRead(p, version, p)
  /\ crossed' = (crossed \/ \E q \in Requests : Restoring(q))
  /\ UNCHANGED <<row, versions, had, unsaved, restored, faults>>

\* restoreVersion: getVersion.
RestoreVersion(p) ==
  /\ proc[p].at = "idle" /\ ~gone
  /\ \E h \in versions :
       proc' = [proc EXCEPT ![p].at = "reread", ![p].target = h.content]
  /\ restored' = TRUE
  /\ crossed' = (crossed \/ OthersActive(p))
  /\ UNCHANGED <<row, versions, had, unsaved, passed, faults>>

\* findOne again: the content of now goes under the version to come.
ReadCurrent(p) ==
  /\ proc[p].at = "reread" /\ ~gone
  /\ HasRead(p, version + 1, proc[p].target)
  /\ UNCHANGED <<row, versions, had, unsaved, restored, crossed, faults>>

\* Mutant: an upsert, as if the index did not refuse a second row.
SaveVersionOver(p) ==
  /\ proc[p].at = "save" /\ ~gone
  /\ versions' = {h \in versions : h.version # proc[p].label}
                   \union {Entry(proc[p].label, proc[p].content)}
  /\ proc' = [proc EXCEPT ![p].at = "write"]
  /\ UNCHANGED <<row, history, faults>>

\* Mutant: no unique index.
SaveVersionTwice(p) ==
  /\ proc[p].at = "save" /\ ~gone
  /\ versions' = versions \union {Entry(proc[p].label, proc[p].content)}
  /\ proc' = [proc EXCEPT ![p].at = "write"]
  /\ UNCHANGED <<row, history, faults>>

\* mailTemplateVersion.create: refused when the version has a row already.
SaveVersion(p) ==
  /\ proc[p].at = "save" /\ ~gone
  /\ IF proc[p].label \in Labels
     THEN Ends(p) /\ UNCHANGED versions
     ELSE /\ versions' = versions \union {Entry(proc[p].label, proc[p].content)}
          /\ proc' = [proc EXCEPT ![p].at = "write"]
  /\ UNCHANGED <<row, history, faults>>

\* Mutant: the version is left as it was read.
WriteTemplateSame(p) ==
  /\ proc[p].at = "write" /\ ~gone
  /\ WritesRow(proc[p].version, proc[p].target)
  /\ Passes(p)
  /\ Ends(p)
  /\ UNCHANGED <<versions, unsaved, restored, crossed, faults>>

\* mailTemplate.update: the version that was read, and one.
WriteTemplate(p) ==
  /\ proc[p].at = "write" /\ ~gone
  /\ WritesRow(proc[p].version + 1, proc[p].target)
  /\ Passes(p)
  /\ Ends(p)
  /\ UNCHANGED <<versions, unsaved, restored, crossed, faults>>

\* updateTemplate of modules/mail: the database counts, nothing is saved.
UpdateTemplate(p) ==
  /\ proc[p].at = "idle" /\ ~gone
  /\ WritesRow(version + 1, p)
  /\ Ends(p)
  /\ unsaved' = unsaved \union {content}
  /\ crossed' = (crossed \/ OthersActive(p))
  /\ passed' = passed \union Readers(p)
  /\ UNCHANGED <<versions, restored, faults>>

\* remove and deleteTemplate: the history goes with the template.
Remove(p) ==
  /\ proc[p].at = "idle" /\ ~gone
  /\ gone' = TRUE /\ versions' = {}
  /\ Ends(p)
  /\ UNCHANGED <<version, content, history, faults>>

\* Nothing is found, or the foreign key refuses the row of the history.
TemplateGone(p) ==
  /\ gone /\ Active(p)
  /\ Ends(p)
  /\ UNCHANGED <<row, versions, history, faults>>

\* A call fails, or the process dies before it.
CallFails(p) ==
  /\ Active(p)
  /\ faults < MaxFaults /\ faults' = faults + 1
  /\ Ends(p)
  /\ UNCHANGED <<row, versions, history>>

Next ==
  \E p \in Requests :
    \/ Update(p) \/ RestoreVersion(p) \/ ReadCurrent(p)
    \/ SaveVersion(p) \/ WriteTemplate(p)
    \/ UpdateTemplate(p) \/ Remove(p) \/ TemplateGone(p) \/ CallFails(p)

Spec == Init /\ [][Next]_vars

-----------------------------------------------------------------------------
(* Properties                                                              *)

\* Whatever the template once contained is still its content or in its
\* history, however updates overlap, fail or die between their two writes.
\* Only updateTemplate of modules/mail, and a restore or an updateTemplate
\* overlapping another request, may lose a content. (95-119)
NothingLost ==
  ~gone /\ ~crossed =>
    {h.content : h \in had}
      \subseteq {h.content : h \in versions} \union unsaved \union {content}

\* With no request under way the next update finds its version free, unless a
\* restore came before, a request died between its two writes, or requests of
\* different kinds overlapped. (96-106)
StuckHasCause ==
  ~gone /\ (\A p \in Requests : ~Active(p)) /\ version \in Labels
    => restored \/ crossed \/ faults > 0

\* Every write puts down a version and a content computed from an earlier read,
\* and yet it replaces just what its request read, however many updates overlap,
\* fail or die. A request overwrites what it never saw, and lets the version fall,
\* only if it was passed: since its read the row was written by updateTemplate of
\* modules/mail, by a restore, beside a restore of its own, or by a request that was
\* itself passed. (95-119, 287-311, updateTemplate 115-131)
LateWriteHasCause ==
  [][/\ \A p \in Requests : WriteTemplate(p) /\ p \notin passed
                            => version = proc[p].version /\ content = proc[p].content
     /\ version' < version => \E p \in passed : WriteTemplate(p)]_vars

\* The history has under a version what the template was at that version: it
\* is the current version that is saved (comments of lines 95 and 287), even
\* when no restore meets another request.
HistoryHoldsVersions ==
  ~gone /\ ~crossed => versions \subseteq had

-----------------------------------------------------------------------------
(* What makes the above inductive, for the template that is there.           *)

\* The row is still what the request read of it.
Current(p) == proc[p].version = version /\ proc[p].content = content

\* A request that was not passed holds the row as it is, or will be refused; and
\* each of those about to write has a row of the history to itself.
ReadHolds ==
  ~gone => \A p \in Requests :
    /\ proc[p].at \in {"save", "write"} =>
         proc[p].label \in {proc[p].version, proc[p].version + 1}
    /\ proc[p].at = "save" /\ p \notin passed => Current(p) \/ proc[p].label \in Labels
    /\ proc[p].at = "write" =>
         /\ proc[p].label \in Labels
         /\ p \notin passed => Current(p)
         /\ \A q \in Requests : q # p /\ proc[q].at = "write"
                                => proc[q].label # proc[p].label

\* The rest is for a template whose requests did not cross.
Calm == ~gone /\ ~crossed

\* A restore has the template for itself.
RestoreAlone ==
  Calm => \A p, q \in Requests : Restoring(p) /\ Active(q) => p = q

\* What waits to be saved is what the template is, or will be refused.
FreshOrRefused ==
  Calm => \A p \in Requests : proc[p].at = "save" =>
    /\ proc[p].label \in {proc[p].version, proc[p].version + 1}
    /\ \/ proc[p].version = version /\ proc[p].content = content
       \/ proc[p].label \in Labels /\ proc[p].label = proc[p].version

\* Whoever is about to write has the template in the history, and is the only
\* one.
WriterAlone ==
  Calm => \A p \in Requests : proc[p].at = "write" =>
    /\ proc[p].label \in {version, version + 1}
    /\ proc[p].version = version /\ proc[p].content = content
    /\ Entry(proc[p].label, content) \in versions
    /\ \A q \in Requests : proc[q].at = "write" => q = p

\* As long as nothing is restored and nothing fails, the version of the
\* template is taken only while somebody is about to leave it.
TakenByWriter ==
  Calm /\ ~restored /\ faults = 0 =>
    /\ \A p \in Requests :
         /\ proc[p].at # "reread"
         /\ Active(p) => proc[p].label = proc[p].version
    /\ \A v \in Labels : v <= version
    /\ version \in Labels => \E p \in Requests : proc[p].at = "write"

IInv ==
  /\ TypeOK /\ RestoreAlone /\ FreshOrRefused /\ WriterAlone
  /\ NothingLost /\ TakenByWriter /\ ReadHolds
=============================================================================
