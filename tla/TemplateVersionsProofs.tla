----------------------- MODULE TemplateVersionsProofs -----------------------
(* Proofs of the safety properties of TemplateVersions.                     *)
EXTENDS TemplateVersions, TLAPS

USE TemplateAssumption

\* Every step keeps every variable within its type.
LEMMA TypeStep == TypeOK /\ [Next]_vars => TypeOK'
<1> SUFFICES ASSUME TypeOK, [Next]_vars PROVE TypeOK'
  OBVIOUS
<1> USE DEF TypeOK, Contents, Entry, Labels, Idle, Done, row, history
<1>1. ASSUME NEW p \in Requests, Update(p) PROVE TypeOK'
  BY <1>1 DEF Update, HasRead
<1>2. ASSUME NEW p \in Requests, RestoreVersion(p) PROVE TypeOK'
  <2>1. PICK h \in versions :
          proc' = [proc EXCEPT ![p].at = "reread", ![p].target = h.content]
    BY <1>2 DEF RestoreVersion
  <2>2. h.content \in Contents
    OBVIOUS
  <2>3. proc' \in [Requests -> [at : {"idle", "reread", "save", "write", "done"},
                              version : Nat, content : Contents,
                              label : Nat, target : Contents]]
    <3>1. ASSUME NEW q \in Requests
          PROVE  proc'[q] \in [at : {"idle", "reread", "save", "write", "done"},
                               version : Nat, content : Contents,
                               label : Nat, target : Contents]
      <4>1. proc[q] \in [at : {"idle", "reread", "save", "write", "done"},
                         version : Nat, content : Contents,
                         label : Nat, target : Contents]
        OBVIOUS
      <4>2. CASE q # p
        BY <2>1, <4>1, <4>2
      <4>3. CASE q = p
        <5>1. proc'[q] = [proc[q] EXCEPT !.at = "reread", !.target = h.content]
          BY <2>1, <4>3
        <5> HIDE DEF TypeOK, Contents
        <5> QED
          BY <2>2, <4>1, <5>1
      <4> QED
        BY <4>2, <4>3
    <3> QED
      BY <2>1, <3>1
  <2> QED
    BY <1>2, <2>3 DEF RestoreVersion
<1>3. ASSUME NEW p \in Requests, ReadCurrent(p) PROVE TypeOK'
  BY <1>3 DEF ReadCurrent, HasRead
<1>4. ASSUME NEW p \in Requests, SaveVersion(p) PROVE TypeOK'
  BY <1>4 DEF SaveVersion, Ends
<1>5. ASSUME NEW p \in Requests, WriteTemplate(p) PROVE TypeOK'
  BY <1>5 DEF WriteTemplate, WritesRow, Ends, Passes, Readers
<1>6. ASSUME NEW p \in Requests, UpdateTemplate(p) PROVE TypeOK'
  BY <1>6 DEF UpdateTemplate, WritesRow, Ends, Readers
<1>7. ASSUME NEW p \in Requests, Remove(p) PROVE TypeOK'
  BY <1>7 DEF Remove, Ends
<1>8. ASSUME NEW p \in Requests, TemplateGone(p) PROVE TypeOK'
  BY <1>8 DEF TemplateGone, Ends
<1>9. ASSUME NEW p \in Requests, CallFails(p) PROVE TypeOK'
  BY <1>9 DEF CallFails, Ends
<1>10. CASE UNCHANGED vars
  BY <1>10 DEF vars, row, history
<1> QED
  BY <1>1, <1>2, <1>3, <1>4, <1>5, <1>6, <1>7, <1>8, <1>9, <1>10 DEF Next

\* A restore begins with nobody under way, or crosses.
LEMMA RestoreAloneStep == TypeOK /\ RestoreAlone /\ [Next]_vars => RestoreAlone'
<1> SUFFICES ASSUME TypeOK, RestoreAlone, [Next]_vars PROVE RestoreAlone'
  OBVIOUS
<1> USE DEF TypeOK, Calm, Active, row, history, RestoreAlone, Restoring, OthersActive, Idle, Done
<1>1. ASSUME NEW p \in Requests, Update(p) PROVE RestoreAlone'
  <2> SUFFICES ASSUME Calm', NEW q \in Requests, NEW s \in Requests,
                      Restoring(q)', Active(s)'
               PROVE  q = s
    OBVIOUS
  <2>1. \A t \in Requests : ~Restoring(t)
    BY <1>1 DEF Update
  <2>2. CASE q = p
    BY <1>1, <2>2 DEF Update, HasRead
  <2>3. CASE q # p
    BY <1>1, <2>1, <2>3 DEF Update, HasRead
  <2> QED
    BY <2>2, <2>3
<1>2. ASSUME NEW p \in Requests, RestoreVersion(p) PROVE RestoreAlone'
  <2> SUFFICES ASSUME Calm', NEW q \in Requests, NEW s \in Requests,
                      Restoring(q)', Active(s)'
               PROVE  q = s
    OBVIOUS
  <2>1. \A t \in Requests : t # p => ~Active(t)
    BY <1>2 DEF RestoreVersion
  <2>2. \A t \in Requests : t # p => proc'[t] = proc[t]
    BY <1>2 DEF RestoreVersion
  <2>3. q = p
    BY <2>1, <2>2
  <2>4. s = p
    BY <2>1, <2>2
  <2> QED
    BY <2>3, <2>4
<1>3. ASSUME NEW p \in Requests, ReadCurrent(p) PROVE RestoreAlone'
  BY <1>3 DEF ReadCurrent, HasRead
<1>4. ASSUME NEW p \in Requests, SaveVersion(p) PROVE RestoreAlone'
  BY <1>4 DEF SaveVersion, Ends
<1>5. ASSUME NEW p \in Requests, WriteTemplate(p) PROVE RestoreAlone'
  BY <1>5 DEF WriteTemplate, WritesRow, Ends
<1>6. ASSUME NEW p \in Requests, UpdateTemplate(p) PROVE RestoreAlone'
  BY <1>6 DEF UpdateTemplate, WritesRow, Ends
<1>7. ASSUME NEW p \in Requests, Remove(p) PROVE RestoreAlone'
  BY <1>7 DEF Remove, Ends
<1>8. ASSUME NEW p \in Requests, TemplateGone(p) PROVE RestoreAlone'
  BY <1>8 DEF TemplateGone, Ends
<1>9. ASSUME NEW p \in Requests, CallFails(p) PROVE RestoreAlone'
  BY <1>9 DEF CallFails, Ends
<1>10. CASE UNCHANGED vars
  BY <1>10 DEF vars, row, history
<1> QED
  BY <1>1, <1>2, <1>3, <1>4, <1>5, <1>6, <1>7, <1>8, <1>9, <1>10 DEF Next

\* Two requests under way at once are updates: neither labels a version to come.
LEMMA TogetherUpdate ==
  ASSUME TypeOK, RestoreAlone, Calm, NEW p \in Requests, NEW q \in Requests,
         p # q, Active(p), Active(q)
  PROVE  proc[p].label <= proc[p].version /\ proc[q].label <= proc[q].version
<1>1. ~Restoring(p) /\ ~Restoring(q)
  BY DEF RestoreAlone
<1>2. /\ proc[p].label \in Nat /\ proc[p].version \in Nat
      /\ proc[q].label \in Nat /\ proc[q].version \in Nat
  BY DEF TypeOK
<1> QED
  BY <1>1, <1>2 DEF Restoring

\* Above a bound of a set of numbers its successor is free.
LEMMA SuccessorFree ==
  ASSUME NEW n \in Nat, NEW L, \A v \in L : v \in Nat /\ v <= n
  PROVE  n + 1 \notin L /\ \A v \in L : v <= n + 1
OBVIOUS

\* A template that changes leaves the others with a version that is taken.
LEMMA FreshOrRefusedStep == TypeOK /\ RestoreAlone /\ FreshOrRefused /\ WriterAlone /\ [Next]_vars => FreshOrRefused'
<1> SUFFICES ASSUME TypeOK, RestoreAlone, FreshOrRefused, WriterAlone, [Next]_vars PROVE FreshOrRefused'
  OBVIOUS
<1> USE DEF TypeOK, Calm, Active, row, history, RestoreAlone, FreshOrRefused, WriterAlone, Restoring, OthersActive, Labels, Entry, Idle, Done
<1>1. ASSUME NEW p \in Requests, Update(p) PROVE FreshOrRefused'
  BY <1>1 DEF Update, HasRead
<1>2. ASSUME NEW p \in Requests, RestoreVersion(p) PROVE FreshOrRefused'
  BY <1>2 DEF RestoreVersion
<1>3. ASSUME NEW p \in Requests, ReadCurrent(p) PROVE FreshOrRefused'
  BY <1>3 DEF ReadCurrent, HasRead
<1>4. ASSUME NEW p \in Requests, SaveVersion(p) PROVE FreshOrRefused'
  BY <1>4 DEF SaveVersion, Ends
<1>5. ASSUME NEW p \in Requests, WriteTemplate(p) PROVE FreshOrRefused'
  <2> SUFFICES ASSUME Calm', NEW q \in Requests, proc'[q].at = "save"
               PROVE  /\ proc'[q].label \in {proc'[q].version, proc'[q].version + 1}
                      /\ proc'[q].label \in Labels'
                      /\ proc'[q].label = proc'[q].version
    OBVIOUS
  <2>1. Calm /\ q # p /\ proc'[q] = proc[q] /\ versions' = versions
    BY <1>5 DEF WriteTemplate, WritesRow, Ends
  <2>2. proc[p].label = version /\ proc[q].label = proc[q].version
    <3>1. proc[p].label <= proc[p].version /\ proc[q].label <= proc[q].version
      BY <1>5, <2>1, TogetherUpdate DEF WriteTemplate
    <3>2. /\ proc[p].label \in {version, version + 1} /\ proc[p].version = version
          /\ proc[q].label \in {proc[q].version, proc[q].version + 1}
      BY <1>5, <2>1 DEF WriteTemplate
    <3> QED
      BY <3>1, <3>2
  <2>3. Entry(version, content) \in versions
    BY <1>5, <2>1, <2>2 DEF WriteTemplate
  <2>4. version \in Labels
    BY <2>3
  <2> QED
    BY <2>1, <2>2, <2>4
<1>6. ASSUME NEW p \in Requests, UpdateTemplate(p) PROVE FreshOrRefused'
  BY <1>6 DEF UpdateTemplate, WritesRow, Ends
<1>7. ASSUME NEW p \in Requests, Remove(p) PROVE FreshOrRefused'
  BY <1>7 DEF Remove, Ends
<1>8. ASSUME NEW p \in Requests, TemplateGone(p) PROVE FreshOrRefused'
  BY <1>8 DEF TemplateGone, Ends
<1>9. ASSUME NEW p \in Requests, CallFails(p) PROVE FreshOrRefused'
  BY <1>9 DEF CallFails, Ends
<1>10. CASE UNCHANGED vars
  BY <1>10 DEF vars, row, history
<1> QED
  BY <1>1, <1>2, <1>3, <1>4, <1>5, <1>6, <1>7, <1>8, <1>9, <1>10 DEF Next

\* The index lets one request of those that read a version through.
LEMMA WriterAloneStep == TypeOK /\ RestoreAlone /\ FreshOrRefused /\ WriterAlone /\ [Next]_vars => WriterAlone'
<1> SUFFICES ASSUME TypeOK, RestoreAlone, FreshOrRefused, WriterAlone, [Next]_vars PROVE WriterAlone'
  OBVIOUS
<1> USE DEF TypeOK, Calm, Active, row, history, RestoreAlone, FreshOrRefused, WriterAlone, Restoring, OthersActive, Labels, Entry, Idle, Done
<1>1. ASSUME NEW p \in Requests, Update(p) PROVE WriterAlone'
  BY <1>1 DEF Update, HasRead
<1>2. ASSUME NEW p \in Requests, RestoreVersion(p) PROVE WriterAlone'
  BY <1>2 DEF RestoreVersion
<1>3. ASSUME NEW p \in Requests, ReadCurrent(p) PROVE WriterAlone'
  BY <1>3 DEF ReadCurrent, HasRead
<1>4. ASSUME NEW p \in Requests, SaveVersion(p) PROVE WriterAlone'
  <2> SUFFICES ASSUME Calm'
               PROVE  WriterAlone'
    OBVIOUS
  <2>1. Calm /\ version' = version /\ content' = content
    BY <1>4 DEF SaveVersion
  <2>2. CASE proc[p].label \in Labels
    <3>1. proc' = [proc EXCEPT ![p] = Done] /\ versions' = versions
      BY <1>4, <2>2 DEF SaveVersion, Ends
    <3>2. \A q \in Requests : proc'[q].at = "write" => proc'[q] = proc[q] /\ proc[q].at = "write"
      BY <3>1
    <3> QED
      BY <2>1, <3>1, <3>2
  <2>3. CASE proc[p].label \notin Labels
    <3>1. /\ proc[p].version = version /\ proc[p].content = content
          /\ proc[p].label \in {version, version + 1}
      BY <1>4, <2>1, <2>3 DEF SaveVersion
    <3>2. /\ versions' = versions \union {Entry(proc[p].label, content)}
          /\ proc' = [proc EXCEPT ![p].at = "write"]
      BY <1>4, <2>3, <3>1 DEF SaveVersion
    <3>3. ASSUME NEW q \in Requests, proc[q].at = "write" PROVE FALSE
      <4>1. q # p /\ proc[q].label \in {version, version + 1}
        BY <1>4, <2>1, <3>3 DEF SaveVersion
      <4>2. proc[q].label = version /\ proc[p].label = version
        <5>1. proc[p].label <= proc[p].version /\ proc[q].label <= proc[q].version
          BY <1>4, <2>1, <3>3, <4>1, TogetherUpdate DEF SaveVersion
        <5>2. proc[q].version = version
          BY <2>1, <3>3
        <5> QED
          BY <3>1, <4>1, <5>1, <5>2
      <4>3. Entry(version, content) \in versions
        BY <2>1, <3>3, <4>2
      <4> QED
        BY <2>3, <4>2, <4>3
    <3> QED
      BY <2>1, <3>1, <3>2, <3>3
  <2> QED
    BY <2>2, <2>3
<1>5. ASSUME NEW p \in Requests, WriteTemplate(p) PROVE WriterAlone'
  BY <1>5 DEF WriteTemplate, WritesRow, Ends
<1>6. ASSUME NEW p \in Requests, UpdateTemplate(p) PROVE WriterAlone'
  BY <1>6 DEF UpdateTemplate, WritesRow, Ends
<1>7. ASSUME NEW p \in Requests, Remove(p) PROVE WriterAlone'
  BY <1>7 DEF Remove, Ends
<1>8. ASSUME NEW p \in Requests, TemplateGone(p) PROVE WriterAlone'
  BY <1>8 DEF TemplateGone, Ends
<1>9. ASSUME NEW p \in Requests, CallFails(p) PROVE WriterAlone'
  BY <1>9 DEF CallFails, Ends
<1>10. CASE UNCHANGED vars
  BY <1>10 DEF vars, row, history
<1> QED
  BY <1>1, <1>2, <1>3, <1>4, <1>5, <1>6, <1>7, <1>8, <1>9, <1>10 DEF Next

\* What a write replaces is in the history.
LEMMA NothingLostStep == TypeOK /\ WriterAlone /\ NothingLost /\ [Next]_vars => NothingLost'
<1> SUFFICES ASSUME TypeOK, WriterAlone, NothingLost, [Next]_vars PROVE NothingLost'
  OBVIOUS
<1> USE DEF TypeOK, Calm, Active, row, history, WriterAlone, NothingLost, Entry, Idle, Done
<1>1. ASSUME NEW p \in Requests, Update(p) PROVE NothingLost'
  BY <1>1 DEF Update, HasRead
<1>2. ASSUME NEW p \in Requests, RestoreVersion(p) PROVE NothingLost'
  BY <1>2 DEF RestoreVersion
<1>3. ASSUME NEW p \in Requests, ReadCurrent(p) PROVE NothingLost'
  BY <1>3 DEF ReadCurrent, HasRead
<1>4. ASSUME NEW p \in Requests, SaveVersion(p) PROVE NothingLost'
  BY <1>4 DEF SaveVersion, Ends
<1>5. ASSUME NEW p \in Requests, WriteTemplate(p) PROVE NothingLost'
  <2> SUFFICES ASSUME Calm'
               PROVE  {h.content : h \in had'}
                        \subseteq {h.content : h \in versions'} \union unsaved' \union {content'}
    OBVIOUS
  <2>1. /\ Calm /\ versions' = versions /\ unsaved' = unsaved
        /\ had' = had \union {Entry(proc[p].version + 1, content')}
    BY <1>5 DEF WriteTemplate, WritesRow
  <2>2. Entry(proc[p].label, content) \in versions
    BY <1>5, <2>1 DEF WriteTemplate
  <2>3. content \in {h.content : h \in versions}
    BY <2>2
  <2>4. {h.content : h \in had'} \subseteq {h.content : h \in had} \union {content'}
    BY <2>1
  <2> QED
    BY <2>1, <2>3, <2>4
<1>6. ASSUME NEW p \in Requests, UpdateTemplate(p) PROVE NothingLost'
  BY <1>6 DEF UpdateTemplate, WritesRow, Ends
<1>7. ASSUME NEW p \in Requests, Remove(p) PROVE NothingLost'
  BY <1>7 DEF Remove, Ends
<1>8. ASSUME NEW p \in Requests, TemplateGone(p) PROVE NothingLost'
  BY <1>8 DEF TemplateGone, Ends
<1>9. ASSUME NEW p \in Requests, CallFails(p) PROVE NothingLost'
  BY <1>9 DEF CallFails, Ends
<1>10. CASE UNCHANGED vars
  BY <1>10 DEF vars, row, history
<1> QED
  BY <1>1, <1>2, <1>3, <1>4, <1>5, <1>6, <1>7, <1>8, <1>9, <1>10 DEF Next

\* Without restores and failures a version is taken by its writer.
LEMMA TakenByWriterStep == TypeOK /\ FreshOrRefused /\ WriterAlone /\ TakenByWriter /\ [Next]_vars => TakenByWriter'
<1> SUFFICES ASSUME TypeOK, FreshOrRefused, WriterAlone, TakenByWriter, [Next]_vars PROVE TakenByWriter'
  OBVIOUS
<1> USE DEF TypeOK, Calm, Active, row, history, FreshOrRefused, WriterAlone, TakenByWriter, Labels, Entry, Idle, Done
<1>1. ASSUME NEW p \in Requests, Update(p) PROVE TakenByWriter'
  BY <1>1 DEF Update, HasRead
<1>2. ASSUME NEW p \in Requests, RestoreVersion(p) PROVE TakenByWriter'
  BY <1>2 DEF RestoreVersion
<1>3. ASSUME NEW p \in Requests, ReadCurrent(p) PROVE TakenByWriter'
  BY <1>3 DEF ReadCurrent, HasRead
<1>4. ASSUME NEW p \in Requests, SaveVersion(p) PROVE TakenByWriter'
  BY <1>4 DEF SaveVersion, Ends
<1>5. ASSUME NEW p \in Requests, WriteTemplate(p) PROVE TakenByWriter'
  <2> SUFFICES ASSUME Calm', ~restored', faults' = 0
               PROVE  TakenByWriter'
    OBVIOUS
  <2>1. Calm /\ ~restored /\ faults = 0 /\ versions' = versions
    BY <1>5 DEF WriteTemplate, WritesRow
  <2>2. version' = version + 1
    BY <1>5, <2>1 DEF WriteTemplate, WritesRow
  <2>3. \A v \in Labels : v \in Nat /\ v <= version
    BY <2>1
  <2>4. Labels' = Labels
    BY <2>1
  <2>5. version' \notin Labels' /\ \A v \in Labels' : v <= version'
    <3> HIDE DEF TypeOK, FreshOrRefused, WriterAlone, TakenByWriter, Labels
    <3>1. version \in Nat
      BY DEF TypeOK
    <3> QED
      BY <2>2, <2>3, <2>4, <3>1, SuccessorFree
  <2>6. \A q \in Requests : proc'[q] = proc[q] \/ proc'[q].at = "done"
    BY <1>5 DEF WriteTemplate, Ends
  <2> QED
    BY <2>1, <2>5, <2>6
<1>6. ASSUME NEW p \in Requests, UpdateTemplate(p) PROVE TakenByWriter'
  <2> SUFFICES ASSUME Calm', ~restored', faults' = 0
               PROVE  TakenByWriter'
    OBVIOUS
  <2>1. Calm /\ ~restored /\ faults = 0 /\ versions' = versions
    BY <1>6 DEF UpdateTemplate, WritesRow
  <2>2. version' = version + 1
    BY <1>6 DEF UpdateTemplate, WritesRow
  <2>3. \A v \in Labels : v \in Nat /\ v <= version
    BY <2>1
  <2>4. Labels' = Labels
    BY <2>1
  <2>5. version' \notin Labels' /\ \A v \in Labels' : v <= version'
    <3> HIDE DEF TypeOK, FreshOrRefused, WriterAlone, TakenByWriter, Labels
    <3>1. version \in Nat
      BY DEF TypeOK
    <3> QED
      BY <2>2, <2>3, <2>4, <3>1, SuccessorFree
  <2>6. \A q \in Requests : proc'[q] = proc[q] \/ proc'[q].at = "done"
    BY <1>6 DEF UpdateTemplate, Ends
  <2> QED
    BY <2>1, <2>5, <2>6
<1>7. ASSUME NEW p \in Requests, Remove(p) PROVE TakenByWriter'
  BY <1>7 DEF Remove, Ends
<1>8. ASSUME NEW p \in Requests, TemplateGone(p) PROVE TakenByWriter'
  BY <1>8 DEF TemplateGone, Ends
<1>9. ASSUME NEW p \in Requests, CallFails(p) PROVE TakenByWriter'
  BY <1>9 DEF CallFails, Ends
<1>10. CASE UNCHANGED vars
  BY <1>10 DEF vars, row, history
<1> QED
  BY <1>1, <1>2, <1>3, <1>4, <1>5, <1>6, <1>7, <1>8, <1>9, <1>10 DEF Next

\* A row more is its version more.
LEMMA LabelsGrow ==
  ASSUME NEW V, NEW v, NEW c
  PROVE  {h.version : h \in V \union {Entry(v, c)}} = {h.version : h \in V} \union {v}
<1> DEFINE L == {h.version : h \in V}
<1>1. Entry(v, c).version = v
  BY DEF Entry
<1>2. \A n : n \in {h.version : h \in V \union {Entry(v, c)}} <=> n \in L \/ n = v
  BY <1>1
<1> QED
  BY <1>2

\* What a request holds is what the row is, until something passes it.
LEMMA ReadHoldsStep == TypeOK /\ ReadHolds /\ [Next]_vars => ReadHolds'
<1> SUFFICES ASSUME TypeOK, ReadHolds, [Next]_vars PROVE ReadHolds'
  OBVIOUS
<1> USE DEF TypeOK, Current, row, history, ReadHolds, Labels, Entry, Idle, Done
<1>1. ASSUME NEW p \in Requests, Update(p) PROVE ReadHolds'
  BY <1>1 DEF Update, HasRead
<1>2. ASSUME NEW p \in Requests, RestoreVersion(p) PROVE ReadHolds'
  <2>1. PICK h \in versions :
          proc' = [proc EXCEPT ![p].at = "reread", ![p].target = h.content]
    BY <1>2 DEF RestoreVersion
  <2>2. \A q \in Requests :
          /\ q # p => proc'[q] = proc[q]
          /\ proc'[p].at = "reread"
    BY <2>1
  <2> QED
    BY <1>2, <2>2 DEF RestoreVersion
<1>3. ASSUME NEW p \in Requests, ReadCurrent(p) PROVE ReadHolds'
  BY <1>3 DEF ReadCurrent, HasRead
<1>4. ASSUME NEW p \in Requests, SaveVersion(p) PROVE ReadHolds'
  <2>1. CASE proc[p].label \in Labels
    BY <1>4, <2>1 DEF SaveVersion, Ends
  <2>2. CASE proc[p].label \notin Labels
    <3>1. /\ versions' = versions \union {Entry(proc[p].label, proc[p].content)}
          /\ proc' = [proc EXCEPT ![p].at = "write"]
          /\ UNCHANGED <<version, content, gone, passed>> /\ ~gone /\ proc[p].at = "save"
      BY <1>4, <2>2 DEF SaveVersion
    <3>2. Labels' = Labels \union {proc[p].label}
      <4>1. versions' = versions \union {Entry(proc[p].label, proc[p].content)}
        BY <3>1
      <4> HIDE DEF TypeOK, ReadHolds, Entry
      <4> QED
        BY <4>1, LabelsGrow
    <3>3. \A q \in Requests : proc[q].at = "write" => proc[q].label # proc[p].label
      BY <2>2, <3>1
    <3>4. \A q \in Requests : q # p => proc'[q] = proc[q]
      BY <3>1
    <3>5. /\ proc'[p].at = "write" /\ proc'[p].label = proc[p].label
          /\ proc'[p].version = proc[p].version /\ proc'[p].content = proc[p].content
      BY <3>1
    <3>6. p \notin passed => Current(p)
      BY <2>2, <3>1
    <3>7. proc[p].label \in {proc[p].version, proc[p].version + 1}
      BY <3>1
    <3> HIDE DEF Labels, TypeOK, Entry
    <3> QED
      BY <3>1, <3>2, <3>3, <3>4, <3>5, <3>6, <3>7
  <2> QED
    BY <2>1, <2>2
<1>5. ASSUME NEW p \in Requests, WriteTemplate(p) PROVE ReadHolds'
  <2>1. /\ ~gone /\ ~gone' /\ versions' = versions /\ proc[p].at = "write"
        /\ proc' = [proc EXCEPT ![p] = Done]
    BY <1>5 DEF WriteTemplate, WritesRow, Ends
  <2>2. \A q \in Requests : q # p => proc'[q] = proc[q]
    BY <2>1
  <2>3. proc'[p].at = "done"
    BY <2>1
  <2>4. ASSUME NEW q \in Requests, q # p, q \notin passed',
               proc[q].at \in {"save", "write"}
        PROVE  proc[q].at = "save" /\ proc[q].label \in Labels
    <3>1. q \in Readers(p)
      BY <2>4 DEF Readers
    <3>2. p \notin passed /\ q \notin passed /\ ~Restoring(p) /\ ~Restoring(q)
      BY <1>5, <2>4, <3>1 DEF WriteTemplate, Passes
    <3>3. proc[p].label = proc[p].version /\ proc[q].label = proc[q].version
      <4>1. ~(proc[p].label > proc[p].version) /\ ~(proc[q].label > proc[q].version)
        BY <2>1, <2>4, <3>2 DEF Restoring, Active
      <4>2. /\ proc[p].label \in {proc[p].version, proc[p].version + 1}
            /\ proc[q].label \in {proc[q].version, proc[q].version + 1}
        BY <2>1, <2>4
      <4>3. proc[p].version \in Nat /\ proc[q].version \in Nat
        OBVIOUS
      <4> QED
        BY <4>1, <4>2, <4>3
    <3>4. proc[p].version = version /\ proc[p].label \in Labels
      BY <2>1, <3>2
    <3>5. proc[q].label \in Labels
      BY <2>1, <2>4, <3>2, <3>3, <3>4
    <3>6. proc[q].at # "write"
      BY <2>1, <2>4, <3>2, <3>3, <3>4
    <3> QED
      BY <2>4, <3>5, <3>6
  <2>5. Labels' = Labels
    BY <2>1
  <2> QED
    BY <2>1, <2>2, <2>3, <2>4, <2>5
<1>6. ASSUME NEW p \in Requests, UpdateTemplate(p) PROVE ReadHolds'
  BY <1>6 DEF UpdateTemplate, WritesRow, Ends, Readers
<1>7. ASSUME NEW p \in Requests, Remove(p) PROVE ReadHolds'
  BY <1>7 DEF Remove, Ends
<1>8. ASSUME NEW p \in Requests, TemplateGone(p) PROVE ReadHolds'
  BY <1>8 DEF TemplateGone, Ends
<1>9. ASSUME NEW p \in Requests, CallFails(p) PROVE ReadHolds'
  BY <1>9 DEF CallFails, Ends
<1>10. CASE UNCHANGED vars
  BY <1>10 DEF vars, row, history
<1> QED
  BY <1>1, <1>2, <1>3, <1>4, <1>5, <1>6, <1>7, <1>8, <1>9, <1>10 DEF Next

\* The inductive invariant of TemplateVersions.
THEOREM InductiveInvariant == Spec => []IInv
<1>1. Init => IInv
  <2> SUFFICES ASSUME Init PROVE IInv
    OBVIOUS
  <2>1. TypeOK
    <3>1. proc \in [Requests -> [at : {"idle", "reread", "save", "write", "done"},
                                 version : Nat, content : Contents,
                                 label : Nat, target : Contents]]
      BY DEF Init, Contents, Idle
    <3>2. had \subseteq [version : Nat, content : Contents]
      BY DEF Init, Contents, Entry
    <3>3. version \in Nat /\ content \in Contents /\ faults \in 0 .. MaxFaults
      BY DEF Init, Contents
    <3>4. versions = {} /\ unsaved = {} /\ ~gone /\ ~restored /\ ~crossed
      BY DEF Init
    <3>5. gone \in BOOLEAN /\ restored \in BOOLEAN /\ crossed \in BOOLEAN
          /\ passed \subseteq Requests
      BY DEF Init
    <3> QED
      BY <3>1, <3>2, <3>3, <3>4, <3>5 DEF TypeOK
  <2>2. RestoreAlone /\ FreshOrRefused /\ WriterAlone
    BY DEF Init, RestoreAlone, FreshOrRefused, WriterAlone, Restoring, Active, Idle
  <2>3. NothingLost
    BY DEF Init, NothingLost, Entry
  <2>4. TakenByWriter
    BY DEF Init, TakenByWriter, Labels, Active, Idle
  <2>5. ReadHolds
    BY DEF Init, ReadHolds, Idle
  <2> QED
    BY <2>1, <2>2, <2>3, <2>4, <2>5 DEF IInv
<1>2. IInv /\ [Next]_vars => IInv'
  BY TypeStep, RestoreAloneStep, FreshOrRefusedStep, WriterAloneStep,
     NothingLostStep, TakenByWriterStep, ReadHoldsStep DEF IInv
<1> QED
  BY <1>1, <1>2, PTL DEF Spec

\* The variables keep their types, and the history its unique index.
THEOREM TypeCorrect == Spec => []TypeOK
<1>1. IInv => TypeOK
  BY DEF IInv
<1> QED
  BY <1>1, InductiveInvariant, PTL

\* No number of overlapping updates loses a content.
THEOREM ContentsKept == Spec => []NothingLost
<1>1. IInv => NothingLost
  BY DEF IInv
<1> QED
  BY <1>1, InductiveInvariant, PTL

\* A template is blocked only after a restore, a failure or a crossing.
THEOREM BlockedForAReason == Spec => []StuckHasCause
<1>1. IInv => StuckHasCause
  BY DEF IInv, TypeOK, TakenByWriter, StuckHasCause, Calm, Active
<1> QED
  BY <1>1, InductiveInvariant, PTL

\* A request that overwrites what it did not read, or lowers the version, was
\* passed since its read by updateTemplate or across a restore.
THEOREM LateWritesHaveACause == Spec => LateWriteHasCause
<1> DEFINE Timely(p) == version = proc[p].version /\ content = proc[p].content
<1>1. ASSUME IInv, NEW p \in Requests, WriteTemplate(p), p \notin passed PROVE Timely(p)
  BY <1>1 DEF IInv, ReadHolds, Current, WriteTemplate
<1>2. ASSUME IInv, Next, version' < version
      PROVE  \E p \in passed : WriteTemplate(p)
  <2>1. version \in Nat
    BY <1>2 DEF IInv, TypeOK
  <2>2. ASSUME NEW p \in Requests, UpdateTemplate(p) PROVE FALSE
    BY <1>2, <2>1, <2>2 DEF UpdateTemplate, WritesRow
  <2>3. ASSUME NEW p \in Requests,
               \/ Update(p) \/ RestoreVersion(p) \/ ReadCurrent(p) \/ SaveVersion(p)
               \/ Remove(p) \/ TemplateGone(p) \/ CallFails(p)
        PROVE  FALSE
    <3>1. version' = version
      BY <2>3 DEF Update, RestoreVersion, ReadCurrent, SaveVersion, Remove,
                  TemplateGone, CallFails, row
    <3> QED
      BY <1>2, <2>1, <3>1
  <2>4. ASSUME NEW p \in Requests, WriteTemplate(p), p \notin passed PROVE FALSE
    <3>1. version' = version + 1
      BY <1>1, <1>2, <2>4 DEF WriteTemplate, WritesRow
    <3> QED
      BY <1>2, <2>1, <3>1
  <2> QED
    BY <1>2, <2>2, <2>3, <2>4 DEF Next
<1>3. IInv /\ [Next]_vars =>
        [/\ \A p \in Requests : WriteTemplate(p) /\ p \notin passed
                                => version = proc[p].version /\ content = proc[p].content
         /\ version' < version => \E p \in passed : WriteTemplate(p)]_vars
  BY <1>1, <1>2
<1> QED
  BY <1>3, InductiveInvariant, PTL DEF LateWriteHasCause, Spec
=============================================================================
