--------------------------- MODULE QueueLockProofs ---------------------------
(* Proofs of the safety properties of QueueLock.                            *)
EXTENDS QueueLock, TLAPS

USE RunsAssumption, FaultsAssumption

\* Every step keeps every variable within its type.
LEMMA TypeStep == TypeOK /\ [Next]_vars => TypeOK'
<1> SUFFICES ASSUME TypeOK, [Next]_vars PROVE TypeOK'
  OBVIOUS
<1> USE DEF TypeOK
<1>1. ASSUME NEW i \in Instances, StartProcessing(i) PROVE TypeOK'
  BY <1>1 DEF StartProcessing
<1>2. ASSUME NEW i \in Instances, StopProcessing(i) PROVE TypeOK'
  BY <1>2 DEF StopProcessing
<1>3. ASSUME NEW i \in Instances, Crash(i) PROVE TypeOK'
  BY <1>3 DEF Crash, Fault
<1>4. ASSUME NEW r \in Runs, ProcessQueue(r) PROVE TypeOK'
  BY <1>4 DEF ProcessQueue, Sends, Fate
<1>5. ASSUME NEW r \in Runs, LockAcquired(r) PROVE TypeOK'
  BY <1>5 DEF LockAcquired, AnswerDue, Answered
<1>6. ASSUME NEW r \in Runs, LockRefused(r) PROVE TypeOK'
  BY <1>6 DEF LockRefused, Finally, AnswerDue, AnsweredAndSends, Fate
<1>7. ASSUME NEW r \in Runs, NEW executed \in BOOLEAN, LockFails(r, executed)
      PROVE TypeOK'
  BY <1>7 DEF LockFails, Fault, Finally, AnswerDue, AnsweredAndSends, Fate
<1>8. ASSUME NEW r \in Runs, CampaignsFound(r) PROVE TypeOK'
  BY <1>8 DEF CampaignsFound
<1>9. ASSUME NEW r \in Runs, NoCampaigns(r) PROVE TypeOK'
  BY <1>9 DEF NoCampaigns, Sends, Fate
<1>10. ASSUME NEW r \in Runs, QueryFails(r) PROVE TypeOK'
  BY <1>10 DEF QueryFails, Fault, Finally, Sends
<1>11. ASSUME NEW r \in Runs, CampaignsProcessed(r) PROVE TypeOK'
  BY <1>11 DEF CampaignsProcessed, Finally, Sends
<1>12. ASSUME NEW r \in Runs, EarlyDeleted(r) PROVE TypeOK'
  BY <1>12
     DEF EarlyDeleted, FatesAfterDelete, Finally, AnswerDue, AnsweredAndSends, Fate
<1>13. ASSUME NEW r \in Runs, NEW executed \in BOOLEAN, EarlyDeleteFails(r, executed)
       PROVE TypeOK'
  BY <1>13 DEF EarlyDeleteFails, FatesAfterDelete, Fault, Finally, AnswerDue,
               AnsweredAndSends, Fate
<1>14. ASSUME NEW r \in Runs, Released(r) PROVE TypeOK'
  BY <1>14 DEF Released, FatesAfterDelete, Returns, AnswerDue, Answered, Fate
<1>15. ASSUME NEW r \in Runs, ReleaseFails(r) PROVE TypeOK'
  BY <1>15 DEF ReleaseFails, Fault, Returns, AnswerDue, Answered
<1>16. CASE LockExpires
  BY <1>16 DEF LockExpires, Fate
<1>17. CASE UNCHANGED vars
  BY <1>17 DEF vars
<1> QED
  BY <1>1, <1>2, <1>3, <1>4, <1>5, <1>6, <1>7, <1>8, <1>9, <1>10, <1>11, <1>12,
     <1>13, <1>14, <1>15, <1>16, <1>17
     DEF Next, RunStep, LockStep, QueryStep, DeleteStep

\* The variables keep their types in every behaviour of processQueue.
THEOREM TypeCorrect == Spec => []TypeOK
<1>1. Init => TypeOK
  BY DEF Init, TypeOK, Fate
<1> QED
  BY <1>1, TypeStep, PTL DEF Spec

\* What befalls a run is recorded when its key goes.
LEMMA CleanOwnerStep == TypeOK /\ CleanOwner /\ [Next]_vars => CleanOwner'
<1> SUFFICES ASSUME TypeOK, CleanOwner, [Next]_vars PROVE CleanOwner'
  OBVIOUS
<1> USE DEF TypeOK, CleanOwner, Inside, Fate
<1>1. ASSUME NEW i \in Instances, StartProcessing(i) PROVE CleanOwner'
  BY <1>1 DEF StartProcessing
<1>2. ASSUME NEW i \in Instances, StopProcessing(i) PROVE CleanOwner'
  BY <1>2 DEF StopProcessing
<1>3. ASSUME NEW i \in Instances, Crash(i) PROVE CleanOwner'
  BY <1>3 DEF Crash
<1>4. ASSUME NEW r \in Runs, ProcessQueue(r) PROVE CleanOwner'
  BY <1>4 DEF ProcessQueue
<1>5. ASSUME NEW r \in Runs, LockAcquired(r) PROVE CleanOwner'
  BY <1>5 DEF LockAcquired
<1>6. ASSUME NEW r \in Runs, LockRefused(r) PROVE CleanOwner'
  BY <1>6 DEF LockRefused, Finally
<1>7. ASSUME NEW r \in Runs, NEW executed \in BOOLEAN, LockFails(r, executed)
      PROVE CleanOwner'
  BY <1>7 DEF LockFails, Finally
<1>8. ASSUME NEW r \in Runs, CampaignsFound(r) PROVE CleanOwner'
  BY <1>8 DEF CampaignsFound
<1>9. ASSUME NEW r \in Runs, NoCampaigns(r) PROVE CleanOwner'
  BY <1>9 DEF NoCampaigns
<1>10. ASSUME NEW r \in Runs, QueryFails(r) PROVE CleanOwner'
  BY <1>10 DEF QueryFails, Finally
<1>11. ASSUME NEW r \in Runs, CampaignsProcessed(r) PROVE CleanOwner'
  BY <1>11 DEF CampaignsProcessed, Finally
<1>12. ASSUME NEW r \in Runs, EarlyDeleted(r) PROVE CleanOwner'
  BY <1>12 DEF EarlyDeleted, FatesAfterDelete, Finally
<1>13. ASSUME NEW r \in Runs, NEW executed \in BOOLEAN, EarlyDeleteFails(r, executed)
       PROVE CleanOwner'
  BY <1>13 DEF EarlyDeleteFails, FatesAfterDelete, Finally
<1>14. ASSUME NEW r \in Runs, Released(r) PROVE CleanOwner'
  BY <1>14 DEF Released, FatesAfterDelete, Returns
<1>15. ASSUME NEW r \in Runs, ReleaseFails(r) PROVE CleanOwner'
  BY <1>15 DEF ReleaseFails, Returns
<1>16. CASE LockExpires
  BY <1>16 DEF LockExpires
<1>17. CASE UNCHANGED vars
  BY <1>17 DEF vars
<1> QED
  BY <1>1, <1>2, <1>3, <1>4, <1>5, <1>6, <1>7, <1>8, <1>9, <1>10, <1>11,
     <1>12, <1>13, <1>14, <1>15, <1>16, <1>17
     DEF Next, RunStep, LockStep, QueryStep, DeleteStep

\* The mark stays as long as the round it stands for.
LEMMA EarlyMarkedStep == TypeOK /\ EarlyMarked /\ [Next]_vars => EarlyMarked'
<1> SUFFICES ASSUME TypeOK, EarlyMarked, [Next]_vars PROVE EarlyMarked'
  OBVIOUS
<1> USE DEF TypeOK, EarlyMarked
<1>1. ASSUME NEW i \in Instances, StartProcessing(i) PROVE EarlyMarked'
  BY <1>1 DEF StartProcessing
<1>2. ASSUME NEW i \in Instances, StopProcessing(i) PROVE EarlyMarked'
  BY <1>2 DEF StopProcessing
<1>3. ASSUME NEW i \in Instances, Crash(i) PROVE EarlyMarked'
  BY <1>3 DEF Crash
<1>4. ASSUME NEW r \in Runs, ProcessQueue(r) PROVE EarlyMarked'
  BY <1>4 DEF ProcessQueue
<1>5. ASSUME NEW r \in Runs, LockAcquired(r) PROVE EarlyMarked'
  BY <1>5 DEF LockAcquired
<1>6. ASSUME NEW r \in Runs, LockRefused(r) PROVE EarlyMarked'
  BY <1>6 DEF LockRefused, Finally
<1>7. ASSUME NEW r \in Runs, NEW executed \in BOOLEAN, LockFails(r, executed)
      PROVE EarlyMarked'
  BY <1>7 DEF LockFails, Finally
<1>8. ASSUME NEW r \in Runs, CampaignsFound(r) PROVE EarlyMarked'
  BY <1>8 DEF CampaignsFound
<1>9. ASSUME NEW r \in Runs, NoCampaigns(r) PROVE EarlyMarked'
  BY <1>9 DEF NoCampaigns
<1>10. ASSUME NEW r \in Runs, QueryFails(r) PROVE EarlyMarked'
  BY <1>10 DEF QueryFails, Finally
<1>11. ASSUME NEW r \in Runs, CampaignsProcessed(r) PROVE EarlyMarked'
  BY <1>11 DEF CampaignsProcessed, Finally
<1>12. ASSUME NEW r \in Runs, EarlyDeleted(r) PROVE EarlyMarked'
  BY <1>12 DEF EarlyDeleted, Finally
<1>13. ASSUME NEW r \in Runs, NEW executed \in BOOLEAN, EarlyDeleteFails(r, executed)
       PROVE EarlyMarked'
  BY <1>13 DEF EarlyDeleteFails, Finally
<1>14. ASSUME NEW r \in Runs, Released(r) PROVE EarlyMarked'
  BY <1>14 DEF Released, Returns
<1>15. ASSUME NEW r \in Runs, ReleaseFails(r) PROVE EarlyMarked'
  BY <1>15 DEF ReleaseFails, Returns
<1>16. CASE LockExpires
  BY <1>16 DEF LockExpires
<1>17. CASE UNCHANGED vars
  BY <1>17 DEF vars
<1> QED
  BY <1>1, <1>2, <1>3, <1>4, <1>5, <1>6, <1>7, <1>8, <1>9, <1>10, <1>11,
     <1>12, <1>13, <1>14, <1>15, <1>16, <1>17
     DEF Next, RunStep, LockStep, QueryStep, DeleteStep

\* The flag goes up and down with the one run it stands for.
LEMMA FlagGuardsStep ==
  TypeOK /\ EarlyMarked /\ FlagGuards /\ [Next]_vars => FlagGuards'
<1> SUFFICES ASSUME TypeOK, EarlyMarked, FlagGuards, [Next]_vars PROVE FlagGuards'
  OBVIOUS
<1> USE DEF TypeOK, EarlyMarked, FlagGuards, Guarded, Working
<1>1. ASSUME NEW i \in Instances, StartProcessing(i) PROVE FlagGuards'
  BY <1>1 DEF StartProcessing
<1>2. ASSUME NEW i \in Instances, StopProcessing(i) PROVE FlagGuards'
  BY <1>2 DEF StopProcessing
<1>3. ASSUME NEW i \in Instances, Crash(i) PROVE FlagGuards'
  <2> SUFFICES ASSUME NEW j \in Instances
               PROVE /\ isProcessing'[j] => Working(j)' # {}
                     /\ ~earlyExit'[j] => /\ \A r, s \in Working(j)' : r = s
                                          /\ Working(j)' # {} => isProcessing'[j]
    OBVIOUS
  <2>1. CASE j = i
    BY <1>3, <2>1 DEF Crash
  <2>2. CASE j # i
    <3>1. /\ isProcessing'[j] = isProcessing[j]
          /\ earlyExit'[j] = earlyExit[j]
      BY <1>3, <2>2 DEF Crash
    <3>2. Working(j)' = Working(j)
      BY <1>3, <2>2 DEF Crash
    <3> QED
      BY <3>1, <3>2
  <2> QED
    BY <2>1, <2>2
<1>4. ASSUME NEW r \in Runs, ProcessQueue(r) PROVE FlagGuards'
  BY <1>4 DEF ProcessQueue
<1>5. ASSUME NEW r \in Runs, LockAcquired(r) PROVE FlagGuards'
  BY <1>5 DEF LockAcquired
<1>6. ASSUME NEW r \in Runs, LockRefused(r) PROVE FlagGuards'
  BY <1>6 DEF LockRefused, Finally
<1>7. ASSUME NEW r \in Runs, NEW executed \in BOOLEAN, LockFails(r, executed)
      PROVE FlagGuards'
  BY <1>7 DEF LockFails, Finally
<1>8. ASSUME NEW r \in Runs, CampaignsFound(r) PROVE FlagGuards'
  BY <1>8 DEF CampaignsFound
<1>9. ASSUME NEW r \in Runs, NoCampaigns(r) PROVE FlagGuards'
  BY <1>9 DEF NoCampaigns
<1>10. ASSUME NEW r \in Runs, QueryFails(r) PROVE FlagGuards'
  BY <1>10 DEF QueryFails, Finally
<1>11. ASSUME NEW r \in Runs, CampaignsProcessed(r) PROVE FlagGuards'
  BY <1>11 DEF CampaignsProcessed, Finally
<1>12. ASSUME NEW r \in Runs, EarlyDeleted(r) PROVE FlagGuards'
  BY <1>12 DEF EarlyDeleted, Finally
<1>13. ASSUME NEW r \in Runs, NEW executed \in BOOLEAN, EarlyDeleteFails(r, executed)
       PROVE FlagGuards'
  BY <1>13 DEF EarlyDeleteFails, Finally
<1>14. ASSUME NEW r \in Runs, Released(r) PROVE FlagGuards'
  BY <1>14 DEF Released, Returns
<1>15. ASSUME NEW r \in Runs, ReleaseFails(r) PROVE FlagGuards'
  BY <1>15 DEF ReleaseFails, Returns
<1>16. CASE LockExpires
  BY <1>16 DEF LockExpires
<1>17. CASE UNCHANGED vars
  BY <1>17 DEF vars
<1> QED
  BY <1>1, <1>2, <1>3, <1>4, <1>5, <1>6, <1>7, <1>8, <1>9, <1>10, <1>11,
     <1>12, <1>13, <1>14, <1>15, <1>16, <1>17
     DEF Next, RunStep, LockStep, QueryStep, DeleteStep

\* How the first-come queue of a connection is indexed.
LEMMA SendIndex ==
  ASSUME NEW q \in Seq(Runs), NEW r \in Runs
  PROVE  /\ Len(Append(q, r)) = Len(q) + 1
         /\ \A k \in 1 .. Len(q) : Append(q, r)[k] = q[k]
         /\ Append(q, r)[Len(q) + 1] = r
  OBVIOUS

\* The first is answered: the others move up.
LEMMA AnswerIndex ==
  ASSUME NEW q \in Seq(Runs), q # <<>>
  PROVE  /\ Tail(q) \in Seq(Runs)
         /\ Len(q) \in Nat \ {0}
         /\ Head(q) = q[1]
         /\ Len(Tail(q)) = Len(q) - 1
         /\ \A k \in 1 .. Len(Tail(q)) : Tail(q)[k] = q[k + 1]
  OBVIOUS

\* The first is answered and goes to the end of the queue.
LEMMA AnswerSendIndex ==
  ASSUME NEW q \in Seq(Runs), NEW r \in Runs, q # <<>>
  PROVE  /\ Len(Append(Tail(q), r)) = Len(q)
         /\ \A k \in 1 .. Len(q) - 1 : Append(Tail(q), r)[k] = q[k + 1]
         /\ Append(Tail(q), r)[Len(q)] = r
<1>1. /\ Tail(q) \in Seq(Runs) /\ Len(Tail(q)) = Len(q) - 1 /\ Len(q) \in Nat \ {0}
      /\ \A k \in 1 .. Len(Tail(q)) : Tail(q)[k] = q[k + 1]
  BY AnswerIndex
<1> DEFINE t == Tail(q)
<1>2. /\ Len(Append(t, r)) = Len(t) + 1
      /\ \A k \in 1 .. Len(t) : Append(t, r)[k] = t[k]
      /\ Append(t, r)[Len(t) + 1] = r
  BY <1>1, SendIndex
<1> QED
  BY <1>1, <1>2


\* A run that awaits no answer sends a command.
LEMMA SendKeepsInFlight ==
  ASSUME TypeOK, InFlight, NEW r \in Runs, pc[r] \notin {"lock", "early", "release"},
         NEW p \in {"lock", "early", "release"}, pc' = [pc EXCEPT ![r] = p],
         Sends(r)
  PROVE  InFlight'
<1> USE DEF TypeOK, InFlight
<1> SUFFICES ASSUME NEW j \in Instances,
                    NEW k \in 1 .. Len(conn'[j]), NEW l \in 1 .. Len(conn'[j])
             PROVE  /\ At[conn'[j][k]] = j
                    /\ pc'[conn'[j][k]] \in {"lock", "early", "release"}
                    /\ conn'[j][k] = conn'[j][l] => k = l
  OBVIOUS
<1> DEFINE q == conn[j]
<1>1. CASE j # At[r]
  <2>1. conn'[j] = q
    BY <1>1 DEF Sends
  <2>2. q \in Seq(Runs) /\ q[k] \in Runs /\ q[k] # r
    BY <1>1, <2>1
  <2> QED
    BY <2>1, <2>2
<1>2. CASE j = At[r]
  <2>1. conn'[j] = Append(q, r) /\ q \in Seq(Runs)
    BY <1>2 DEF Sends
  <2>2. /\ Len(conn'[j]) = Len(q) + 1 /\ Len(q) \in Nat
        /\ \A m \in 1 .. Len(q) : conn'[j][m] = q[m]
        /\ conn'[j][Len(q) + 1] = r
    BY <2>1, SendIndex
  <2>3. \A m \in 1 .. Len(q) : q[m] \in Runs /\ q[m] # r /\ At[q[m]] = j
    BY <2>1
  <2> HIDE DEF q
  <2>4. k \in 1 .. Len(q) \/ k = Len(q) + 1
    BY <2>2
  <2>5. l \in 1 .. Len(q) \/ l = Len(q) + 1
    BY <2>2
  <2>6. At[conn'[j][k]] = j /\ pc'[conn'[j][k]] \in {"lock", "early", "release"}
    <3>1. CASE k \in 1 .. Len(q)
      <4>1. pc[q[k]] \in {"lock", "early", "release"}
        BY <3>1 DEF q
      <4>2. conn'[j][k] = q[k] /\ q[k] # r /\ q[k] \in Runs /\ At[q[k]] = j
        BY <2>2, <2>3, <3>1
      <4> QED
        BY <4>1, <4>2
    <3>2. CASE k = Len(q) + 1
      BY <1>2, <2>2, <3>2
    <3> QED
      BY <2>4, <3>1, <3>2
  <2>7. conn'[j][k] = conn'[j][l] => k = l
    <3>1. q[k] = q[l] /\ k \in 1 .. Len(q) /\ l \in 1 .. Len(q) => k = l
      BY DEF q
    <3> QED
      BY <2>2, <2>3, <2>4, <2>5, <3>1
  <2> QED
    BY <2>6, <2>7
<1> QED
  BY <1>1, <1>2

\* The first of a connection gets its answer.
LEMMA AnswerKeepsInFlight ==
  ASSUME TypeOK, InFlight, NEW r \in Runs, NEW p, pc' = [pc EXCEPT ![r] = p],
         AnswerDue(r),
         Answered(r)
  PROVE  InFlight'
<1> USE DEF TypeOK, InFlight
<1> SUFFICES ASSUME NEW j \in Instances,
                    NEW k \in 1 .. Len(conn'[j]), NEW l \in 1 .. Len(conn'[j])
             PROVE  /\ At[conn'[j][k]] = j
                    /\ pc'[conn'[j][k]] \in {"lock", "early", "release"}
                    /\ conn'[j][k] = conn'[j][l] => k = l
  OBVIOUS
<1> DEFINE q == conn[j]
<1>1. CASE j # At[r]
  <2>1. conn'[j] = q
    BY <1>1 DEF Answered
  <2>2. q \in Seq(Runs) /\ q[k] \in Runs /\ q[k] # r
    BY <1>1, <2>1
  <2> QED
    BY <2>1, <2>2
<1>2. CASE j = At[r]
  <2>1. /\ conn'[j] = Tail(q) /\ q \in Seq(Runs) /\ q # <<>> /\ Head(q) = r
    BY <1>2 DEF Answered, AnswerDue
  <2>2. /\ Len(conn'[j]) = Len(q) - 1 /\ Len(q) \in Nat \ {0} /\ q[1] = r
        /\ \A m \in 1 .. Len(q) - 1 : conn'[j][m] = q[m + 1]
    BY <2>1, AnswerIndex
  <2>3. \A m \in 1 .. Len(q) - 1 : q[m + 1] \in Runs /\ q[m + 1] # r
    <3> TAKE m \in 1 .. Len(q) - 1
    <3>1. m + 1 \in 1 .. Len(q) /\ 1 \in 1 .. Len(q) /\ m + 1 # 1
      BY <2>2
    <3>2. q[m + 1] # q[1]
      BY <3>1
    <3> QED
      BY <2>1, <2>2, <3>1, <3>2
  <2> QED
    BY <2>2, <2>3
<1> QED
  BY <1>1, <1>2

\* The first of a connection gets its answer and sends its next command.
LEMMA AnswerSendKeepsInFlight ==
  ASSUME TypeOK, InFlight, NEW r \in Runs, NEW p \in {"lock", "early", "release"},
         pc' = [pc EXCEPT ![r] = p],
         AnswerDue(r),
         AnsweredAndSends(r)
  PROVE  InFlight'
<1> USE DEF TypeOK, InFlight
<1> SUFFICES ASSUME NEW j \in Instances,
                    NEW k \in 1 .. Len(conn'[j]), NEW l \in 1 .. Len(conn'[j])
             PROVE  /\ At[conn'[j][k]] = j
                    /\ pc'[conn'[j][k]] \in {"lock", "early", "release"}
                    /\ conn'[j][k] = conn'[j][l] => k = l
  OBVIOUS
<1> DEFINE q == conn[j]
<1>1. CASE j # At[r]
  <2>1. conn'[j] = q
    BY <1>1 DEF AnsweredAndSends
  <2>2. q \in Seq(Runs) /\ q[k] \in Runs /\ q[k] # r
    BY <1>1, <2>1
  <2> QED
    BY <2>1, <2>2
<1>2. CASE j = At[r]
  <2>1. /\ conn'[j] = Append(Tail(q), r) /\ q \in Seq(Runs) /\ q # <<>>
        /\ Head(q) = r
    BY <1>2 DEF AnsweredAndSends, AnswerDue
  <2>2. /\ Len(conn'[j]) = Len(q) /\ Len(q) \in Nat \ {0} /\ q[1] = r
        /\ \A m \in 1 .. Len(q) - 1 : conn'[j][m] = q[m + 1]
        /\ conn'[j][Len(q)] = r
    BY <2>1, AnswerIndex, AnswerSendIndex
  <2>3. \A m \in 1 .. Len(q) - 1 : /\ q[m + 1] \in Runs /\ q[m + 1] # r
                                   /\ At[q[m + 1]] = j
    <3> TAKE m \in 1 .. Len(q) - 1
    <3>1. m + 1 \in 1 .. Len(q) /\ 1 \in 1 .. Len(q) /\ m + 1 # 1
      BY <2>2
    <3>2. q[m + 1] # q[1] /\ At[q[m + 1]] = j
      BY <3>1
    <3> QED
      BY <2>1, <2>2, <3>1, <3>2
  <2>4. k \in 1 .. Len(q) - 1 \/ k = Len(q)
    BY <2>2
  <2>5. l \in 1 .. Len(q) - 1 \/ l = Len(q)
    BY <2>2
  <2>6. At[conn'[j][k]] = j /\ pc'[conn'[j][k]] \in {"lock", "early", "release"}
    <3>1. CASE k \in 1 .. Len(q) - 1
      <4>1. k + 1 \in 1 .. Len(q)
        BY <2>2, <3>1
      <4>2. pc[q[k + 1]] \in {"lock", "early", "release"}
        BY <4>1
      <4> QED
        BY <2>2, <2>3, <3>1, <4>2
    <3>2. CASE k = Len(q)
      BY <1>2, <2>2, <3>2
    <3> QED
      BY <2>4, <3>1, <3>2
  <2>7. conn'[j][k] = conn'[j][l] => k = l
    BY <2>2, <2>3, <2>4, <2>5
  <2> QED
    BY <2>6, <2>7
<1> QED
  BY <1>1, <1>2

\* A step that neither sends nor answers leaves what is on the connections.
LEMMA StutterKeepsInFlight ==
  ASSUME InFlight, UNCHANGED <<conn, pc>>
  PROVE  InFlight'
  BY DEF InFlight

\* A run waits for one answer at a time.
LEMMA InFlightStep == TypeOK /\ InFlight /\ [Next]_vars => InFlight'
<1> SUFFICES ASSUME TypeOK, InFlight, [Next]_vars PROVE InFlight'
  OBVIOUS
<1> USE DEF TypeOK, InFlight
<1>1. ASSUME NEW i \in Instances, StartProcessing(i) PROVE InFlight'
  <2> HIDE DEF InFlight
  <2> QED
    BY <1>1, StutterKeepsInFlight DEF StartProcessing
<1>2. ASSUME NEW i \in Instances, StopProcessing(i) PROVE InFlight'
  <2> HIDE DEF InFlight
  <2> QED
    BY <1>2, StutterKeepsInFlight DEF StopProcessing
<1>3. ASSUME NEW i \in Instances, Crash(i) PROVE InFlight'
  <2> SUFFICES ASSUME NEW j \in Instances,
                      NEW k \in 1 .. Len(conn'[j]), NEW l \in 1 .. Len(conn'[j])
               PROVE  /\ At[conn'[j][k]] = j
                      /\ pc'[conn'[j][k]] \in {"lock", "early", "release"}
                      /\ conn'[j][k] = conn'[j][l] => k = l
    OBVIOUS
  <2>1. j # i /\ conn'[j] = conn[j]
    BY <1>3 DEF Crash
  <2>2. conn[j][k] \in Runs /\ At[conn[j][k]] # i
    BY <2>1
  <2> QED
    BY <1>3, <2>1, <2>2 DEF Crash
<1>4. ASSUME NEW r \in Runs, ProcessQueue(r) PROVE InFlight'
  <2> HIDE DEF InFlight
  <2> QED
    BY <1>4, SendKeepsInFlight DEF ProcessQueue
<1>5. ASSUME NEW r \in Runs, LockAcquired(r) PROVE InFlight'
  <2> HIDE DEF InFlight
  <2> QED
    BY <1>5, AnswerKeepsInFlight DEF LockAcquired
<1>6. ASSUME NEW r \in Runs, LockRefused(r) PROVE InFlight'
  <2> HIDE DEF InFlight
  <2> QED
    BY <1>6, AnswerSendKeepsInFlight DEF LockRefused, Finally
<1>7. ASSUME NEW r \in Runs, NEW executed \in BOOLEAN, LockFails(r, executed)
      PROVE InFlight'
  <2> HIDE DEF InFlight
  <2> QED
    BY <1>7, AnswerSendKeepsInFlight DEF LockFails, Finally
<1>8. ASSUME NEW r \in Runs, CampaignsFound(r) PROVE InFlight'
  BY <1>8 DEF CampaignsFound
<1>9. ASSUME NEW r \in Runs, NoCampaigns(r) PROVE InFlight'
  <2> HIDE DEF InFlight
  <2> QED
    BY <1>9, SendKeepsInFlight DEF NoCampaigns
<1>10. ASSUME NEW r \in Runs, QueryFails(r) PROVE InFlight'
  <2> HIDE DEF InFlight
  <2> QED
    BY <1>10, SendKeepsInFlight DEF QueryFails, Finally
<1>11. ASSUME NEW r \in Runs, CampaignsProcessed(r) PROVE InFlight'
  <2> HIDE DEF InFlight
  <2> QED
    BY <1>11, SendKeepsInFlight DEF CampaignsProcessed, Finally
<1>12. ASSUME NEW r \in Runs, EarlyDeleted(r) PROVE InFlight'
  <2> HIDE DEF InFlight
  <2> QED
    BY <1>12, AnswerSendKeepsInFlight DEF EarlyDeleted, Finally
<1>13. ASSUME NEW r \in Runs, NEW executed \in BOOLEAN, EarlyDeleteFails(r, executed)
       PROVE InFlight'
  <2> HIDE DEF InFlight
  <2> QED
    BY <1>13, AnswerSendKeepsInFlight DEF EarlyDeleteFails, Finally
<1>14. ASSUME NEW r \in Runs, Released(r) PROVE InFlight'
  <2> HIDE DEF InFlight
  <2> QED
    BY <1>14, AnswerKeepsInFlight DEF Released, Returns
<1>15. ASSUME NEW r \in Runs, ReleaseFails(r) PROVE InFlight'
  <2> HIDE DEF InFlight
  <2> QED
    BY <1>15, AnswerKeepsInFlight DEF ReleaseFails, Returns
<1>16. CASE LockExpires
  BY <1>16 DEF LockExpires
<1>17. CASE UNCHANGED vars
  BY <1>17 DEF vars
<1> QED
  BY <1>1, <1>2, <1>3, <1>4, <1>5, <1>6, <1>7, <1>8, <1>9, <1>10, <1>11,
     <1>12, <1>13, <1>14, <1>15, <1>16, <1>17
     DEF Next, RunStep, LockStep, QueryStep, DeleteStep

\* Behind SET NX nothing is sent while the flag is up.
LEMMA LastInLineStep ==
  TypeOK /\ FlagGuards /\ EarlyMarked /\ InFlight /\ LastInLine /\ [Next]_vars => LastInLine'
<1> SUFFICES ASSUME TypeOK, FlagGuards, EarlyMarked, InFlight, LastInLine, [Next]_vars
             PROVE LastInLine'
  OBVIOUS
<1> USE DEF TypeOK, EarlyMarked, FlagGuards, Working, Guarded, Inside, InFlight, LastInLine
<1>1. ASSUME NEW i \in Instances, StartProcessing(i) PROVE LastInLine'
  BY <1>1, SendIndex, AnswerIndex, AnswerSendIndex DEF StartProcessing
<1>2. ASSUME NEW i \in Instances, StopProcessing(i) PROVE LastInLine'
  BY <1>2, SendIndex, AnswerIndex, AnswerSendIndex DEF StopProcessing
<1>3. ASSUME NEW i \in Instances, Crash(i) PROVE LastInLine'
  BY <1>3, SendIndex, AnswerIndex, AnswerSendIndex DEF Crash
<1>4. ASSUME NEW r \in Runs, ProcessQueue(r) PROVE LastInLine'
  BY <1>4, SendIndex, AnswerIndex, AnswerSendIndex DEF ProcessQueue, Sends
<1>5. ASSUME NEW r \in Runs, LockAcquired(r) PROVE LastInLine'
  BY <1>5, SendIndex, AnswerIndex, AnswerSendIndex DEF LockAcquired, AnswerDue, Answered
<1>6. ASSUME NEW r \in Runs, LockRefused(r) PROVE LastInLine'
  BY <1>6, SendIndex, AnswerIndex, AnswerSendIndex
     DEF LockRefused, Finally, AnswerDue, AnsweredAndSends
<1>7. ASSUME NEW r \in Runs, NEW executed \in BOOLEAN, LockFails(r, executed)
      PROVE LastInLine'
  BY <1>7, SendIndex, AnswerIndex, AnswerSendIndex
     DEF LockFails, Finally, AnswerDue, AnsweredAndSends
<1>8. ASSUME NEW r \in Runs, CampaignsFound(r) PROVE LastInLine'
  BY <1>8, SendIndex, AnswerIndex, AnswerSendIndex DEF CampaignsFound
<1>9. ASSUME NEW r \in Runs, NoCampaigns(r) PROVE LastInLine'
  BY <1>9, SendIndex, AnswerIndex, AnswerSendIndex DEF NoCampaigns, Sends
<1>10. ASSUME NEW r \in Runs, QueryFails(r) PROVE LastInLine'
  BY <1>10, SendIndex, AnswerIndex, AnswerSendIndex DEF QueryFails, Finally, Sends
<1>11. ASSUME NEW r \in Runs, CampaignsProcessed(r) PROVE LastInLine'
  BY <1>11, SendIndex, AnswerIndex, AnswerSendIndex
     DEF CampaignsProcessed, Finally, Sends
<1>12. ASSUME NEW r \in Runs, EarlyDeleted(r) PROVE LastInLine'
  BY <1>12, SendIndex, AnswerIndex, AnswerSendIndex
     DEF EarlyDeleted, Finally, AnswerDue, AnsweredAndSends
<1>13. ASSUME NEW r \in Runs, NEW executed \in BOOLEAN, EarlyDeleteFails(r, executed)
       PROVE LastInLine'
  BY <1>13, SendIndex, AnswerIndex, AnswerSendIndex
     DEF EarlyDeleteFails, Finally, AnswerDue, AnsweredAndSends
<1>14. ASSUME NEW r \in Runs, Released(r) PROVE LastInLine'
  BY <1>14, SendIndex, AnswerIndex, AnswerSendIndex
     DEF Released, Returns, AnswerDue, Answered
<1>15. ASSUME NEW r \in Runs, ReleaseFails(r) PROVE LastInLine'
  BY <1>15, SendIndex, AnswerIndex, AnswerSendIndex
     DEF ReleaseFails, Returns, AnswerDue, Answered
<1>16. CASE LockExpires
  BY <1>16, SendIndex, AnswerIndex, AnswerSendIndex DEF LockExpires
<1>17. CASE UNCHANGED vars
  BY <1>17 DEF vars
<1> QED
  BY <1>1, <1>2, <1>3, <1>4, <1>5, <1>6, <1>7, <1>8, <1>9, <1>10, <1>11,
     <1>12, <1>13, <1>14, <1>15, <1>16, <1>17
     DEF Next, RunStep, LockStep, QueryStep, DeleteStep

-----------------------------------------------------------------------------
\* The inductive invariant holds in every behaviour.
THEOREM InductiveInvariant == Spec => []IInv
<1>1. Init => IInv
  <2> SUFFICES ASSUME Init PROVE IInv
    OBVIOUS
  <2>1. TypeOK
    BY DEF Init, TypeOK, Fate
  <2>2. CleanOwner /\ EarlyMarked
    BY DEF Init, CleanOwner, EarlyMarked, Inside
  <2>3. FlagGuards
    BY DEF Init, FlagGuards, Working, Guarded
  <2>4. InFlight /\ LastInLine
    BY DEF Init, InFlight, LastInLine, Inside
  <2> QED
    BY <2>1, <2>2, <2>3, <2>4 DEF IInv
<1>2. IInv /\ [Next]_vars => IInv'
  BY TypeStep, CleanOwnerStep, EarlyMarkedStep, FlagGuardsStep, InFlightStep,
     LastInLineStep DEF IInv
<1> QED
  BY <1>1, <1>2, PTL DEF Spec

\* Two runs past the lock: one of them lost its key to another run or to time.
THEOREM Exclusion == Spec => []ExclusionUnlessRobbed
<1>1. IInv => ExclusionUnlessRobbed
  BY DEF IInv, CleanOwner, ExclusionUnlessRobbed, Inside
<1> QED
  BY <1>1, InductiveInvariant, PTL

\* isProcessing stands for the one run of its instance, idle rounds apart.
THEOREM FlagCorrect == Spec => []FlagGuards
<1>1. IInv => FlagGuards
  BY DEF IInv
<1> QED
  BY <1>1, InductiveInvariant, PTL

\* A run that nothing befell deletes no key but its own.
THEOREM CleanDeletes == Spec => CleanRunsDeleteTheirOwn
<1> DEFINE A == \A r, s \in Runs :
                  /\ r # s /\ lock = s
                  /\ EarlyDeleted(r) \/ Released(r)
                  => fate[r] # "clean"
<1>1. IInv => A
  BY DEF IInv, CleanOwner, Inside, EarlyDeleted, Released
<1>2. IInv /\ [Next]_vars => [A]_vars
  BY <1>1
<1> QED
  BY <1>2, InductiveInvariant, PTL DEF CleanRunsDeleteTheirOwn, Spec

\* Within an instance the order of one connection protects the key, idle
\* rounds apart.
THEOREM OrderProtects == Spec => NoSelfRobbery
<1> DEFINE A == \A r, s \in Runs :
                  /\ r # s /\ At[r] = At[s] /\ lock = s /\ pc[s] \in Inside
                  /\ EarlyDeleted(r) \/ Released(r)
                  => earlyExit[At[r]]
<1>1. IInv => A
  <2> SUFFICES ASSUME IInv, NEW r \in Runs, NEW s \in Runs,
                      At[r] = At[s], pc[s] \in Inside,
                      EarlyDeleted(r) \/ Released(r)
               PROVE  earlyExit[At[r]]
    OBVIOUS
  <2>1. conn[At[r]] # <<>>
    BY DEF EarlyDeleted, Released, AnswerDue
  <2> QED
    BY <2>1 DEF IInv, LastInLine
<1>2. IInv /\ [Next]_vars => [A]_vars
  BY <1>1
<1> QED
  BY <1>2, InductiveInvariant, PTL DEF NoSelfRobbery, Spec
=============================================================================
