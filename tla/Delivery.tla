------------------------------ MODULE Delivery ------------------------------
(***************************************************************************)
(* What the queue of a campaign promises, without keys, batches, workers   *)
(* or retries: only who was queued is settled, by a mail event or by being *)
(* passed over, and nothing takes him back; a campaign is completed only   *)
(* on a judgement made when everybody queued so far was settled.           *)
(* BatchQueue implements it.                                               *)
(***************************************************************************)
CONSTANT Recipients

VARIABLES
  queued,   \* recipients queued so far
  settled,  \* those with a mail event, or passed over
  judged,   \* somebody has seen that nobody was left, and is about to say so
  completed \* the campaign is COMPLETED

vars == <<queued, settled, judged, completed>>

Init == queued = {} /\ settled = {} /\ judged = FALSE /\ completed = FALSE

Queue(S) == queued' = queued \union S /\ UNCHANGED <<settled, judged, completed>>

Settle(S) ==
  /\ S \subseteq queued
  /\ settled' = settled \union S
  /\ UNCHANGED <<queued, judged, completed>>

\* The judgement may be late when it is acted on: more may be queued by then.
Judge ==
  /\ queued \subseteq settled
  /\ judged' = TRUE
  /\ UNCHANGED <<queued, settled, completed>>

Forget == judged' = FALSE /\ UNCHANGED <<queued, settled, completed>>

Complete ==
  /\ judged
  /\ completed' = TRUE
  /\ judged' \in BOOLEAN
  /\ UNCHANGED <<queued, settled>>

\* The campaign is cancelled, or started once more.
Reopen == completed' = FALSE /\ UNCHANGED <<queued, settled, judged>>

Next ==
  \/ \E S \in SUBSET Recipients : Queue(S) \/ Settle(S)
  \/ Judge \/ Forget \/ Complete \/ Reopen

Spec == Init /\ [][Next]_vars
=============================================================================
