----------------------------- MODULE MCQueueLock -----------------------------
(* Instances of QueueLock for TLC.                                          *)
EXTENDS QueueLock

CONSTANTS a, b, a1, a2, b1

\* Two runs of instance a may overlap, b adds a competitor.
TwoInstances == {a, b}
ThreeRuns == {a1, a2, b1}
TwoRuns == {a1, b1}
TwoRunsAt == [r \in TwoRuns |-> IF r = b1 THEN b ELSE a]
ThreeRunsAt == [r \in ThreeRuns |-> IF r = b1 THEN b ELSE a]
=============================================================================
