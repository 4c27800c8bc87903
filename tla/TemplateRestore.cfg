SPECIFICATION Spec
CONSTANTS
  r1 = r1
  r2 = r2
  r3 = r3
  r4 = r4
  r5 = r5
  First = First
  Requests <- TwoRequests
  MaxFaults = 0
INVARIANT HistoryHoldsVersions
CHECK_DEADLOCK FALSE
