SPECIFICATION Spec
CONSTANTS
  r1 = r1
  r2 = r2
  r3 = r3
  r4 = r4
  r5 = r5
  First = First
  Requests <- FiveRequests
  MaxFaults = 2
SYMMETRY RequestsAlike
INVARIANTS TypeOK NothingLost StuckHasCause
PROPERTY LateWriteHasCause
CHECK_DEADLOCK FALSE
