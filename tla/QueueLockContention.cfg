SPECIFICATION Spec
CONSTANTS
  a = a
  b = b
  a1 = a1
  a2 = a2
  b1 = b1
  NoRun = NoRun
  Gone = Gone
  Instances <- TwoInstances
  Runs <- TwoRuns
  At <- TwoRunsAt
  MaxFaults = 0
INVARIANT OneProcessorPerLease
