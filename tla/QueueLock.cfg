SPECIFICATION FairSpec
CONSTANTS
  a = a
  b = b
  a1 = a1
  a2 = a2
  b1 = b1
  NoRun = NoRun
  Gone = Gone
  Instances <- TwoInstances
  Runs <- ThreeRuns
  At <- ThreeRunsAt
  MaxFaults = 2
INVARIANTS TypeOK ExclusionUnlessRobbed FlagGuards
PROPERTIES NoSelfRobbery CleanRunsDeleteTheirOwn InstanceTries QueuePolled
