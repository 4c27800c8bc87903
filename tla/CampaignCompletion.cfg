SPECIFICATION FairSpec
CONSTANTS
  u1 = u1
  u2 = u2
  c1 = c1
  w1 = w1
  Users <- OneUser
  Crons <- NoCron
  Workers <- OneWorker
  Targets <- AskedFor
  MaxBatches = 1
  MaxFaults = 0
PROPERTY CompletedMeansSent
CHECK_DEADLOCK FALSE
