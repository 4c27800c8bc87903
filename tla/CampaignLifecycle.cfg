SPECIFICATION FairSpec
CONSTANTS
  u1 = u1
  u2 = u2
  c1 = c1
  w1 = w1
  Users <- TwoUsers
  Crons <- OneCron
  Workers <- OneWorker
  Targets <- AskedFor
  MaxBatches = 2
  MaxFaults = 1
INVARIANTS TypeOK SentAtMeansParked AnnouncedTwiceHasCause StaleCopyHasCause
PROPERTY DueCampaignLeaves
CHECK_DEADLOCK FALSE
