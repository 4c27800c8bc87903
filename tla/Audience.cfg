SPECIFICATION FairSpec
CONSTANTS
  a = a
  b = b
  q1 = q1
  q2 = q2
  q3 = q3
  Old = Old
  Emails <- TwoEmails
  Requests <- TwoRequests
  Jobs <- AllJobs
  Rows <- OneEmail
  InitMembers <- OneEmail
  MaxFaults = 1
INVARIANTS TypeOK CountedMeansSaved UndisturbedImportIsWhole EmptiedGroupHasCause CreationNeverLinks UpdateOutcome
PROPERTIES UnsubscribedStays UpdateLinksAsAsked EveryRequestAnswered
CHECK_DEADLOCK FALSE
