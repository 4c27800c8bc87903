SPECIFICATION Spec
CONSTANTS
  w1 = w1
  w2 = w2
  r1 = r1
  r2 = r2
  r3 = r3
  Recipients <- TwoRecipients
  Leavers <- OneLeaver
  Workers <- TwoWorkers
  Calls <- TwoIds
  BatchLimit = 2
  BATCH_SIZE = 2
  MAX_RETRIES = 1
  MaxDepth = 1
  MaxFaults = 1
SYMMETRY WorkersAlike
INVARIANTS NoRecipientLost CompletedMeansHandled DuplicatesHaveCause
PROPERTY DeliverySpec
