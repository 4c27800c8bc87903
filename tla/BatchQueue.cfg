SPECIFICATION FairSpec
CONSTANTS
  w1 = w1
  w2 = w2
  r1 = r1
  r2 = r2
  r3 = r3
  Recipients <- ThreeRecipients
  Leavers <- OneLeaver
  Workers <- OneWorker
  Calls <- ThreeIds
  BatchLimit = 2
  BATCH_SIZE = 1
  MAX_RETRIES = 1
  MaxDepth = 2
  MaxFaults = 2
INVARIANTS TypeOK NoRecipientLost AtMostOneMailPerDelivery StopsAfterOneBatch
PROPERTY CampaignCompletes
