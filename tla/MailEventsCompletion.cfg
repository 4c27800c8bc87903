SPECIFICATION Spec
CONSTANTS
  r1 = r1
  r2 = r2
  h1 = h1
  h2 = h2
  k1 = k1
  Recipients <- TwoRecipients
  Batched <- Nobody
  Handlers <- OneHandler
  Hooks <- OneHook
  MAX_RETRIES = 2
  MaxReports = 0
  MaxMishaps = 0
INVARIANT CompletedMeansAllProcessed
CHECK_DEADLOCK FALSE
