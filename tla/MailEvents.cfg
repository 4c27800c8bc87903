SPECIFICATION Spec
CONSTANTS
  r1 = r1
  r2 = r2
  h1 = h1
  h2 = h2
  k1 = k1
  Recipients <- TwoRecipients
  Batched <- OneBatched
  Handlers <- TwoHandlers
  Hooks <- OneHook
  MAX_RETRIES = 2
  MaxReports = 1
  MaxMishaps = 1
SYMMETRY HandlersAlike
INVARIANTS TypeOK FailureRetried RetriesWithinAllowance EarlyCompletionHasCause FullCountCompletes ReportsKept
CHECK_DEADLOCK FALSE
