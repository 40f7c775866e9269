SPECIFICATION FairSpec
CONSTANTS
  Workers = {w1, w2}
  NPairs = 2
  BackfillStart = 0
  PageSpan <- TwoDayPages
  MaxTries = 2
  MaxRetries = 1
  Kinds = {"task", "main"}
  Faults = {"http", "refusal", "statement", "key"}
  LastDay = 1
  MaxJobs = 1
INVARIANT EveryAttemptAudited
PROPERTY JobsEnd
CHECK_DEADLOCK FALSE
