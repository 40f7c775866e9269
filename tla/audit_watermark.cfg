SPECIFICATION Spec
CONSTANTS
  Workers = {w1}
  NPairs = 1
  BackfillStart = 0
  PageSpan <- TwoDayPages
  MaxTries = 1
  MaxRetries = 0
  Kinds = {"task"}
  Faults = {"watermark"}
  LastDay = 1
  MaxJobs = 1
INVARIANT EveryAttemptAudited
CHECK_DEADLOCK FALSE
