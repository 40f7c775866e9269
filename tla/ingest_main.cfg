SPECIFICATION Spec
CONSTANTS
  Workers = {w1, w2}
  NPairs = 2
  BackfillStart = 0
  PageSpan <- TwoDayPages
  MaxTries = 1
  MaxRetries = 0
  Kinds = {"task", "main"}
  Faults = {"connection", "statement", "key"}
  LastDay = 2
  MaxJobs = 1
INVARIANT NoLockCycle
PROPERTY ImplementsLayer
CHECK_DEADLOCK FALSE
