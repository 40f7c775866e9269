SPECIFICATION Spec
CONSTANTS
  Workers = {w1, w2}
  NPairs = 1
  BackfillStart = 0
  PageSpan <- OneDayPages
  MaxTries = 2
  MaxRetries = 1
  Kinds = {"task"}
  Faults = {"http", "refusal", "statement", "watermark", "connection", "crash"}
  LastDay = 2
  MaxJobs = 1
INVARIANTS TypeOK IInv
PROPERTY ImplementsLayer
CHECK_DEADLOCK FALSE
