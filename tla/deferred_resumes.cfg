SPECIFICATION FairPassSpec
CONSTANTS
  NPairs = 5
  SourceOf <- FivePairs
  Keyed <- NeedKeys
  AccountOf <- Accounts
  Quota <- FitsOneBroken
  Leftover <- Unspent
  MaxTries = 3
  MaxRetries = 2
  Broken = {2}
  Refusing = {}
  Flaky = FALSE
PROPERTY DeferredResumes
