SPECIFICATION Spec
CONSTANTS
  NPairs = 3
  SourceOf <- ThreePairs
  Keyed <- NeedKeys
  AccountOf <- Accounts
  Quota <- UsedUp
  Leftover <- NothingLeft
  MaxTries = 1
  MaxRetries = 0
  Broken = {2}
  Refusing = {}
  Flaky = FALSE
  NSymbols = 2
  SymbolOf <- TheirSymbols
  StaleAfter = 1
  Faults = {}
  LastDay = 1
PROPERTY NothingNewNothingPublished
CHECK_DEADLOCK FALSE
