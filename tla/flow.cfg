SPECIFICATION Spec
CONSTANTS
  NPairs = 3
  SourceOf <- ThreePairs
  Keyed <- NeedKeys
  AccountOf <- NoAccounts
  Quota <- NoAccounts
  Leftover <- NothingCounted
  MaxTries = 1
  MaxRetries = 0
  Broken = {}
  Refusing = {"tiingo"}
  Flaky = TRUE
  NSymbols = 2
  SymbolOf <- TheirSymbols
  StaleAfter = 1
  Faults = {"crash", "build", "backtest", "refresh", "slip", "push"}
  LastDay = 2
INVARIANTS FlowInv PublishedIsWhole BreakerHolds OnlyRefusalsDefer
PROPERTIES PublicationNeverRegresses RejectionPublishesNothing PublishedIsFresh SlipShowsOnce ImplementsPublication
CHECK_DEADLOCK FALSE
