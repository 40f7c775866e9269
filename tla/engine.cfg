SPECIFICATION BacktestSpec
CONSTANTS
  N = 8
  Components <- Registry
  WarmupBars <- Warmups
  Params <- ShortParams
  Scale = 2097152
  NaN = NaN
  TrainBars <- HalfOf
  MinWindowBars = 2
  Inputs <- SomeInputs
INVARIANTS TypeOK HeldIsSignalled RoundTripsAreStays CombinationsOnlyFilter SignalsAreCausal WindowsAreWarm RsiIsALatch
CHECK_DEADLOCK FALSE
