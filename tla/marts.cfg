SPECIFICATION Spec
CONSTANTS
  Variants = {1, 2}
  SizeOf <- TwoSizes
  SymbolOf <- OneSymbol
  ClassOf <- OneClass
  Measures <- FourMeasures
  Top = 1
  Null = Null
INVARIANTS TypeOK RatesAreShares UnscoredIsNotADeath IndexKeepsTheBest
PROPERTY SwitchKeepsVerdicts
