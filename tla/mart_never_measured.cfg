SPECIFICATION Spec
CONSTANTS
  Variants = {1}
  SizeOf <- TwoSizes
  SymbolOf <- OneSymbol
  ClassOf <- OneClass
  Measures <- FourMeasures
  Top = 1
  Null = Null
INVARIANT NeverMeasuredIsNotFailed
