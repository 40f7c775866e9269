SPECIFICATION FilesSpec
CONSTANTS
  Flows = {f1, f2}
  NVariants = 3
  SymbolOf <- TheirSymbols
  Singles = {1, 3}
  Configs <- SecondMayGo
  Keep = 1
  Pasts <- FirstOrLater
  Faults = {"backtest", "crash"}
  MaxJobs = 2
SYMMETRY FlowSymmetry
INVARIANTS FilesInv ExportKeepsCurves CurvesMatchRuns StoreIsBounded ExportIsThisRuns DirectoryIsWhole
PROPERTY NewestIsKept
CHECK_DEADLOCK FALSE
