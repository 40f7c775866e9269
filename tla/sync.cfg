SPECIFICATION Spec
CONSTANTS
  Pairs = {p1}
  BackfillStart = 0
  Syncers = {x1, x2}
  LastDay = 2
  MaxRuns <- FewRuns
SYMMETRY SyncSymmetry
INVARIANTS SyncInvariant CopiesAreSound WatermarkHidesNothing SyncDelivers OnlyRacesFail
CHECK_DEADLOCK FALSE
