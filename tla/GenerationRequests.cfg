CONSTANTS
  Grids <- MCGrids
  MaxRefs = 3
  MaxCount = 2
SPECIFICATION Spec
INVARIANTS FreedOnce NothingStays TowerFits LoopHasItsInputs
