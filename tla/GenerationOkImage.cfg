CONSTANTS
  Grids <- MCGrids
  MaxRefs = 1
  MaxCount = 1
SPECIFICATION Spec
INVARIANT OkMeansImage
