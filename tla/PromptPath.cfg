CONSTANTS
  Captions <- MCCaptions
  Words <- MCWords
  Aliases <- MCAliases
  Automatic <- MCAutomatic
  Phrases <- MCPhrases
  Geometries <- MCGeometries
  Target <- MCTarget
  Merges <- MCMerges
  MaxRefs = 2
  FixPoint = 20
SPECIFICATION Spec
INVARIANTS
  EncodingIsExact
  ExpansionFits
  RowsAreWhole
  PlacesDistinct
CHECK_DEADLOCK FALSE
