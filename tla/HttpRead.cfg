CONSTANTS
  Requests <- MCRequests
  MaxHead = 4
  HeadChunk = 2
  BodyChunk = 3
  DrainChunk = 2
  MaxBody = 2
SPECIFICATION FairSpec
INVARIANTS
  RequestIsWhatWasSent
  RefusedForCause
  DrainTakesAll
PROPERTIES
  ReadEnds
