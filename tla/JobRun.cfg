CONSTANTS
  Requests <- MCRequests
  IntBits = 8
  LongBits = 12
  SeedBits = 3
  MaxN = 4
  MaxRefs = 2
  MaxSide = 8192
  StepLimit = 64
SPECIFICATION Spec
INVARIANTS
  AdmittedFits
  AdmittedAsAsked
  BodyIsWhole
  EnvIsOwn
  FilesFollowJob
