CONSTANTS
  Model <- MCModel
  Versions <- MCVersions
  Leftovers <- MCLeftovers
  None = None
  MaxFaults = 3
SPECIFICATION FairScriptSpec
INVARIANT ReadyIsVerified
PROPERTIES
  ModelSurvives
  DownloadCompletes
