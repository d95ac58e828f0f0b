CONSTANTS
  Conn = {c1, c2, c3}
  NoConn = none
  Cap = 2
  Kinds = {"generation"}
  Faults = {}
SPECIFICATION Spec
SYMMETRY Symmetry
INVARIANTS QueueKeepsJobs NoMissedWakeup
PROPERTIES ImplementsService
