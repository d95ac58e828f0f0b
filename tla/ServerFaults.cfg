CONSTANTS
  Conn = {c1, c2}
  NoConn = none
  Cap = 1
  Kinds = {"probe", "generation", "edit"}
  Faults = {"stall", "leave", "second_signal", "poll_error", "accept_error", "no_thread"}
SPECIFICATION Spec
SYMMETRY Symmetry
INVARIANTS WorkerReachesNothingFreed ReplyFitsJob NothingLeftBehind
PROPERTIES OutcomeIsFrozen
