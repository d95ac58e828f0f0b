CONSTANTS
  Conn = {c1, c2}
  NoConn = none
  Cap = 1
  Kinds = {"generation"}
  Faults = {"leave"}
SPECIFICATION FairSpec
PROPERTIES StopEndsProcess RequestsEnd
