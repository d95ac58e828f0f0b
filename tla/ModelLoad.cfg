CONSTANTS
  Windows = 9
  Slots = 4
  Cap = 2
  Files <- MCFiles
  N = 4
  Layouts <- MCLayouts
  Align = 2
  MaxShards = 2
SPECIFICATION LoadSpec
INVARIANTS
  SlotIntact
  ReadyIsComplete
  NothingLeaks
  HeaderIsRead
  ShardsStayIntact
  ShardsAreInPlace
PROPERTIES
  ImplementsIngest
  ShardsImplementIngest
  EveryLoadEnds
