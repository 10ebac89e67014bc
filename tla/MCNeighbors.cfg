CONSTANTS
  NumNodes = 2
  WordBits = 1
  Layers = {l1, l2}
  l1 = l1
  l2 = l2
  FlushAt = 2
  MaxEdges = 2
  NodeCount = 4
  Offsets <- MCOffsets
  Dst <- MCDst
  Timestamp <- MCTimestamp
  Weight <- MCWeight
  Configs <- MCConfigs
  SeedLists <- MCSeedLists
  SeedTimes = {2, 1000}
  Generations = 4
  MaxCalls = 2
SPECIFICATION MCSpec
INVARIANTS
  StaleIsFlagged
  CommitIsAccounted
  SubgraphIsReal
  EdgesAsAsked
CHECK_DEADLOCK FALSE
