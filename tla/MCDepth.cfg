CONSTANTS
  TreeVertices = {1}
  Destinations <- MCDestinations
  SortedBatches <- MCBatches
  ChunkCap = 2
  MaxDepth = 6
  Tag = 100
  Ranges = 1
  FailAt = {9}
  TreeWindow = 2
  MaxEvents = 3
SPECIFICATION CTreeSpec
INVARIANTS
  DepthWithinMax
CHECK_DEADLOCK FALSE
