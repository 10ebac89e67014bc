CONSTANTS
  SlotCount = 3
  Threads = {t1, t2}
  TagMod = 5
  MaxBatch = 2
  Writers = {w1, w2}
  Readers = {r}
  Words = {a, b}
  MaxRetries = 1
  MaxWrites = 2
  MaxPanics = 1
  Shards = {1, 2}
  MaxInflight = 2
  NodeCounts = {1, 3, 5}
  MaxReread = 1
  MaxGathers = 2
  Callers = {c1, c2}
  NumShards = 2
  MaxSendWr = 2
  QueueDepth = 1
  JobSizes = {3}
  MaxJobs = 2
  RowCounts = {2, 5}
  SendDepth = 4
  Rereads = 1
  Gathers = 2
  Frames = {f1, f2}
  RingSize = 1
  IndexMod = 2
  RxBatch = 1
  FillBatch = 2
  ChannelCap = 1
  MaxBad = 1
  TreeVertices = {1, 2}
  Destinations <- MCDestinations
  SortedBatches <- MCBatches
  ChunkCap = 2
  MaxDepth = 10
  Tag = 100
  Ranges = 2
  FailAt = {10}
  TreeWindow = 1
  MaxEvents = 1
SPECIFICATION MCSpec
INVARIANTS
  OnePlace AcceptedIsOneWrite StagingIsQuiet SnapshotsApart WindowsKeepOrder FramesConserved TreesAreTheirEdges RetireLogExact DepthBounded
CHECK_DEADLOCK FALSE
