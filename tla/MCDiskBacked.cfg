SPECIFICATION MCSpec
CONSTANTS
  Edges = {e1, e2, e3}
  Bad = Bad
  BufCap = 1
  MaxBatch = 2
  MaxEpoch = 3
  MaxCrash = 2
  Ring = TRUE
  KillInCreate = FALSE
  l1 = l1
  l2 = l2
  TierNodes = {a, b, c, d}
  Versions = {1}
  Capacity = 2
  Warm = {a}
  Pinned = {b}
  CacheNodes = {a, b, c}
  Loaders = {l1, l2}
  GpuCapacity = 2
  CpuCapacity = 1
  WarmNodes = {a}
  PinnedNodes = {a}
  ColdRows = {c}
  MaxBatchNodes <- MCMaxBatch
  MaxIoErrors = 1
INVARIANTS CommittedSurvives CommittedOnce PublishedLogged NoFalseMiss
PROPERTIES PoisonedReadOnly TierIsSieveQueue
