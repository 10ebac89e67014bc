CONSTANTS
  e1 = e1
  e2 = e2
  e3 = e3
  bad = bad
  Drivers = {"run", "batches", "spawn", "channel"}
  Edges = {e1, e2, e3, bad}
  BadEdges = {bad}
  Capacity = 1
  Interval = 2
  IdleSpins = 2
  Frames = {f1, f2}
  RingSize = 2
  IndexMod = 4
  RxBatch = 2
  FillBatch = 2
  ChannelCap = 1
  MaxBad = 0
SPECIFICATION MCSpec
INVARIANTS
  CrashWindow
  EndIsAccounted

PROPERTIES
  IngestGoesOn
  LoopGoesOn
CHECK_DEADLOCK FALSE
