CONSTANTS
  r1 = r1
  r2 = r2
  v1 = v1
  v2 = v2
  h1 = h1
  h2 = h2
  Readers = {}
  Stripes = {0}
  StripeOf <- NoReaders
  Vertices = {v1}
  Handles = {h1, h2}
  NumSlots = 4
  LogCap = 2
  CoalesceSlots = 2
  Kinds = {"path", "edge", "rebuild"}
  MaxChain = 1
  MaxFresh = 2
  MaxPhase = 3
  MaxEpoch = 2
SPECIFICATION Spec
INVARIANTS
  PinnedIntact
  OneOwner
  LatestIsLive
  
