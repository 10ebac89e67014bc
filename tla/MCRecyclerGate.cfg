CONSTANTS
  r1 = r1
  r2 = r2
  v1 = v1
  v2 = v2
  h1 = h1
  h2 = h2
  Readers = {r1, r2}
  Stripes = {0, 1}
  StripeOf <- TwoStripes
  Vertices = {v1}
  Handles = {}
  NumSlots = 3
  LogCap = 1
  CoalesceSlots = 1
  Kinds = {"edge", "rebuild", "path"}
  MaxChain = 2
  MaxFresh = 1
  MaxPhase = 3
  MaxEpoch = 1
SPECIFICATION Spec
INVARIANTS
  ReadersIntact
  RetireContract
PROPERTY GateSpec
