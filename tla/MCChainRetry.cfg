CONSTANTS
  r1 = r1
  r2 = r2
  v1 = v1
  v2 = v2
  h1 = h1
  h2 = h2
  Readers = {r1}
  Stripes = {0}
  StripeOf <- OneStripe
  Vertices = {v1}
  Handles = {h1}
  NumSlots = 3
  LogCap = 3
  CoalesceSlots = 2
  Kinds = {"edge", "path"}
  MaxChain = 2
  MaxFresh = 1
  MaxPhase = 2
  MaxEpoch = 1
SPECIFICATION Spec
INVARIANT RetireContract
