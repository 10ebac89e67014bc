CONSTANTS
  p1 = p1
  c1 = c1
  c2 = c2
  s1 = s1
  s2 = s2
  loader = loader
  Submitters = {p1}
  Consumers = {c1}
  Samplers = {s1}
  Loader = loader
  Modes = {"pool", "features"}
  WorkCap = 1
  SampleCap = 1
  ResultCap = 1
  MaxSubmits = 2
SPECIFICATION Spec
INVARIANT FirstFaultIsCause
