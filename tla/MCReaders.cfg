SPECIFICATION MCSpec
CONSTANTS
  r1 = r1
  r2 = r2
  r3 = r3
  Readers <- MCReaders
  Stripes = {0, 1}
  StripeOf <- MCStripeOf
  NumPages = 3
  Budget = 2
  PageWeight <- MCPageWeight
  PagedReaders = {r1, r2}
  MaxAccesses = 2
  MaxPagerErrors = 2
  Callers = {c1, c2}
  NumShards = 1
  MaxSendWr = 2
  QueueDepth = 1
  JobSizes = {3}
  MaxJobs = 3
INVARIANTS GracePeriod CheckedIsData ResidencyBounded
PROPERTIES GateKeepsMoving AccessesComplete CallersAnswered
CHECK_DEADLOCK FALSE
