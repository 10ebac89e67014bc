CONSTANTS
  Edges = {e1, e2, e3}
  Bad = Bad
  BufCap = 1
  MaxBatch = 2
  MaxEpoch = 3
  MaxCrash = 2
  Ring = FALSE
  KillInCreate = TRUE
SPECIFICATION Spec
INVARIANT CommittedSurvives
