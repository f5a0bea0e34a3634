\* One process that crashes, fails and loses its lock at times.
SPECIFICATION FairSpec
CONSTANTS
  p1 = p1  p2 = p2  i1 = i1  i2 = i2  None = None
  Procs = {p1}
  Fragile = {p1}
  Items = {i1, i2}
  Bad = {i2}
  National = FALSE
  MaxBucket = 2
  MaxFaults = 2
INVARIANTS NothingStranded FailedStageEligible
PROPERTIES RawsProcessed
