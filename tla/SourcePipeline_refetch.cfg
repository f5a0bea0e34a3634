\* One process whose refetch fails.
SPECIFICATION Spec
CONSTANTS
  p1 = p1  p2 = p2  i1 = i1  i2 = i2  None = None
  Procs = {p1}
  Fragile = {}
  Items = {i1, i2}
  Bad = {}
  National = FALSE
  MaxBucket = 2
  MaxFaults = 2
INVARIANTS FailedRawsResumable
