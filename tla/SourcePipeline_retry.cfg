\* One process, one error after a fetch without data.
SPECIFICATION FairSpec
CONSTANTS
  p1 = p1  p2 = p2  i1 = i1  i2 = i2  None = None
  Procs = {p1}
  Fragile = {}
  Items = {i1}
  Bad = {}
  National = FALSE
  MaxBucket = 2
  MaxFaults = 1
PROPERTIES RetryIsBounded
