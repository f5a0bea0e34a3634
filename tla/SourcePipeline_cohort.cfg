\* A national source, two collections of the same month.
SPECIFICATION Spec
CONSTANTS
  p1 = p1  p2 = p2  i1 = i1  i2 = i2  None = None
  Procs = {p1}
  Fragile = {}
  Items = {i1, i2}
  Bad = {}
  National = TRUE
  MaxBucket = 2
  MaxFaults = 0
INVARIANTS CohortIsNational
