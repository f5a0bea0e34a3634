\* A new leader beside a former one that is still at work, and a source whose
\* scores are relative to the national cohort.  Either process may crash or
\* fail once, and each keeps its locks while it is at work.
SPECIFICATION Spec
CONSTANTS
  p1 = p1  p2 = p2  i1 = i1  i2 = i2  None = None
  Procs = {p1, p2}
  Fragile = {}
  Items = {i1, i2}
  Bad = {}
  National = TRUE
  MaxBucket = 2
  MaxFaults = 1
SYMMETRY Symmetry
INVARIANTS TypeOK CompletedIsShown
