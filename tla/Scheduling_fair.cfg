\* Two processes that compete for the leadership; four provinces in rotation;
\* and one leader's product job and source job, which keep their locks, crash
\* and fail at times.
SPECIFICATION SchedulingSpec
CONSTANTS
  Schedulers = {"p1", "p2"}
  MaxMishaps = 2
  Provinces = 4
  AreasPerRun = 2
  PlacesPerRun = 2
  Quota = 2
  MaxLosses = 1
  f1 = f1  f2 = f2  s1 = s1  s2 = s2  i1 = i1  i2 = i2
  w1 = w1  c1 = c1  None = None
  Families = {f1, f2}
  Sources = {s1, s2}
  Parts = {i1, i2}
  Workers = {w1}
  Collectors = {c1}
  Fragile = {}
  MaxFact = 1
  MaxFaults = 3
  FamiliesOf <- SharedFamiliesOf
INVARIANT SchedulingTypeOK
PROPERTIES LeaderComesBack AllAreAsked DirtyBecomesClean
