\* Two scheduler processes, as after a change of leader, and a source job; all
\* of them may lose their lock connections.  Migrations of a database that holds
\* some objects already, and of three snapshots of two keys; each dies once.
SPECIFICATION RefreshOrSchemaSpec
CONSTANTS
  f1 = f1  s1 = s1  i1 = i1  i2 = i2
  w1 = w1  w2 = w2  c1 = c1  None = None
  Families = {f1}
  Sources = {s1}
  Parts = {i1, i2}
  Workers = {w1, w2}
  Collectors = {c1}
  Fragile = {w1, w2, c1}
  MaxFact = 3
  MaxFaults = 3
  FamiliesOf <- OneFamilyOf
  MaxStops = 1
  SnapshotKeys = {"k1", "k2"}
  LegacyRows = {1, 2, 3}
  FreshRows = {4}
  Contents = {"a", "b"}
  AsOfTimes = {1, 2}
  MaxDeaths = 1
SYMMETRY PartSymmetry
INVARIANTS RefreshAndSchemaTypeOK CompletionIsFresh CleanIsShown
INVARIANTS PreexistingKept CommandsFinish ReadersUndisturbed
PROPERTIES NeverOlder FreshMarkNotDelayed
