SPECIFICATION UpkeepSpec
CONSTANTS
  v1 = v1
  v2 = v2
  Raws = {v1, v2}
  RunOf <- MCRunOf
  FactOf <- MCFactOf
  RowReplay = {}
  Disabled = {}
  Catalog = {"g1"}
  Facts = {"f1"}
  MaxAttempts = 2
  Batch = 1
  MaxCrashes = 1
  MaxSnapshots = 1
  Contents = {"a", "b"}
  Enrichers = {v1, v2}
  MaxTries = 2
  MaxNumber = 2
  Disk = {70, 75, 80}
  Size = {10, 19, 20}
  WarnAt = 70
  SourceAt = 75
  ProductAt = 80
  MaxSize = 20
  Budget = 5
  Day = 6
  Production = TRUE
  Retention = TRUE
  MaxAge = 1
  MinInterval = 2
  RefMin = 3
  RefMax = 4
  KeepFor = 5
  MaxClock = 7
  Ops = 2
  Pages = {1, 3}
  PageLimit = 2
  MaxRequests = 5
  ByteBudget = 4
  MaxSeconds = 1
  MaxRecords = 3
  MaxHops = 2
  OperationsPerRun = 1
  Slots = {0, 1}
  Events = {"e1", "e2"}
  Areas = {"P", "x"}
  ParentOf <- MCParentOf
  Within = {}
  Nowhere = "nowhere"
  AddressOf <- MCAddressOf
  Days = 3
  WindowDays = 2
  ForecastTimes = 2
  ContentIds = {v1, v2}
  Codes = {"c1"}
  Langs = {"ko", "en"}
  Korean = "ko"
  Hub = "hub"
  Related = "related"
  Data = {"a", "b"}
  NameOf <- MCNameOf
  Near <- MCNear
  SameArea = {}
  Nothing = "nothing"
  Times = 2
  Limit = 1
  Parts = {"x", "y"}
  MaxRuns = 3
  SourceTime <- MCSourceTime
  Readers = {v1, v2}
  Payloads = {"small", "middle", "huge", "bad"}
  SizeOf <- MCSizeOf
  Damaged = {"bad"}
  MaxBytes = 5
  MaxEntries = 2
  NoPayload = "none"
  Province = "P"
  Districts = {"x"}
  Calendars = {{4}}
  PageDays = 2
  Ahead = 2
  Reach = 4
  Horizon = 2
  Spans = {0, 2}
  FreshDays = 2
  Interval = 1
  Cap = 1
  RetryLimit = 1
  LastDay = 4
  MaxTrouble = 2
INVARIANTS UpkeepTypeOK AttemptsBounded Traceable CallsBounded CurrentHasText GateFailsClosed
INVARIANTS OmissionsAreTold NewestDatesListed RelationsAreRead TotalsAreOfOneRun AccountIsTrue
INVARIANT SilenceIsExplained
PROPERTIES ResolvedIsMarked NothingGoesBack
SYMMETRY Symmetry
CHECK_DEADLOCK FALSE
