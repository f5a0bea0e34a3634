SPECIFICATION AlertSpec
CONSTANTS
  Contents = {"a", "b", "c"}
  Enrichers = {"w"}
  MaxTries = 1
  MaxNumber = 2
INVARIANT OneCurrent
CHECK_DEADLOCK FALSE
