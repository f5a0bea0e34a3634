\* Every page is delivered and every stage succeeds: even so a holiday may be
\* denied.
SPECIFICATION CoverageSpec
CONSTANTS
  Province = "P"
  Districts = {"x"}
  Calendars = {{4}}
  PageDays = 2
  Ahead = 2
  Reach = 4
  Horizon = 2
  Spans = {0, 2}
  FreshDays = 2
  Interval = 1
  Cap = 1
  RetryLimit = 1
  LastDay = 4
  MaxTrouble = 0
INVARIANT SilenceIsProven
CHECK_DEADLOCK FALSE
