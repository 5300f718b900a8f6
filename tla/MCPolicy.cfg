SPECIFICATION PolicySpec
CONSTANTS
  Outcomes = {"OK", "NOMODEM", "NOREG", "NOVALIDIP"}
  Usages = {"normal", "barred"}
  Retries = 1
  MaxReset = 1
  MaxSimRetry = 1
  InfiniteRetry = TRUE
  Backtime = TRUE
  Requests = {"dual", "main", "sdwan", "redial", "signal"}
  MaxRequests = 2
INVARIANT ScannedCardsAreKnown
PROPERTY OtherSimIsTried
PROPERTY SwitchIsMade
CHECK_DEADLOCK FALSE
