CONSTANTS
  Modems = {"PPP"}
  InfiniteRetry = TRUE
  MaxRedial = 1
  MaxCount = 3
  MaxMail = 2
  MaxRequests = 2
  Requests = {"mode"}
  Crashes = FALSE
SPECIFICATION Spec
PROPERTY WatchdogSparesConnection
CHECK_DEADLOCK FALSE
