SPECIFICATION BusSpec
CONSTANTS
  Modems = {"DHCP", "DUAL"}
  InfiniteRetry = TRUE
  MaxRedial = 0
  MaxCount = 3
  MaxMail = 1
  MaxRequests = 0
  Requests = {}
  Crashes = TRUE
  MaxChan = 2
  MaxRestarts = 1
INVARIANT ReplicaAgrees
INVARIANT RestartWithdraws
CHECK_DEADLOCK FALSE
