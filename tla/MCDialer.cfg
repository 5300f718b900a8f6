CONSTANTS
  Modems = {"PPP", "DHCP", "QMI", "DUAL", "MIPC", "NONE"}
  InfiniteRetry = TRUE
  MaxRedial = 1
  MaxCount = 3
  MaxMail = 2
  MaxRequests = 1
  Requests = {"mode", "enable", "ppp", "backup", "stop", "redial", "sim"}
  Crashes = TRUE
SPECIFICATION Spec
INVARIANT TypeOK
INVARIANT QuietBringUp
INVARIANT ProbesOnlyWhileConnected
INVARIANT DialIsWatched
PROPERTY ImplementsLinkService
CHECK_DEADLOCK FALSE
