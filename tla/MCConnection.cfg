CONSTANTS
  Modems = {"PPP", "DHCP", "QMI", "DUAL", "MIPC", "NONE"}
  InfiniteRetry = TRUE
  MaxRedial = 1
  MaxCount = 3
  MaxMail = 1
  MaxRequests = 1
  Requests = {"mode", "redial"}
  Crashes = FALSE
  Families = {"ME909", "PLS8", "EC25", "FM650", "LP41"}
  Dual = TRUE
  CsqRetries = 1
  MaxSignalRetry = 1
  MaxCells = 2
  MaxTroubles = 1
SPECIFICATION ConnectionSpec
INVARIANT CellIsCurrent
PROPERTY UpIsOfThisDial
PROPERTY DeadLinkIsWithdrawn
PROPERTY LostLinkIsSettled
PROPERTY BadSignalIsActedOn
CHECK_DEADLOCK FALSE
