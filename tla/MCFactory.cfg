CONSTANTS
  Modems = {"DHCP6", "QMI"}
  InfiniteRetry = FALSE
  MaxRedial = 0
  MaxCount = 2
  MaxMail = 1
  MaxRequests = 1
  Requests = {"suspend", "hup", "dual", "alarm"}
  Crashes = FALSE
  MaxCommands = 2
SPECIFICATION FactSpec
INVARIANT StopIsObeyed
INVARIANT SuspendIsQuiet
PROPERTY AutoTestTriesBothSims
CHECK_DEADLOCK FALSE
