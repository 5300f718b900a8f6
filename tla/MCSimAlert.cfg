CONSTANTS
  Outcomes = {"OK"}
  Usages = {"normal", "alert"}
  Retries = 2
  MaxReset = 4
  MaxSimRetry = 2
  InfiniteRetry = TRUE
  Backtime = FALSE
  Requests = {}
  MaxRequests = 0
SPECIFICATION FairSpec
PROPERTY ReadySimIsDialed
CHECK_DEADLOCK FALSE
