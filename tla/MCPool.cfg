SPECIFICATION PoolSpec
CONSTANTS
  p1 = p1 p2 = p2 p3 = p3
  Proc = {p1, p2, p3}
  Alias = {"a", "b"}
  Configs <- MCConfigs
  Jobs <- MCJobs
  LOCK_RETRY_MS = 1
  LOCK_STALE_MS = 1
  MaxTime = 2
  MaxCrashes = 1
  Torn = Torn
  None = None
INVARIANTS LeasesHold
PROPERTIES CallsAnswered
CHECK_DEADLOCK FALSE
