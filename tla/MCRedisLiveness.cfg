SPECIFICATION FairSpec
CONSTANTS
  Parts = {"psync_live", "pause_live", "aof_live", "aof_synced", "takeover", "failure_live", "migration", "sentinel_live",
           "expire_live", "blocking_live"}
  k1 = k1
  k2 = k2
  n1 = n1
  n2 = n2
PROPERTIES
  SettlesInTheEnd
  WaitsEnd
CHECK_DEADLOCK FALSE
