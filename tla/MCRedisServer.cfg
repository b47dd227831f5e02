SPECIFICATION Spec
CONSTANTS
  Parts = {"buffer", "partial", "diskless", "psync", "psync_restart", "pause", "pause_wait", "aof", "aof_errors", "aof_always",
           "aof_answered", "aof_synced", "election_rounds", "takeover", "failure", "migration", "migration_errors", "migration_open",
           "sentinel_vote", "sentinel_switch", "sentinel_commands", "blocking", "blocking_lists", "watch", "watch_keys", "watch_replica"}
  k1 = k1
  k2 = k2
  n1 = n1
  n2 = n2
SYMMETRY Symmetry
INVARIANTS
  ReplicaStream
  OneHistory
  WritesSurvive
  SlotServed
  DecidedTogether
  ClientsServed
PROPERTIES
  NothingTakenBack
CHECK_DEADLOCK FALSE
