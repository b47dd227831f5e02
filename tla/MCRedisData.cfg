SPECIFICATION Spec
CONSTANTS
  Parts = {"sets", "algebra", "hashes", "hash_keys", "lists", "deep_lists", "plain_lists", "streams", "trims", "blocked", "zsets",
           "zoptions", "zstores", "expire", "failover", "ziplist", "listpack", "intset", "acl_commands", "acl_keys", "acl_users",
           "acl_file"}
  k1 = k1
  k2 = k2
  n1 = n1
  n2 = n2
SYMMETRY Symmetry
INVARIANTS
  Converges
  SameContents
  WellFormed
  GroupsAgree
  RightsKept
PROPERTIES
  NothingTooEarly
CHECK_DEADLOCK FALSE
