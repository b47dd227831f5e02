SPECIFICATION MCSpec
CONSTANTS
  Shard = {1, 2, 3}
  Voters = {a, b}
  Ops = {"elect", "force", "takeover", "crash"}
  MaxEpoch = 2
  MaxHeaders = 4
  MaxFaults = 1
SYMMETRY Symmetry
INVARIANTS
  OneVotePerEpoch
  OneWinnerPerEpoch
  MajorityVoted
CHECK_DEADLOCK FALSE
