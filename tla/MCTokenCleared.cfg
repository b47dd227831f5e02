SPECIFICATION Spec
CONSTANTS
  NumUsers = 1
  Threads = {th1, th2}
  Lifetime = 2
  MaxSec = 3
  MaxJti = 4
SYMMETRY ThreadSymmetry
PROPERTIES ClearedTokensExpired
CHECK_DEADLOCK FALSE
