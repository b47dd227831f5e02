SPECIFICATION Spec
CONSTANTS
  NumUsers = 1
  Threads = {th1, th2}
  Lifetime = 1
  MaxSec = 2
  MaxJti = 4
SYMMETRY ThreadSymmetry
INVARIANTS TypeOK LoggedOutStaysOut BlacklistUnique CurrentJtiIsUsable
PROPERTIES IdentityNeverReturns BodyTokensDenied
CHECK_DEADLOCK FALSE
