SPECIFICATION Spec
CONSTANTS
  SeedClients = 0
  SeedHotels = 1
  SeedMenus = 2
  Names = {n1}
  MaxUsers = 2
  MaxHotels = 1
  MaxMenus = 2
  MaxOrders = 2
  MaxItems = 4
  Places = {p1, p2}
  Cancels = {}
  Baskets <- PlainBaskets
SYMMETRY RequestSymmetry
INVARIANTS OrdersComeFromRequests
CHECK_DEADLOCK FALSE
