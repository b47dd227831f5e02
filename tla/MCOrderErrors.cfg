SPECIFICATION Spec
CONSTANTS
  SeedClients = 0
  SeedHotels = 1
  SeedMenus = 2
  Names = {n1}
  MaxUsers = 2
  MaxHotels = 1
  MaxMenus = 2
  MaxOrders = 1
  MaxItems = 2
  Places = {p1}
  Cancels = {}
  Baskets <- PlainBaskets
INVARIANTS UnprocessableCreatesNothing
CHECK_DEADLOCK FALSE
