SPECIFICATION StoreSpec
CONSTANTS
  SeedClients = 0
  SeedHotels = 1
  SeedMenus = 1
  Names = {n1}
  MaxUsers = 2
  MaxHotels = 1
  MaxMenus = 1
  MaxOrders = 1
  MaxItems = 1
INVARIANTS OrderKeepsItsHotel
CHECK_DEADLOCK FALSE
