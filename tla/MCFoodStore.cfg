SPECIFICATION StoreSpec
CONSTANTS
  SeedClients = 0
  SeedHotels = 1
  SeedMenus = 1
  Names = {n1, n2}
  MaxUsers = 3
  MaxHotels = 2
  MaxMenus = 2
  MaxOrders = 1
  MaxItems = 2
SYMMETRY NameSymmetry
INVARIANTS StoreTypeOK ForeignKeys DestroyCommits
PROPERTIES OrdersOutliveTheCatalog ItemsLeaveWithAParent NoOrderChangesHands
CHECK_DEADLOCK FALSE
