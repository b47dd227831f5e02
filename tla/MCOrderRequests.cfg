SPECIFICATION FairSpec
CONSTANTS
  SeedClients = 0
  SeedHotels = 1
  SeedMenus = 2
  Names = {n1}
  MaxUsers = 2
  MaxHotels = 1
  MaxMenus = 2
  MaxOrders = 1
  MaxItems = 2
  Places = {p1}
  Cancels = {c1}
  Baskets <- LargeBaskets
INVARIANTS TypeOK CreatedIsComplete CancelledStaysCancelled
PROPERTIES StoreSpec EveryRequestAnswered
CHECK_DEADLOCK FALSE
