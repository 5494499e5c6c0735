SPECIFICATION MatchSpec
CONSTANTS
  o1 = o1
  o2 = o2
  o3 = o3
  o4 = o4
  OrderId <- FourIds
  Price = {1, 2}
  Quantity = {0, 1, 2}
  Requests <- MatchRequests
  Capacity = 3
  OrderHash <- CollidingIds
  LevelHash <- CollidingLevels
  MaxPriority = 4
  MaxFill = 2
SYMMETRY Symmetry
INVARIANT StructureOK
PROPERTY ImplementsPriceTimeBook
