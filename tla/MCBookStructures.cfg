SPECIFICATION StructuresSpec
CONSTANTS
  o1 = o1
  o2 = o2
  o3 = o3
  o4 = o4
  OrderId <- ThreeIds
  Price = {1, 2}
  Quantity = {1, 2}
  Requests <- MatchRequests
  Capacity = 1
  OrderHash <- CollidingIds
  LevelHash <- SpreadLevels
  MaxPriority = 4
  MaxFill = 2
  Levels = {1, 2, 3, 4, 5, 6, 7}
  Key = {k1, k2, k3, k4}
  Value = {1, 2}
  max_orders = 2
SYMMETRY Symmetry
INVARIANTS
  LadderOK
  FindAgrees
  OrderTableNeverRefuses
  StructureOK
PROPERTIES
  TopIsBest
  ImplementsPriceTimeBook
