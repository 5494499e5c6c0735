SPECIFICATION ApplySpec
CONSTANTS
  o1 = o1
  o2 = o2
  o3 = o3
  o4 = o4
  OrderId <- ThreeIds
  Price = {1, 2}
  Quantity = {0, 1, 2}
  Requests = {}
  Capacity = 2
  OrderHash <- CollidingIds
  LevelHash <- CollidingLevels
  MaxPriority = 4
  MaxFill = 0
SYMMETRY Symmetry
INVARIANT StructureOK
PROPERTY ImplementsPriceTimeBook
