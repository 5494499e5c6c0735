SPECIFICATION ApplySpec
CONSTANTS
  o1 = o1
  o2 = o2
  o3 = o3
  o4 = o4
  OrderId <- ThreeIds
  Price = {1, 2}
  Quantity = {1}
  Requests = {}
  Capacity = 1
  OrderHash <- CollidingIds
  LevelHash <- SpreadLevels
  MaxPriority = 4
  MaxFill = 0
PROPERTY RefusedEventChangesNothing
