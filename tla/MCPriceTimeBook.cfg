SPECIFICATION Spec
CONSTANTS
  o1 = o1
  o2 = o2
  o3 = o3
  OrderId <- MCOrderId
  Price = {1, 2}
  Quantity = {0, 1, 2}
  Requests <- OrderRequest
  Capacity = 2
  MaxPriority = 5
  MaxFill = 2
SYMMETRY Symmetry
INVARIANTS
  TypeOK
  PriorityIsStrict
  CapacityRefusalIsClean
  FillsAreBestFirst
  FillOrKill
PROPERTY SubmitNeverCrosses
