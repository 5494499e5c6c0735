SPECIFICATION Spec
CONSTANTS
  OrderId = {o1, o2, o3}
  Price = {1, 2}
  Quantity = {1, 2}
  Sides = {"Buy"}
  side = "Buy"
  size = 2
  timeout = 4
  Multipliers = {2, 3}
  Scale = 2
  max_orders = 2
  MaxEvents = 7
SYMMETRY Symmetry
CHECK_DEADLOCK FALSE
INVARIANT DisplayedFollowsBook
PROPERTY BandIsOrdered
