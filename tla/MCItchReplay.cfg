SPECIFICATION Spec
CONSTANTS
  Message <- MCMessage
  Streams <- MCStreams
  Sources = {"file", "memory", "missing"}
  Windows = {24, 45}
  OrderId = {1, 2, 3}
  Price = {1, 2}
  Quantity = {1, 2, 3}
  max_symbols = 2
  per_symbol_capacity = 2
  max_orders = 3
  locate = 0
  MaxEvents = {0, 2}
CHECK_DEADLOCK FALSE
INVARIANTS
  WindowHoldsStream
  ModesAgree
  RowsTrackTop
PROPERTIES
  BufferGrowsOnlyForFrame
  ImplementsFrameReader
  SymbolsDoNotInterfere
  ReplayEnds
