SPECIFICATION Spec
CONSTANTS
  Bids <- MCBids
  Asks <- MCAsks
  Latencies = {0, 1, 2}
  order_size = 1
  enter_threshold = 30
  exit_threshold = 10
  MaxStep = 1
  MaxEvents = 6
INVARIANT FilledPlusInFlight
