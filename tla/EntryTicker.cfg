SPECIFICATION Spec
CONSTANTS
  NSig = 2
  TickerOf <- OneTicker
  Qty = 1
  MaxPos = 2
  MaxCrash = 0
  Overlap = FALSE
  Faults = {}
INVARIANTS OnePositionPerTicker
CHECK_DEADLOCK FALSE
