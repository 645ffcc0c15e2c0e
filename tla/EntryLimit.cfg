SPECIFICATION Spec
CONSTANTS
  NSig = 3
  TickerOf <- Tickers
  Qty = 1
  MaxPos = 1
  MaxCrash = 0
  Overlap = FALSE
  Faults = {}
INVARIANTS HeldWithinLimit
CHECK_DEADLOCK FALSE
