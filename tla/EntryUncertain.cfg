SPECIFICATION FairSpec
CONSTANTS
  NSig = 2
  TickerOf <- OneTicker
  Qty = 1
  MaxPos = 1
  MaxCrash = 1
  Overlap = FALSE
  Faults = {"apiError"}
PROPERTIES UncertainSignalSettles
CHECK_DEADLOCK FALSE
