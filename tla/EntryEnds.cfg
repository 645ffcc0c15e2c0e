SPECIFICATION FairSpec
CONSTANTS
  NSig = 2
  TickerOf <- OneTicker
  Qty = 2
  MaxPos = 1
  MaxCrash = 1
  Overlap = TRUE
  Faults = {"rejectReply"}
PROPERTIES FillOpensPosition OrderEnds KeepsSignalPromise
CHECK_DEADLOCK FALSE
