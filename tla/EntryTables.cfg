SPECIFICATION Spec
CONSTANTS
  NSig = 3
  TickerOf <- Tickers
  Qty = 2
  MaxPos = 2
  MaxCrash = 1
  Overlap = TRUE
  Faults = {"apiError", "lostCommit", "keyClash", "partialCancel", "stuck", "unknownReply", "rejectReply"}
INVARIANTS TypeOK ExecutedIffPosition PositionIsBacked DoublesWereUnseen
PROPERTIES EndedIsFinal
CHECK_DEADLOCK FALSE
