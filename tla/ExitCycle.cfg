SPECIFICATION Spec
CONSTANTS
  NPos = 2
  NOrd = 3
  Qty = 2
  MaxCrash = 1
  Watcher = watcher
  Clients = {c1}
  Faults = {"stuck", "unknownReply"}
INVARIANTS TypeOK ClosingHasOneExit RemainingAddsUp ResultIffClosed ClosedMeansSold NoOversell
PROPERTIES ClosedIsFinal
