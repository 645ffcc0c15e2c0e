SPECIFICATION Spec
CONSTANTS
  NPos = 1
  NOrd = 3
  Qty = 2
  MaxCrash = 1
  Watcher = watcher
  Clients = {c1}
  Faults = {"lostReply", "crashInFlight", "pricedClose", "keyClash", "partialCancel", "stuck", "unknownReply", "rejectReply"}
INVARIANTS OpenHasNoLiveExit RecordedFillsAreReal OversellHasCause
