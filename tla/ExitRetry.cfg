SPECIFICATION Spec
CONSTANTS
  NPos = 1
  NOrd = 2
  Qty = 1
  MaxCrash = 0
  Watcher = watcher
  Clients = {}
  Faults = {}
INVARIANTS OpenCanExit
