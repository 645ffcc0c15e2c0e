SPECIFICATION FairSpec
CONSTANTS
  NPos = 1
  NOrd = 3
  Qty = 2
  MaxCrash = 1
  Watcher = watcher
  Clients = {c1, c2}
  Faults = {}
PROPERTIES KeepsPromise ClosingEnds
