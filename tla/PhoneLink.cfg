SPECIFICATION MCSpec
CONSTANTS
  Calls = {c1, c2}
  None = None
  NotesRenewal = FALSE
  Flows = {f1, f2}
  MaxQueue = 3
  MaxPresses = 2
  MaxDrops = 2
  MaxAtMac = 2
  Apps = {x1, x2}
  Files = 2
  Chunks = 1
  MaxSubmits = 2
INVARIANTS
  OneLiveLink
  OnlyCurrentFlow
  
  ReportIsTrue
PROPERTIES
  LinkReturns
