SPECIFICATION MCSpec
CONSTANTS
  None = None
  Flows = {f1, f2}
  MaxQueue = 3
  MaxPresses = 2
  MaxDrops = 2
  MaxAtMac = 2
  Apps = {x1, x2}
  Files = 2
  Chunks = 2
  MaxSubmits = 1
  t1 = t1
  t2 = t2
  Tabs = {t1, t2}
  Hosts = {h1, h2}
  NoHost = NoHost
  Nobody = Nobody
  TTL = 1
  MaxNow = 1
  MaxOps = 2
  MaxJobs = 2
PROPERTIES
  PictureReturns
  
  JobsEnd
CHECK_DEADLOCK FALSE
