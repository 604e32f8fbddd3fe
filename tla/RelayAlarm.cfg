\* Scaled times: refresh < ping < persist < silence < stale, as in the code.
CONSTANTS
  Clients = {c1, c2}
  Kinds = {hello}
  Ping = 3
  Persist = 4
  Silence = 5
  Stale = 7
  Lead = 3
  Refresh = 2
  Authorization = 5
  Poll = 6
  TTL = 6
  MaxBackoff = 2
  MaxTime = 10
  MaxWakes = 1
  Tabs = {t1, t2}
  Hosts = {h1, h2}
  NoHost = NoHost
  NoCopy = NoCopy
  Nobody = Nobody
  CopyTTL = 1
  MaxNow = 1
  MaxOps = 4
  MaxJobs = 2
SYMMETRY Symmetry
SPECIFICATION MCSpec
INVARIANTS
  
  ErasedStaysErased
  KeptAsReceived
PROPERTIES
  LiveHostIsKept
CHECK_DEADLOCK FALSE
