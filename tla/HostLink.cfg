SPECIFICATION FairSpec
CONSTANTS
  a1 = a1
  a2 = a2
  h1 = h1
  k1 = k1
  Accounts = {a1, a2}
  Hosts = {h1}
  Browsers = {}
  Codes = {k1}
  Mac = h1
  LinkCode = k1
  NoRow = NoRow
  Refused = Refused
  KeptCodes = 3
  NoAccount = NoAccount
  Waiting = Waiting
  Lost = Lost
  Tasks = {1, 2}
  Workloads <- Overlapping
  MaxConnections = 2
  MaxLosses = 1
  MaxRebuilds = 1
  MaxIds = 3
INVARIANTS
  
  RemovalIsTracked
PROPERTIES
  SignOutIsFinal
  RemovalIsFinished
  ImplementsService
CHECK_DEADLOCK FALSE
