SPECIFICATION Spec
CONSTANTS
  h1 = h1
  h2 = h2
  c1 = c1
  c2 = c2
  b1 = b1
  a1 = a1
  Mac = Mac
  NoSocket = NoSocket
  NoAccount = NoAccount
  Sockets = {h1, h2, c1}
  Browsers = {b1}
  Accounts = {a1}
  PeerOf <- HostTwo
  AccountOf <- OneAccount
  Revocable = {}
  MaxUnlinks = 2
SYMMETRY MacSymmetry
INVARIANTS
  RemovedMacIsCleared
  SessionsCoverOpenSockets
PROPERTIES
  LossIsAnnounced
CHECK_DEADLOCK FALSE
