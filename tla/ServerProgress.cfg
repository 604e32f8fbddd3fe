SPECIFICATION MCSpec
CONSTANTS
  m1 = m1
  p1 = p1
  mac = mac
  phone = phone
  c1 = c1
  b1 = b1
  a1 = a1
  Conns = {m1, p1}
  Devices = {mac, phone}
  DeviceOf <- OneEach
  NoConn = NoConn
  NoEnvelope = NoEnvelope
  OutCapacity = 1
  MaxQueuedPerPeer = 1
  Senders = {m1}
  MaxSent = 3
  Sockets = {c1}
  Browsers = {b1}
  Accounts = {a1, a2}
  Mac = Mac
  PeerOf <- BrowserOne
  AccountOf <- OneAccount
  NoSocket = NoSocket
  NoAccount = NoAccount
  Revocable = {b1}
  MaxUnlinks = 1
  Tabs = {t1}
  None = None
  MaxTokens = 3
  MaxFailures = 2
PROPERTIES
  HubProgress
  StaleAccessEnds
  SignedOutEnds
CHECK_DEADLOCK FALSE
