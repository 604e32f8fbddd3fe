SPECIFICATION Spec
CONSTANTS
  h1 = h1
  h2 = h2
  c1 = c1
  c2 = c2
  b1 = b1
  a1 = a1
  Mac = Mac
  NoSocket = NoSocket
  NoAccount = NoAccount
  Sockets = {c1, c2}
  Browsers = {b1}
  Accounts = {a1}
  PeerOf <- BrowserPair
  AccountOf <- OneAccount
  Revocable = {b1}
  MaxUnlinks = 1
SYMMETRY BrowserSymmetry
INVARIANTS
  RevokedCutOff
  OneSocketPerBrowser
CHECK_DEADLOCK FALSE
