SPECIFICATION MCSpec
CONSTANTS
  a1 = a1
  a2 = a2
  h1 = h1
  b1 = b1
  k1 = k1
  k2 = k2
  Accounts = {a1, a2}
  Hosts = {h1}
  Browsers = {b1}
  Codes = {k1, k2}
  NoRow = NoRow
  Refused = Refused
  StartTables <- EmptyPlane
  MaxIds = 4
  KeptCodes = 2
  Waiting = Waiting
  Lost = Lost
  Tasks = {1, 2}
  Workloads <- Mixed
  Failing = {"find", "list", "unrevoke", "restore", "ensure", "deny", "revoke", "rows", "mark"}
  MaxLosses = 1
  MaxRebuilds = 1
  Tabs = {t1, t2}
  None = None
  PageCodes = {k1}
  MaxAge = 1
  MaxNow = 2
  MaxAsked = 1
INVARIANTS
  TablesAgree
  ConfirmedHolds
  HeldForItsAccount
PROPERTIES
  SpentCodesStaySpent
  AccessImplementsService
CHECK_DEADLOCK FALSE
