CONSTANTS
  a1 = a1
  a2 = a2
  Accounts = {a1, a2}
  Macs = {m1}
  None = None
  Owner <- FirstOwner
  MaxSyncs = 3
  MaxFaults = 1
  MaxChanges = 2
  Tabs = {t1, t2}
  MaxTokens = 2
  MaxFailures = 1
SPECIFICATION MCSpec
INVARIANT RemovedStaysRemoved
CHECK_DEADLOCK FALSE
