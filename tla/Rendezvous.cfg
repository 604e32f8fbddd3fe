SPECIFICATION MCSpec
CONSTANTS
  m1 = m1
  p1 = p1
  p2 = p2
  mac = mac
  phone = phone
  NoConn = NoConn
  NoEnvelope = NoEnvelope
  Conns = {m1, p1, p2}
  Devices = {mac, phone}
  DeviceOf <- PhoneTwice
  OutCapacity = 1
  MaxQueuedPerPeer = 2
  Senders = {m1}
  MaxSent = 3
  Readers = {r1}
  Endpoints = {e1, e2, e3}
  Statuses = {2, 3, 5}
  MaxSubscriptions = 3
  MaxReports = 3
  MaxConns = 2
  MaxEnvelopes = 3
  MaxQueued = 2
  TTL = 1
  MaxNow = 2
  MaxFaults = 1
INVARIANTS
  
  RegisteredIsAttached
  OnlineHasNoBacklog
  DeliveredInOrder

  
CHECK_DEADLOCK FALSE
