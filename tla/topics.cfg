SPECIFICATION Spec
CONSTANTS
  a1 = a1
  a2 = a2
  a3 = a3
  n1 = n1
  n2 = n2
  Adapter = {a1, a2}
  NoAdapter = NoAdapter
  NoName = NoName
  NoData = NoData
  ClientName <- AnonNames
  MonitorClient = {}
  OldClient = {}
  MonitorMode = FALSE
  Patient = {a1, a2}
  Slow = {a1}
  Endless = {}
  Topic = {t1}
  Method = {}
  Data = {d1, d2}
  BigNamed = {d2}
  BigAnon = {}
  ListFits = {}
  AddFits = {}
  Timeout = {}
  DEFAULT_CALL_TIMEOUT = 2
  CLEAR_SUBSCRIPTION_THRESHOLD = 2
  Script <- TopicScript
  MaxSend = 2
  MayClose = FALSE
  Name = {}
INVARIANTS
  NoDuplicateSubscription
  PersistCoherent
PROPERTIES
  SubscriberKept
CHECK_DEADLOCK FALSE
