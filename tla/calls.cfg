SPECIFICATION Spec
CONSTANTS
  a1 = a1
  a2 = a2
  a3 = a3
  n1 = n1
  n2 = n2
  Adapter = {a1, a2}
  NoAdapter = NoAdapter
  NoName = NoName
  NoData = NoData
  ClientName <- CallNames
  MonitorClient = {}
  OldClient = {}
  MonitorMode = FALSE
  Patient = {a1, a2}
  Slow = {a1}
  Endless = {}
  Topic = {}
  Method = {m1}
  Data = {d1}
  BigNamed = {}
  BigAnon = {}
  ListFits = {}
  AddFits = {}
  Timeout = {0, 1}
  DEFAULT_CALL_TIMEOUT = 2
  CLEAR_SUBSCRIPTION_THRESHOLD = 2
  Script <- CallScript
  MaxSend = 2
  MayClose = FALSE
  Name = {n1}
INVARIANTS
  NoDanglingInfo
  AtMostOneAnswer
  AnsweredByTarget
  OverdueNoticed
CHECK_DEADLOCK FALSE
