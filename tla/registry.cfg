SPECIFICATION Spec
CONSTANTS
  a1 = a1
  a2 = a2
  a3 = a3
  n1 = n1
  n2 = n2
  Adapter = {a1, a2, a3}
  NoAdapter = NoAdapter
  NoName = NoName
  NoData = NoData
  ClientName <- RegistryNames
  MonitorClient = {a3}
  OldClient = {}
  MonitorMode = TRUE
  Patient = {a1, a3}
  Slow = {a3}
  Endless = {a1, a3}
  Topic = {}
  Method = {}
  Data = {}
  BigNamed = {}
  BigAnon = {}
  ListFits = {{}, {a1}}
  AddFits = {a1}
  Timeout = {}
  DEFAULT_CALL_TIMEOUT = 2
  CLEAR_SUBSCRIPTION_THRESHOLD = 2
  Script <- PingScript
  MaxSend = 1
  MayClose = FALSE
  Name = {n1, n2}
INVARIANTS
  TypeOK
  IdsUnique
  PatientForgotten
  MonitorViewExact
CHECK_DEADLOCK FALSE
