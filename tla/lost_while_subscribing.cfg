SPECIFICATION Spec
CONSTANTS
  c1 = c1
  c2 = c2
  x1 = x1
  x2 = x2
  d1 = d1
  d2 = d2
  s1 = s1
  NoClient = NoClient
  Connects <- TwoConnects
  Cancels <- OneCancel
  Disconnects <- OneDisconnect
  Shutdowns = {}
  MaxViewers = 0
  MaxChanges = 0
  MaxLosses = 1
  MaxCrossings = 0
  MaxDisturbances = 1
CHECK_DEADLOCK FALSE
INVARIANTS
  MonitoringMeansSubscribed
