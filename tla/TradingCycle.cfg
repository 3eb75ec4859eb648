CONSTANTS
  s1 = s1
  s2 = s2
  Pairs <- MCPairs
  Directions <- MCDirections
  Cycle = cycle
  Manual = manual
  Handlers = {h1}
  Configs <- MCConfigs
  MaxPositions = 1
  Alerts <- MCAlerts
  Window = 2
  Fresh = 1
  Faults = {"read", "unconfirmed", "adjust", "manual", "restart"}
  MaxUnits = 2
  MaxLive = 1
  MaxClock = 2
  MaxFaults = 1
SPECIFICATION Spec
INVARIANTS
  OneTradeUnderLock
  AlertOnce
PROPERTIES
  CycleComesRound
  AlertsAnswered
