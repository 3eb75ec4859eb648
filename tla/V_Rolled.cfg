CONSTANTS
  s1 = s1
  s2 = s2
  Pairs <- MCPairs
  Directions <- MCDirections
  Cycle = cycle
  Manual = manual
  Handlers = {h1}
  Configs <- Rolling
  MaxPositions = 1
  Alerts <- MCAlerts
  Window = 2
  Fresh = 1
  Faults = {}
  MaxUnits = 2
  MaxLive = 1
  MaxClock = 0
  MaxFaults = 0
SPECIFICATION Spec
PROPERTY Rolled
