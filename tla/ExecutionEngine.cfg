CONSTANTS
  Calls = {c1, c2}
  MaxRestAttempts = 1
  MaxRetries = 1
  CompletedMax = 1
  BracketsOn = TRUE
SPECIFICATION EngineSpec
INVARIANTS
  NoPhantomTrade
  OnlyClearedTrade
  KillAccounting
PROPERTIES
  EngineAnswers
CHECK_DEADLOCK FALSE
