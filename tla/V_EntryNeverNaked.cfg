CONSTANTS
  Calls = {c1}
  MaxRestAttempts = 2
  MaxRetries = 2
  CompletedMax = 1
  BracketsOn = TRUE
SPECIFICATION EngineSpec
INVARIANT EntryNeverNaked
CHECK_DEADLOCK FALSE
