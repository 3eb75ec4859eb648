CONSTANTS
  Pairs = {"BTC"}
  MaxOrders = 2
  MaxParts = 1
  MaxUpsets = 0
  ForeignKeys = TRUE
  Parents = {7}
  MinSlices = 2
  MaxSlices = 4
  Unit = 2
  Steps = {0}
  Price = 2
  MinNotional = 7
  Scopes = {a, b}
  Everyone = everyone
  Ids = {1, 2}
  Names = {x}
  Procs = {p}
  Target = 10
  TenantCols = 5
  Backfill = 8
SPECIFICATION RecordsSpec
PROPERTY FillIsJournaled
CHECK_DEADLOCK FALSE
