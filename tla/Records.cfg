CONSTANTS
  Pairs = {"BTC", "ETH"}
  MaxOrders = 3
  MaxParts = 2
  MaxUpsets = 1
  ForeignKeys = FALSE
  Parents = {1, 7, 12}
  MinSlices = 2
  MaxSlices = 4
  Unit = 2
  Steps = {0, 3}
  Price = 2
  MinNotional = 7
  Scopes = {a, b}
  Everyone = everyone
  Ids = {1, 2}
  Names = {x, y}
  Procs = {p, q}
  Target = 10
  TenantCols = 5
  Backfill = 8
SPECIFICATION RecordsSpec
INVARIANTS
  JournalSound
  TwapSound
PROPERTIES
  OrderIsJournaled
  TenantIsolation
  SchemaSound
CHECK_DEADLOCK FALSE
