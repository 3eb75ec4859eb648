CONSTANTS
  Symbols = {s1}
  MaxLoss = 0
  MaxConsecutive = 2
  StreakCap = 2
  MaxSpikes = 2
  Shows = {"funding"}
  PnlBound = 1
  MaxDay = 2
  MaxFaults = 1
  MaxRestarts = 1
  Contracts = {"BTC", "ETH"}
  Quote <- MCQuote
  Mark <- MCMark
  Rate <- MCRate
  Risk <- MCRisk
  Filters <- MCFilters
  AccountLeverage = 3
  Lots = {4, 400, 1000}
  Equities = {0, 100}
  WinRates = {0, 60}
  Payout = 2
  Kinds = {"bare", "cycle", "bot", "full"}
  LiqPrices = {0, 45}
  Switchable = {"FUNDING_RATE_COST"}
  MaxBook = 400
SPECIFICATION RiskSpec
INVARIANTS
  KillSwitchHolds
  DailyLossHolds
  FundingTripIsEarned
  RiskSound
PROPERTIES
  DailyLossBlocks
