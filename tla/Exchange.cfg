CONSTANTS
  Calls = {c1, c2}
  MaxRestAttempts = 3
  MaxRetries = 2
  CompletedMax = 1
  ticker = ticker
  markSub = markSub
  candle = candle
  Subs = {ticker, markSub, candle}
  Channel <- MCChannel
  MaxReconnects = 2
  MaxOps = 4
  Prices = {0, 1, 2}
  MaxTicks = 2
  MaxAge = 1
  MaxBooks = 3
  MaxTickers = 3
  MaxNow = 3
SPECIFICATION ExchangeSpec
INVARIANTS
  AtMostOneOrder
  BookkeepingSound
  AnswerMatchesExchange
  FeedSound
  CachesSound
PROPERTIES
  SubmitReturns
  AtMostOnce
  SubscriptionServed
CHECK_DEADLOCK FALSE
