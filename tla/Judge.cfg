CONSTANTS
  Callers = {c1, c2}
  NumKeys = 2
  MaxRetries = 2
  Estimates = {2}
  MaxTokens = 3
  MaxRequests = 2
  GWindow = 0
  MaxChats = 3
  MaxTime = 1
  Names <- MCNames
  Pairs <- MCPairs
  Budget = 2
  Answers <- MCAnswers
  Signals <- MCSignals
  Backdrops <- MCBackdrops
  MinConfidence = 50
  MaxEvents = 1
  MaxJournal = 2
SPECIFICATION Spec
INVARIANTS
  ClientSound
  JudgeSound
PROPERTIES
  ChatEnds
  RowsResolved
CHECK_DEADLOCK FALSE
