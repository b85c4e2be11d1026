SPECIFICATION FeedSpec
CONSTANTS
  c1 = c1
  None = None
  Market <- MCMarket
  Second <- MCSecond
  PythQuote <- MCPythQuote
  Tick <- MCTick
  Call <- MCCall
  Decimals = 2
  Wide = 2048
  Capacity = 2
  StoreTTL = 1
  CacheTTL = 2
  MaxTime = 2
  MaxFrames = 3
INVARIANTS
  FeedTypeOK
  AverageExact
  AnswerWithinQuotes
PROPERTY DeadFeedEndsWorker
\* The worker has ended, or the bounded clock and stream have.
CHECK_DEADLOCK FALSE
