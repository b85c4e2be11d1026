SPECIFICATION FairSpec
CONSTANTS
  a1 = a1
  a2 = a2
  s1 = s1
  s2 = s2
  o1 = o1
  o2 = o2
  NoKey = NoKey
  Authority <- MCTwoAuthorities
  Signer <- MCSigner
  OrderKey <- MCOneOrder
  Market <- MCMarket
  Price <- MCTwoPrices
  PythPrice <- MCSecondPrice
  CoinbasePrice <- MCNoCoinbase
  Stray <- MCEarlyStray
  Payer = a1
  MaxSlot = 2
  BlockhashAge = 0
  MaxFaults = 1
INVARIANT BackoffDoubles
PROPERTIES
  ImplementsBackfill
  EveryOrderAnswered
\* The clock has stopped at MaxSlot, and every order is answered or the worker displaced.
CHECK_DEADLOCK FALSE
