SPECIFICATION ForkSpec
CONSTANTS
  a1 = a1
  a2 = a2
  s1 = s1
  o1 = o1
  NoKey = NoKey
  Authority <- MCTwoAuthorities
  Signer <- MCSigner
  OrderKey <- MCOrderKey
  Market <- MCTwoMarkets
  Price <- MCPrice
  PythPrice <- MCPythPrice
  CoinbasePrice <- MCNoCoinbase
  Stray <- MCStray
  Payer = a1
  MaxSlot = 2
  BlockhashAge = 1
  MaxFaults = 1
INVARIANT PriceWasRequested
PROPERTY RootedAnswerFinal
\* The clock has stopped at MaxSlot and the worker sees nothing left to do.
CHECK_DEADLOCK FALSE
