SPECIFICATION ForkSpec
CONSTANTS
  a1 = a1
  a2 = a2
  s1 = s1
  o1 = o1
  NoKey = NoKey
  Authority <- MCAuthority
  Signer <- MCSigner
  OrderKey <- MCOrderKey
  Market <- MCMarket
  Price <- MCPrice
  PythPrice <- MCPythPrice
  CoinbasePrice <- MCNoCoinbase
  Stray <- MCNone
  Payer = a1
  MaxSlot = 2
  BlockhashAge = 1
  MaxFaults = 1
INVARIANT PriceIsForOrder
\* The clock has stopped at MaxSlot and the worker sees nothing left to do.
CHECK_DEADLOCK FALSE
