SPECIFICATION Spec
CONSTANTS
  a1 = a1
  a2 = a2
  s1 = s1
  s2 = s2
  o1 = o1
  o2 = o2
  NoKey = NoKey
  Authority <- MCAuthority
  Signer <- MCSigner
  OrderKey <- MCOrderKey
  Market <- MCMarket
  Price <- MCPrice
  PythPrice <- MCPythPrice
  CoinbasePrice <- MCCoinbasePrice
  Stray <- MCStray
  Payer = a1
  MaxSlot = 2
  BlockhashAge = 1
  MaxFaults = 1
SYMMETRY MCSymmetry
INVARIANTS
  TypeOK
  SingleFlight
  NoStrandedOrder
PROPERTY ImplementsBackfill
\* Every order is answered and the clock has stopped at MaxSlot.
CHECK_DEADLOCK FALSE
