SPECIFICATION CacheSpec
CONSTANTS
  g1 = g1
  g2 = g2
  g3 = g3
  v1 = v1
  v2 = v2
  None = None
  Err = Err
  Getter <- MCGetter
  Value <- MCValue
  Timestamp <- MCTimestamp
  MaxSets = 2
INVARIANTS
  CacheTypeOK
  SingleFetch
  GettersAgree
PROPERTIES
  LateFetchKeepsPrice
  ImplementsPriceMap
  EveryGetReturns
\* Every call has returned and no call of set() is left.
CHECK_DEADLOCK FALSE
