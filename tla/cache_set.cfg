SPECIFICATION CacheSafety
CONSTANTS
  g1 = g1
  g2 = g2
  g3 = g3
  v1 = v1
  v2 = v2
  None = None
  Err = Err
  Getter <- MCTwoGetters
  Value <- MCValue
  Timestamp <- MCOneTimestamp
  MaxSets = 1
PROPERTY ResolvedOnce
\* Every call has returned and no call of set() is left.
CHECK_DEADLOCK FALSE
