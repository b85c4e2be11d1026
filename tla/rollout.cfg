SPECIFICATION LifecycleSpec
CONSTANTS
  a1 = a1
  a2 = a2
  NoKey = NoKey
  Authority <- MCAuthority
  Signer <- MCSigner
  OrderKey <- MCNone
  Market <- MCNone
  Price <- MCNone
  Payer = a1
  Pods = 2
  KeyBytes = 2
  MaxSlot = 2
  BlockhashAge = 0
  Funds = 3
  MaxFaults = 0
  MaxFileFaults = 0
INVARIANT LastWorkerServes
\* The clock has stopped, and the payer has no funds left for a restart.
CHECK_DEADLOCK FALSE
