SPECIFICATION ProgramSpec
CONSTANTS
  a1 = a1
  a2 = a2
  s1 = s1
  s2 = s2
  o1 = o1
  o2 = o2
  NoKey = NoKey
  Authority <- MCAuthority
  Signer <- MCSigner
  OrderKey <- MCOrderKey
  Market <- MCMarket
  Price <- MCPrice
  MaxSlot = 3
SYMMETRY MCSymmetry
INVARIANTS
  ProgramTypeOK
  EventsReplayToAccounts
  FulfilledAtMostOnce
  MarketNameDecodes
  OpenOrderFulfillable
PROPERTY ImplementsService
