SPECIFICATION Spec
CONSTANTS
  a = a
  o = o
  w1 = w1
  w2 = w2
  Wallets = {w1, w2}
  Funders = {a, o}
  owner = o
  metaShares <- MCMetaShares
  fee = 5000
  IsMutable = TRUE
  PrimaryShares <- MCPrimaryShares
  GivenShares <- MCGivenShares
  MaxEditions = {5, None}
  InitialEditions = 1
  Supplies = {2, 4, None}
  Markets <- MCMarkets
  Changes <- MCChanges
  initialMoney <- MCMoney
  initialGateTokens <- MCGateTokens
  MaxU64 = 20000
  MaxTime = 2
  MaxGifts = 1
  None = None
INVARIANTS SoldOutEnds EverybodyCanBePaid
PROPERTIES TakingsFinal SaleSettles
CHECK_DEADLOCK FALSE
