SPECIFICATION AuctioneerSpec
CONSTANTS
  seller = seller
  b1 = b1
  b2 = b2
  Wallets = {seller, b1, b2}
  Creators = {}
  share <- MCShare
  royalty = 0
  Houses <- MCHouses
  ScopeChoices <- MCScopes
  MaxPrice = 9
  Listings <- MCListings
  Bids <- MCBids
  Amounts = {1}
  IsNative = TRUE
  initialTokens <- MCTokens
  initialMoney <- MCMoney
  MaxTradeStates = 3
  Configs <- MCConfigs
  MaxTime = 2
  Any = Any
  None = None
INVARIANTS HighestBidStands
PROPERTIES SoldToTheHighest AuctionConcludes
CHECK_DEADLOCK FALSE
