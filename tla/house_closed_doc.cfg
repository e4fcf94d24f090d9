SPECIFICATION Spec
CONSTANTS
  seller = seller
  buyer = buyer
  c1 = c1
  c2 = c2
  Wallets = {seller, buyer}
  Creators = {c1, c2}
  share <- MCShare
  royalty = 5000
  Houses <- MCHouses
  ScopeChoices <- MCScopes
  MaxPrice = 9
  Listings <- MCListings
  Bids <- MCBids
  Amounts = {2}
  IsNative = TRUE
  initialTokens <- MCTokens
  initialMoney <- MCMoney
  MaxTradeStates = 2
  Any = Any
  None = None
PROPERTY BidsClosedBySale
CHECK_DEADLOCK FALSE
