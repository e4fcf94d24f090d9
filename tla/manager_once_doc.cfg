SPECIFICATION ManagerSpec
CONSTANTS
  Bidders = {b1, b2}
  Amounts = {2, 3}
  AuctionArgs <- MCArgs
  InitialBalance = 4
  MinSlots = 2
  MaxTime = 1
  Authorities = {Seller, Manager}
  LastPlace = 2
  None = None
  Seller = Seller
  Manager = Manager
  x1 = x1
  x2 = x2
  Boxes = {x1, x2}
  Order <- MCOrder
  KeyBits = {0}
  MaxRanges = 2
  MaxTakes = 2
  Plans <- MCPlans
INVARIANT ClaimedOnce
CHECK_DEADLOCK FALSE
