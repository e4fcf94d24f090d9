SPECIFICATION Spec
CONSTANTS
  Bidders = {b1, b2}
  Authorities = {s1, s2}
  Amounts = {1, 2, 3}
  AuctionArgs <- MCArgs
  InitialBalance = 3
  MinSlots = 2
  MaxTime = 4
  None = None
PROPERTY CancelOnlyOpenOrLost
CHECK_DEADLOCK FALSE
