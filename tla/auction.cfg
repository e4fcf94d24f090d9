SPECIFICATION FairSpec
CONSTANTS
  Bidders = {b1, b2, b3}
  Authorities = {s1}
  Amounts = {1, 2}
  AuctionArgs <- MCArgs
  InitialBalance = 2
  MinSlots = 2
  MaxTime = 4
  None = None
INVARIANTS PriceTimePriority OneBidPerBidder BidsBacked
PROPERTIES WinnersFinal CustodySpec EscrowDrains
CHECK_DEADLOCK FALSE
