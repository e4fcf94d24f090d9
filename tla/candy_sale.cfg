SPECIFICATION FairSpec
CONSTANTS
  Wallets = {a, w}
  Authorities = {a}
  Tokens = {usdc}
  SOL = SOL
  DataChoices <- MCSale
  FreezeTimes = {1}
  InitialMoney = 1
  Tickets <- MCTickets
  BotFee = 1
  ByteSize = 2
  MaxMints = 3
  MaxOthers = 1
  MaxTime = 2
  a = a
  w = w
  None = None
INVARIANTS LineMintedOnce SearchFindsNearest FrozenCounted
PROPERTIES EscrowHeldWhileFrozen EveryNftThaws
CHECK_DEADLOCK FALSE
