SPECIFICATION Spec
CONSTANTS
  Wallets = {a, w}
  Authorities = {a}
  Tokens = {usdc}
  SOL = SOL
  DataChoices <- MCFreezeData
  FreezeTimes = {1}
  InitialMoney = 2
  Tickets <- MCTickets
  BotFee = 1
  ByteSize = 2
  MaxMints = 3
  MaxOthers = 1
  MaxTime = 2
  a = a
  w = w
  None = None
INVARIANT LockedOnlyWithFunds
CHECK_DEADLOCK FALSE
