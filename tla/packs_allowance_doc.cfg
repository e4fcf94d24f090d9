SPECIFICATION Spec
CONSTANTS
  alice = alice  bob = bob  k1 = k1  k2 = k2  v1 = v1  e1 = e1  e2 = e2
  Wallets = {alice, bob}
  Admins = {alice}
  Masters = {k1, k2}
  Vouchers = {v1}
  InitialPrints <- MCPrints
  Heirs = {bob}
  Packs <- MCPacks
  Supplies = {0, 1, 3}
  Weights = {0, 1}
  MaxPrints <- MCMaxPrints
  MaxCards = 2
  MaxWeight = 1
  MaxVouchers = 2
  MaxEntries = 3
  MaxDraws = 3
  MaxStrays = 1
  MaxTime = 1
  Program = Program
  None = None
INVARIANT DrawsAllowed
CHECK_DEADLOCK FALSE
