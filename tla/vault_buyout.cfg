SPECIFICATION FairSpec
CONSTANTS
  Tokens = {t1, t2}
  Holders = {h1, h2}
  Authorities = {alice, bob}
  PriceAccounts = {oracle, other}
  usdc = usdc
  sol = sol
  Currencies <- MCCurrencies
  Prices <- MCPrices
  Deposits = {0, 1}
  ShareCounts = {1, 2}
  Gifts = {1}
  InitialTokens = 2
  InitialMoney = 2
  MaxU8 = 2
  MaxU64 = 4
  None = None
INVARIANTS SharesAddUp Solvent
PROPERTIES NothingLeftWhenDeactivated WindsDown
