SPECIFICATION DropsSpec
CONSTANTS
  alice = alice  bob = bob  h1 = h1  tok = tok  mas = mas  can = can  n1 = n1
  m1 = m1  m2 = m2  m3 = m3  artist = artist
  k1 = k1  k2 = k2  v1 = v1  e1 = e1  e2 = e2  Program = Program
  Claimants = {alice, bob}
  Secrets = {alice, bob, h1}
  Holder <- MCHolder
  Otp = Otp
  NoTemporal = NoTemporal
  Indexes = {0, 1}
  Mints = {tok, mas}
  Candies = {can}
  Nonces = {n1}
  NoNonce = NoNonce
  Distributors <- MCDistributors
  Supply <- MCSupply
  Stock <- MCStock
  OpenSales = {}
  NoAccount = NoAccount
  Entanglable = {m1, m2, m3}
  Reprintable = {m3}
  Artists = {artist}
  ArtistShares <- MCShares
  SwapPrices = {2}
  Units <- MCUnits
  FirstOwner <- MCOwner
  FirstMoney = 1
  MostMinted = 1
  PackAdmins = {alice}
  CardMasters = {k1, k2}
  VoucherMasters = {v1}
  PackPrints <- MCPrints
  PackHeirs = {bob}
  PackArguments <- MCPacks
  CardSupplies = {0, 2}
  CardWeights = {0, 1}
  CardMaxPrints <- MCMaxPrints
  MostCards = 2
  MostEntries = 3
  MostWeight = 1
  MostVouchers = 1
  MostDraws = 2
  MostStrays = 1
  LastTime = 1
INVARIANTS ClaimedAtMost NeverBothOut ClaimsCovered MastersKept
CHECK_DEADLOCK FALSE
