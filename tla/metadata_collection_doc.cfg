CONSTANTS
    m1 = m1  m2 = m2  m3 = m3
    alice = alice  bob = bob
    Mints = {m1, m2, m3}
    Wallets = {alice, bob}
    VaultPda = vault
    Burner = burner
    Seeder = bob
    None = None
    Decimals <- MCDecimals
    ByteSize = 2
    MarkerBits = 4
    MaxTokens = 2
    MaxSize = 2
    Clients <- MCClients
SPECIFICATION Spec
PROPERTIES VerifiedCollectionStays
CHECK_DEADLOCK FALSE
