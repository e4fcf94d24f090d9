SPECIFICATION Spec
CONSTANTS
  alice = alice  bob = bob  carol = carol  plain = plain  sized = sized
  Wallets = {alice, bob, carol}
  Signers = {alice, bob}
  Receivers = {bob, carol}
  Collections <- MCCollections
  MintChoices <- MCMintChoices
  Capacities = {2}
  MaxDepth = 1
  TreeAuthority = TreeAuthority
  None = None
INVARIANTS ApprovalsHonoured OneForm
PROPERTIES GoneForGood ChangesSigned
CHECK_DEADLOCK FALSE
