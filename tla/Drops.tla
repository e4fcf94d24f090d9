-------------------------------- MODULE Drops --------------------------------
(***************************************************************************)
(* Three programs that hand out NFTs and share no account: Gumdrop,        *)
(* TokenEntangler and NftPacks.  The initial state chooses which of them   *)
(* runs, so that one run checks each of them by itself.                    *)
(***************************************************************************)
EXTENDS Gumdrop

CONSTANTS
  Entanglable, Reprintable,          \* Mints and Mintable of TokenEntangler
  Units, Artists, ArtistShares, SwapPrices, FirstOwner, FirstMoney, MostMinted,
  PackAdmins, CardMasters, VoucherMasters, PackPrints, PackHeirs, PackArguments,
  CardSupplies, CardWeights, CardMaxPrints,
  MostCards, MostEntries, MostWeight,
  MostVouchers, MostDraws, MostStrays, LastTime, \* bounds of NftPacks
  Program

VARIABLES pairs, balance, e_supply, money_left, earned
E == INSTANCE TokenEntangler WITH
       Wallets <- Claimants, Mints <- Entanglable, Mintable <- Reprintable,
       Unit <- Units, Creators <- Artists, Shares <- ArtistShares, Prices <- SwapPrices,
       InitialOwner <- FirstOwner, InitialMoney <- FirstMoney, MaxSupply <- MostMinted,
       None <- NoAccount, supply <- e_supply, money <- money_left

VARIABLES clock, pack, config, card, voucher, proving, holder, supply, strayed, print
P == INSTANCE NftPacks WITH
       Wallets <- Claimants, Admins <- PackAdmins, Masters <- CardMasters,
       Vouchers <- VoucherMasters, InitialPrints <- PackPrints, Heirs <- PackHeirs,
       Packs <- PackArguments, Supplies <- CardSupplies, Weights <- CardWeights,
       MaxPrints <- CardMaxPrints, MaxCards <- MostCards, MaxEntries <- MostEntries,
       MaxWeight <- MostWeight, MaxVouchers <- MostVouchers, MaxDraws <- MostDraws,
       MaxStrays <- MostStrays, MaxTime <- LastTime, None <- NoAccount, now <- clock

ASSUME EntanglerAssumption ==
  E!EntanglerAssumption /\ IsFiniteSet(Claimants) /\ IsFiniteSet(Entanglable)
ASSUME PacksAssumption ==
  /\ P!PacksAssumption
  /\ NoAccount \notin P!PackSet \cup P!PackCard \cup P!PackConfig
  /\ \A S \in SUBSET P!CardNumbers : NoAccount \notin P!ProvingProcess(S)

VARIABLE running
entanglerVars == <<pairs, balance, e_supply, money_left, earned>>
packsVars == <<clock, pack, config, card, voucher, proving, holder, supply, strayed, print>>
dropsVars == <<running, gumdropVars, entanglerVars, packsVars>>

DropsInit ==
  running \in {"gumdrop", "entangler", "packs"} /\ GumdropInit /\ E!Init /\ P!Init
DropsNext ==
  \/ running = "gumdrop" /\ GumdropNext /\ UNCHANGED <<running, entanglerVars, packsVars>>
  \/ running = "entangler" /\ E!Next /\ UNCHANGED <<running, gumdropVars, packsVars>>
  \/ running = "packs" /\ P!Next /\ UNCHANGED <<running, gumdropVars, entanglerVars>>
DropsSpec == DropsInit /\ [][DropsNext]_dropsVars

(* Of two entangled tokens at least one is in escrow (TokenEntangler). *)
NeverBothOut == E!NeverBothOut
(* What was drawn from a pack can be claimed (NftPacks). *)
ClaimsCovered == P!ClaimsCovered
(* The masters of the cards are held as long as the card is there (NftPacks). *)
MastersKept == P!MastersKept
=============================================================================
