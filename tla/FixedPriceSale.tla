--------------------------- MODULE FixedPriceSale ---------------------------
(***************************************************************************)
(* The fixed price sale program: the holder of a master edition deposits   *)
(* it, a market sells prints of it at a fixed price, the takings are paid  *)
(* out by shares and the master edition is claimed back.  One selling      *)
(* resource, which has at most one market.                                 *)
(***************************************************************************)
EXTENDS Integers, FiniteSets, Functions

CONSTANTS
  Wallets,         \* buyers
  Funders,         \* who may ask for a payout
  owner,           \* SellingResource::owner, Market::owner
  metaShares,      \* Metadata::data.creators: share of each, in percent
  fee,             \* Metadata::data.seller_fee_basis_points
  IsMutable,       \* Metadata::is_mutable
  PrimaryShares,   \* arguments of save_primary_metadata_creators
  GivenShares,     \* lists of creators in the accounts that callers of withdraw name
  MaxEditions,     \* MasterEditionV2::max_supply
  InitialEditions, \* prints made before
  Supplies,        \* arguments of init_selling_resource
  Markets,         \* arguments of create_market
  Changes,         \* arguments of change_market
  initialMoney, initialGateTokens,
  MaxU64,
  MaxTime,         \* bound: the clock stops here
  MaxGifts,        \* bound: sent to the treasury holder from outside
  None

Optional(S) == S \cup {None}
IsShares(s) == DOMAIN s \subseteq Funders /\ s \in [DOMAIN s -> Nat]
Gate == [expire_on_use : BOOLEAN, gating_time : Optional(Nat)]
Market ==
  [mutable : BOOLEAN, price : Nat, pieces : Optional(Nat),
   start_date : Nat, end_date : Optional(Nat), gate : Optional(Gate)]
Change == [mutable : Optional(BOOLEAN), price : Optional(Nat), pieces : Optional(Nat)]

ASSUME SaleAssumption ==
  /\ IsFiniteSet(Funders) /\ owner \in Funders /\ IsMutable \in BOOLEAN
  /\ IsShares(metaShares) /\ \A s \in PrimaryShares \cup GivenShares : IsShares(s)
  /\ fee \in 0 .. 10000
  /\ MaxEditions \cup Supplies \subseteq Optional(Nat) /\ InitialEditions \in Nat
  /\ Markets \subseteq Market /\ Changes \subseteq Change
  /\ initialMoney \in [Wallets -> Nat] /\ initialGateTokens \in [Wallets -> Nat]
  /\ \A n \in MaxEditions \ {None} : InitialEditions <= n
  /\ MaxU64 \in Nat /\ MaxTime \in Nat /\ MaxGifts \in Nat
  /\ None \notin PrimaryShares \cup GivenShares
  /\ None \notin Nat \cup BOOLEAN \cup Market

VARIABLES
  now,                    \* Clock::unix_timestamp
  resource_state, supply, max_supply,      \* SellingResource
  vault,                  \* is the master edition in the vault
  market, market_state, funds_collected,   \* Market
  bought,                 \* TradeHistory::already_bought
  treasury,               \* the treasury holder, beyond its minimal balance
  used,                   \* payout tickets
  primary_creators,       \* PrimaryMetadataCreators
  primary_sale_happened,  \* of the metadata of the master edition
  me_max, me_supply,      \* MasterEditionV2
  money, gate_tokens,     \* what buyers have
  got,                    \* history: what each funder was paid
  gifts                   \* history: what was sent to the treasury from outside

resourceVars == <<resource_state, supply, max_supply>>
marketVars == <<market, market_state, funds_collected>>
metadataVars == <<primary_sale_happened, me_max, me_supply>>
buyerVars == <<bought, money, gate_tokens>>
payoutVars == <<treasury, used, got, gifts>>
vars == <<now, resourceVars, vault, marketVars, buyerVars, payoutVars, primary_creators, metadataVars>>
----------------------------------------------------------------------------
Init ==
  /\ now = 0
  /\ resource_state = "Uninitialized" /\ supply = 0 /\ max_supply = None
  /\ vault = FALSE
  /\ market = None /\ market_state = "Uninitialized" /\ funds_collected = 0
  /\ bought = [w \in Wallets |-> 0]
  /\ treasury = 0
  /\ used = [f \in Funders |-> FALSE]
  /\ got = [f \in Funders |-> 0] /\ gifts = 0
  /\ primary_creators = None
  /\ primary_sale_happened \in BOOLEAN
  /\ me_max \in MaxEditions /\ me_supply = InitialEditions
  /\ money = initialMoney /\ gate_tokens = initialGateTokens

(* init_selling_resource: a limited master edition needs a limited sale.    *)
InitSellingResource(max) ==
  /\ resource_state = "Uninitialized"
  /\ primary_sale_happened \/ DOMAIN metaShares # {}
  /\ me_max # None => max # None /\ max <= me_max - me_supply
  /\ resource_state' = "Created" /\ max_supply' = max /\ vault' = TRUE
  /\ UNCHANGED <<now, supply, marketVars, buyerVars, payoutVars, primary_creators, metadataVars>>

SavePrimaryMetadataCreators(shares) ==
  /\ primary_creators = None /\ DOMAIN shares # {}
  /\ IsMutable /\ ~primary_sale_happened
  /\ primary_creators' = shares
  /\ UNCHANGED <<now, resourceVars, vault, marketVars, buyerVars, payoutVars, metadataVars>>

CreateMarket(m) ==
  /\ resource_state = "Created"
  /\ m.pieces # None /\ max_supply # None => m.pieces <= max_supply
  /\ m.start_date >= now
  /\ m.end_date # None => m.start_date <= m.end_date
  /\ (m.gate # None /\ m.gate.gating_time # None) =>
       /\ m.gate.gating_time >= m.start_date
       /\ m.end_date # None => m.gate.gating_time <= m.end_date
  /\ market' = m /\ market_state' = "Created" /\ resource_state' = "InUse"
  /\ UNCHANGED <<now, supply, max_supply, vault, funds_collected, buyerVars, payoutVars,
                 primary_creators, metadataVars>>
----------------------------------------------------------------------------
Started == market # None /\ now >= market.start_date
PastEnd == market.end_date # None /\ now > market.end_date

(* The market is over, for withdraw and claim_resource: a market with an    *)
(* end date is when that has passed, whatever its state.                    *)
Over ==
  /\ market # None
  /\ IF market.end_date # None THEN PastEnd ELSE market_state = "Ended"

(* The market still sells.  Mutant: a closed market does too.               *)
OpenUntilEndDate == Started /\ market_state # "Suspended" /\ ~PastEnd
Open ==
  /\ Started /\ market_state # "Suspended" /\ ~PastEnd
  /\ market.end_date = None => market_state # "Ended"

(* verify_gating_token                                                      *)
Gated ==
  /\ market.gate # None
  /\ market.gate.gating_time # None => now <= market.gate.gating_time

(* The buyer has not bought exactly the limit yet.                          *)
BelowLimit(w) == market.pieces # None => bought[w] # market.pieces

(* SupplyIsGtThanMaxSupply.                                                 *)
InStock == max_supply # None => supply + 1 <= max_supply

(* buy: the price is paid, the next edition is printed from the vault, and  *)
(* the last piece ends the market.                                          *)
Buy(w) ==
  LET sold_out == supply + 1 = max_supply
  IN /\ vault /\ market # None
     /\ Open /\ BelowLimit(w)
     /\ Gated => gate_tokens[w] > 0
     /\ market.price <= money[w] /\ funds_collected + market.price <= MaxU64
     /\ me_max # None => me_supply + 1 <= me_max
     /\ InStock
     /\ money' = [money EXCEPT ![w] = @ - market.price]
     /\ gate_tokens' = [gate_tokens EXCEPT ![w] =
                          IF Gated /\ market.gate.expire_on_use THEN @ - 1 ELSE @]
     /\ treasury' = treasury + market.price
     /\ funds_collected' = funds_collected + market.price
     /\ me_supply' = me_supply + 1
     /\ bought' = [bought EXCEPT ![w] = @ + 1]
     /\ supply' = supply + 1
     /\ resource_state' = IF sold_out THEN "Exhausted" ELSE resource_state
     /\ market_state' = IF sold_out THEN "Ended" ELSE "Active"
     /\ UNCHANGED <<now, max_supply, vault, market, used, got, gifts, primary_creators,
                    primary_sale_happened, me_max>>

(* Mutant: a market that has ended may be suspended.                        *)
SuspendableAlways == Started /\ market.mutable /\ market_state # "Suspended" /\ ~PastEnd
Suspendable == Started /\ market.mutable /\ market_state \notin {"Ended", "Suspended"} /\ ~PastEnd

MarketBecomes(state) ==
  /\ market_state' = state
  /\ UNCHANGED <<now, resourceVars, vault, market, funds_collected, buyerVars, payoutVars,
                 primary_creators, metadataVars>>

SuspendMarket == Suspendable /\ MarketBecomes("Suspended")

ResumeMarket ==
  /\ market # None /\ market_state = "Suspended" /\ ~PastEnd
  /\ MarketBecomes("Active")

CloseMarket == Started /\ market.end_date = None /\ MarketBecomes("Ended")

ChangeMarket(c) ==
  /\ market # None /\ market_state = "Suspended" /\ ~PastEnd
  /\ market.mutable /\ c.price # 0
  /\ market' = [market EXCEPT
       !.mutable = IF c.mutable # None THEN c.mutable ELSE @,
       !.price = IF c.price # None THEN c.price ELSE @,
       !.pieces = IF c.pieces # None THEN c.pieces ELSE @]
  /\ UNCHANGED <<now, resourceVars, vault, market_state, funds_collected, buyerVars, payoutVars,
                 primary_creators, metadataVars>>
----------------------------------------------------------------------------
(* The lists a payout may go by: until the primary sale has happened it is  *)
(* the one in whatever account the caller names, saved or not, and then the *)
(* list of the metadata.                                                    *)
Lists ==
  IF primary_sale_happened THEN {metaShares}
  ELSE GivenShares \cup ({primary_creators} \ {None})
Creators(s) == IF s = None THEN {} ELSE DOMAIN s

Royalties == (funds_collected * fee) \div 10000
CreatorShare(s, f) ==
  ((IF primary_sale_happened THEN Royalties ELSE funds_collected) * s[f]) \div 100

(* Mutant: the owner also keeps the royalties.                              *)
AllFunds == funds_collected
OwnerShare == funds_collected - Royalties

(* Market owners have a share of secondary sales only; an owner who is a    *)
(* creator gets both.  Mutant: or one of them.                              *)
Entitled(s, f) == f \in Creators(s) \/ (primary_sale_happened /\ f = owner)
AmountOnce(s, f) ==
  IF f \in Creators(s) THEN CreatorShare(s, f)
  ELSE IF primary_sale_happened /\ f = owner THEN OwnerShare ELSE 0
Amount(s, f) ==
  (IF f \in Creators(s) THEN CreatorShare(s, f) ELSE 0)
    + (IF primary_sale_happened /\ f = owner THEN OwnerShare ELSE 0)

(* The products that the shares are computed from must fit.                 *)
Fits(s, f) ==
  IF primary_sale_happened
  THEN /\ funds_collected * fee <= MaxU64
       /\ f \in Creators(s) => Royalties * s[f] <= MaxU64
  ELSE f \in Creators(s) => funds_collected * s[f] <= MaxU64

(* withdraw: anybody may pay out a funder, once.                            *)
Withdraw(f, s) ==
  /\ Over /\ Entitled(s, f) /\ ~used[f]
  /\ Fits(s, f) /\ Amount(s, f) <= treasury
  /\ treasury' = treasury - Amount(s, f)
  /\ used' = [used EXCEPT ![f] = TRUE]
  /\ got' = [got EXCEPT ![f] = Amount(s, f)]
  /\ UNCHANGED <<now, resourceVars, vault, marketVars, buyerVars, gifts, primary_creators,
                 metadataVars>>

(* Anybody may send money to the treasury holder.                           *)
Gift ==
  /\ gifts < MaxGifts
  /\ treasury' = treasury + 1 /\ gifts' = gifts + 1
  /\ UNCHANGED <<now, resourceVars, vault, marketVars, buyerVars, used, got, primary_creators,
                 metadataVars>>

(* TreasuryIsNotEmpty.                                                      *)
TreasuryEmpty == treasury = 0

ClaimResource ==
  /\ Over /\ vault /\ TreasuryEmpty
  /\ vault' = FALSE
  /\ primary_sale_happened' = TRUE
  /\ UNCHANGED <<now, resourceVars, marketVars, buyerVars, payoutVars, primary_creators,
                 me_max, me_supply>>

(* update_metadata_account by the update authority: the flag is only raised. *)
PrimarySaleHappens ==
  /\ primary_sale_happened' = TRUE
  /\ UNCHANGED <<now, resourceVars, vault, marketVars, buyerVars, payoutVars, primary_creators,
                 me_max, me_supply>>

Tick ==
  /\ now < MaxTime
  /\ now' = now + 1
  /\ UNCHANGED <<resourceVars, vault, marketVars, buyerVars, payoutVars, primary_creators, metadataVars>>

Next ==
  \/ \E max \in Supplies : InitSellingResource(max)
  \/ \E shares \in PrimaryShares : SavePrimaryMetadataCreators(shares)
  \/ \E m \in Markets : CreateMarket(m)
  \/ \E w \in Wallets : Buy(w)
  \/ SuspendMarket \/ ResumeMarket \/ CloseMarket
  \/ \E c \in Changes : ChangeMarket(c)
  \/ \E f \in Funders : \E s \in Lists : Withdraw(f, s)
  \/ Gift \/ ClaimResource \/ PrimarySaleHappens \/ Tick

(* The list in force: the saved one, then that of the metadata.             *)
SharesNow == IF primary_sale_happened THEN metaShares ELSE primary_creators
PayOut(f) == SharesNow # None /\ Withdraw(f, SharesNow)

(* Payouts need no permission, so that somebody makes those by the list in  *)
(* force; the owner claims what it may, time passes.                        *)
Spec ==
  /\ Init /\ [][Next]_vars
  /\ WF_vars(Tick) /\ WF_vars(ClaimResource)
  /\ \A f \in Funders : WF_vars(PayOut(f))
----------------------------------------------------------------------------
(***************************************************************************)
(* Safety.                                                                 *)
(***************************************************************************)
ResourceStates == {"Uninitialized", "Created", "InUse", "Exhausted"}
MarketStates == {"Uninitialized", "Created", "Suspended", "Active", "Ended"}

(* Types; pieces sold are counted alike by the resource, the buyers and the *)
(* master edition, and never exceed what was promised.                      *)
TypeOK ==
  /\ now \in 0 .. MaxTime
  /\ resource_state \in ResourceStates /\ supply \in Nat /\ max_supply \in Optional(Nat)
  /\ vault \in BOOLEAN /\ primary_sale_happened \in BOOLEAN
  /\ market \in Optional(Market) /\ market_state \in MarketStates
  /\ funds_collected \in 0 .. MaxU64 /\ treasury \in 0 .. funds_collected + gifts
  /\ bought \in [Wallets -> Nat] /\ money \in [Wallets -> Nat] /\ gate_tokens \in [Wallets -> Nat]
  /\ used \in [Funders -> BOOLEAN] /\ got \in [Funders -> Nat] /\ gifts \in 0 .. MaxGifts
  /\ primary_creators # None => IsShares(primary_creators)
  /\ max_supply # None => supply <= max_supply
  /\ me_supply = InitialEditions + supply /\ (me_max # None => me_supply <= me_max)

(* A sold out sale is over for good: neither suspension, resumption nor a   *)
(* late buyer revives it (suspend_market, resume_market, buy), so that a    *)
(* market without an end date pays out.                                     *)
SoldOutEnds == resource_state = "Exhausted" => market_state = "Ended"

(* The takings change no more once somebody has been paid by them: shares   *)
(* are computed from funds_collected, once per funder.                      *)
TakingsFinal ==
  [][(\E f \in Funders : used[f]) => funds_collected' = funds_collected]_vars

(* What a funder has by the list in force, what it is still owed of that,   *)
(* and what it was paid beyond it, by another list or before the flag rose. *)
SharesFit == SharesNow # None => SumFunction(SharesNow) <= 100
Due(f) == Amount(SharesNow, f)
Owed(f) == IF used[f] THEN 0 ELSE Due(f)
Excess(f) == IF got[f] > Due(f) THEN got[f] - Due(f) ELSE 0
TotalOwed == SumFunction([f \in Funders |-> Owed(f)])
TotalExcess == SumFunction([f \in Funders |-> Excess(f)])

(* The treasury has enough for everybody who has not been paid, whoever     *)
(* comes first, and for the gifts to it: roundings, the owner's two roles   *)
(* and the royalties never promise more than was taken.  A payout goes by   *)
(* the list its caller names (withdraw.rs:65), so what some were paid       *)
(* beyond their due may be missing, and nothing else.                       *)
EverybodyCanBePaid == SharesFit => TotalOwed + gifts <= treasury + TotalExcess

(* The master edition goes back only when nothing is owed any more but what *)
(* others were paid beyond their due.                                       *)
ClaimedWhenPaid == [][(vault /\ ~vault' /\ SharesFit) => TotalOwed + gifts <= TotalExcess]_vars

(* "Check, that user not reach buy limit" (buy.rs:75): a purchase does not  *)
(* take a buyer beyond the limit in force.                                  *)
LimitHolds ==
  [][\A w \in Wallets : (bought'[w] > bought[w] /\ market.pieces # None)
       => bought'[w] <= market.pieces]_vars
----------------------------------------------------------------------------
(***************************************************************************)
(* Liveness.                                                               *)
(***************************************************************************)

(* What keeps the treasury from being emptied: no creators saved, shares    *)
(* that leave or round off a rest, products that do not fit, a gift, and    *)
(* payouts by another list than the one in force.                           *)
Rest ==
  (IF primary_sale_happened THEN Royalties ELSE funds_collected)
    - SumFunction([f \in Creators(SharesNow) |-> CreatorShare(SharesNow, f)])
Unsettled ==
  \/ SharesNow = None \/ Rest # 0 \/ gifts > 0
  \/ \E f \in Funders : ~Fits(SharesNow, f) \/ (used[f] /\ got[f] # Due(f))

(* A market that is over is settled: nothing else stands between its owner  *)
(* and the master edition (withdraw, claim_resource).                       *)
SaleSettles == Over ~> (~vault \/ Unsettled)
=============================================================================
