--------------------------- MODULE AuctionManager ---------------------------
(***************************************************************************)
(* The auction manager (metaplex program, version 2) over the auction it   *)
(* drives and the vault it empties.  It holds the authority of both: it    *)
(* starts and ends the auction, claims the winning bids into one payment   *)
(* account, hands the prizes of the boxes to the winners and pays out what *)
(* was claimed.  The auction is the module Auction itself; the vault and   *)
(* the metadata program appear as the calls made to them.                  *)
(***************************************************************************)
EXTENDS Auction, Functions

CONSTANTS
  Seller,     \* authority of the auction manager, who made auction and vault
  Manager,    \* the program derived address that is the auction manager
  Boxes,      \* safety deposit boxes of the vault
  Order,      \* SafetyDepositBox::order of each box
  KeyBits,    \* orders whose bit is set in the byte of the manager's address at 34
  MaxRanges,  \* max_ranges the tracker account is created with
  LastPlace,  \* bound: the last winner index that anybody names
  MaxTakes,   \* bound: times that the prize of one place is taken from one box
  Plans       \* what a seller offers, see PlanType

Kinds == {"TokenOnlyTransfer", "FullRightsTransfer", "PrintingV2", "Participation"}
AmountRange == [amount : Nat, length : Nat]
Basis == 10000  \* of basis points
Creator == [share : 0 .. 100, verified : BOOLEAN, whitelisted : BOOLEAN]

(* A box: its content, the metadata of the content and its SafetyDepositConfig. *)
Prize ==
  [ type : Kinds, ranges : Seq(AmountRange), tokens : Nat,
    supply : Nat, max_supply : Nat \cup {None},
    creators : Seq(Creator) \cup {None}, fee : 0 .. Basis,
    winner_constraint : {"NoParticipationPrize", "ParticipationPrizeGiven"},
    non_winning_constraint :
      {"NoParticipationPrize", "GivenForFixedPrice", "GivenForBidPrice"},
    fixed_price : Nat \cup {None} ]

(* A plan adds the auction, whether the store is public, and the optional   *)
(* steps and payouts (place, winning item index, creator, box) asked for.   *)
PlanType ==
  [ args : AuctionArgs, public : BOOLEAN, prizes : [Boxes -> Prize],
    steps : SUBSET {"decommission", "reclaim", "sell", "own start"},
    payouts : SUBSET ((Nat \cup {None}) \X Nat \X (Nat \cup {None}) \X Boxes) ]

AuctionManagerV2 ==
  [status : {"Initialized", "Validated", "Running", "Disbursing", "Finished"},
   validated : Nat, pushed : Nat, has_participation : BOOLEAN]
BidRedemptionTicket == [won : BOOLEAN, low : SUBSET Nat, high : SUBSET Nat]
PrizeTrackingTicket == [snapshot : Nat, expected : Nat, redemptions : Nat]
PayoutTicket ==  \* with the sale flag and the number of token types that it saw
  [paid : Nat, sold : BOOLEAN, shared : Nat]

SharesOf(creators) == SumFunction([k \in DOMAIN creators |-> creators[k].share])

ASSUME ManagerAssumption ==
  /\ Authorities = {Seller, Manager} /\ Seller # Manager
  /\ None \notin {Seller, Manager} \cup Bidders
  /\ None \notin AuctionManagerV2 /\ None \notin PrizeTrackingTicket
  /\ IsFiniteSet(Boxes) /\ Order \in [Boxes -> Nat]
  /\ \A x, y \in Boxes : Order[x] = Order[y] => x = y
  /\ KeyBits \subseteq Nat
  /\ MaxRanges \in Nat /\ MaxTakes \in Nat /\ LastPlace \in Nat
  /\ \A p \in Plans : p.args.max <= LastPlace + 1
  /\ Plans \subseteq PlanType
  \* The metadata program lets nobody write other shares (ShareTotalMustBe100).
  /\ \A p \in Plans, x \in Boxes : p.prizes[x].creators # None =>
       SharesOf(p.prizes[x].creators) <= 100

VARIABLES            \* and those of Auction, whose proceeds are the account accept_payment
  plan,              \* what the seller of this behaviour offers
  vault_authority,   \* Vault::authority
  tokens,            \* what the store of each box holds
  supply,            \* MasterEdition::supply of the content of each box
  update_authority,  \* Metadata::update_authority of the content of each box
  sold,              \* Metadata::primary_sale_happened of the content of each box
  manager,           \* AuctionManagerV2, or None
  configured,        \* boxes that have a SafetyDepositConfig
  tracker,           \* amount_ranges of the AuctionWinnerTokenTypeTracker
  ticket,            \* BidRedemptionTicket of each bidder
  prize,             \* PrizeTrackingTicket of each box, or None
  collected,         \* ParticipationStateV2::collected_to_accept_payment of each box
  payouts,           \* PayoutTicket of each payout made
  takes,             \* history: times each place was served from each box
  printed,           \* history: editions printed, with their box and bidder
  misstated,         \* history: winners who said in a redemption that they lost
  withdrawn          \* history: boxes that the seller took tokens from itself

auctionState == <<now, args, authority, state, ended_at, last_bid, price_floor, bids,
                 total_uncancelled_bids, meta, pot>>
contentVars == <<vault_authority, tokens, supply, update_authority, sold>>
setupVars   == <<configured, tracker>>
moneyVars   == <<collected, payouts>>
historyVars == <<takes, printed, misstated, withdrawn>>
allVars == <<auctionState, wallet, proceeds, plan, contentVars, manager, setupVars,
          ticket, prize, moneyVars, historyVars>>

Places == 0 .. LastPlace

ManagerTypeOK ==
  /\ plan \in Plans
  /\ vault_authority \in {Seller, Manager}
  /\ tokens \in [Boxes -> Nat] /\ supply \in [Boxes -> Nat]
  /\ update_authority \in [Boxes -> {Seller, Manager} \cup Bidders]
  /\ sold \in [Boxes -> BOOLEAN]
  /\ manager \in AuctionManagerV2 \cup {None}
  /\ configured \subseteq Boxes
  /\ tracker \in Seq(AmountRange)
  /\ ticket \in [Bidders -> BidRedemptionTicket]
  /\ prize \in [Boxes -> PrizeTrackingTicket \cup {None}]
  /\ collected \in [Boxes -> Nat]
  /\ \A k \in DOMAIN payouts : payouts[k] \in PayoutTicket
  /\ takes \in [Boxes \X Places -> 0 .. MaxTakes]
  /\ printed \subseteq [box : Boxes, edition : Nat, bidder : Bidders]
  /\ misstated \subseteq Bidders
  /\ withdrawn \subseteq Boxes
----------------------------------------------------------------------------
(***************************************************************************)
(* Amount ranges.                                                          *)
(***************************************************************************)
Prizes == plan.prizes

(* The winner index at which range k begins, and the range of an index. *)
Start(ranges, k) == SumFunction([j \in 1 .. k - 1 |-> ranges[j].length])
RangesAt(ranges, i) ==
  {k \in DOMAIN ranges : i \in Start(ranges, k) .. Start(ranges, k) + ranges[k].length - 1}
AmountAt(ranges, i) == ranges[CHOOSE k \in RangesAt(ranges, i) : TRUE].amount
Due(ranges, i) == IF RangesAt(ranges, i) = {} THEN 0 ELSE AmountAt(ranges, i)

(* What the winners before index n get together: cumulative_amount for the  *)
(* index of a winner, total_amount for the number of winners.               *)
CumulativeOfWholeRanges(ranges, n) ==
  SumFunction([k \in DOMAIN ranges |->
    IF Start(ranges, k) < n THEN ranges[k].amount * ranges[k].length ELSE 0])
FirstOf(ranges, k, n) ==  \* the places of range k among the first n
  LET left == n - Start(ranges, k)
  IN IF left <= 0 THEN 0 ELSE IF left < ranges[k].length THEN left ELSE ranges[k].length
Cumulative(ranges, n) ==
  SumFunction([k \in DOMAIN ranges |-> ranges[k].amount * FirstOf(ranges, k, n)])

(* t.0 * t.1 summed over the ranges.  Mutant: the ranges' lengths are ignored. *)
TotalPerRange(ranges) == SumFunction([k \in DOMAIN ranges |-> ranges[k].amount])
TotalRequested(ranges) == SumFunction([k \in DOMAIN ranges |-> ranges[k].amount * ranges[k].length])

(* Winners before the first who gets anything; 0 when nobody does. *)
MaxBidsAllowed(ranges) ==
  LET given == {k \in DOMAIN ranges : ranges[k].amount > 0}
  IN IF given = {} THEN 0 ELSE Start(ranges, Min(given))

(* add_one_where_positive_ranges_occur: the two lists are cut at each       *)
(* other's borders, what is left of the longer range waits for its turn.    *)
OneIfAny(range) == IF range.amount > 0 THEN 1 ELSE 0

(* One cut: the heads of both lists lose what they have in common.          *)
CutHead(ranges, length) ==
  IF Head(ranges).length = length THEN Tail(ranges)
  ELSE <<[Head(ranges) EXCEPT !.length = @ - length]>> \o Tail(ranges)
Cut(c) ==
  IF c.mine = << >> \/ c.theirs = << >> THEN c
  ELSE LET m == Head(c.mine)
           t == Head(c.theirs)
           length == IF m.length < t.length THEN m.length ELSE t.length
       IN [ mine |-> CutHead(c.mine, length), theirs |-> CutHead(c.theirs, length),
            cut |-> Append(c.cut, [amount |-> m.amount + OneIfAny(t), length |-> length]) ]

(* Every cut uses up a range, so as many as there are ranges are enough.     *)
Merge(mine, theirs) ==
  LET after[n \in 0 .. Len(mine) + Len(theirs)] ==
        IF n = 0 THEN [mine |-> mine, theirs |-> theirs, cut |-> << >>] ELSE Cut(after[n - 1])
      last == after[Len(mine) + Len(theirs)]
  IN last.cut \o last.mine
       \o [k \in DOMAIN last.theirs |-> [last.theirs[k] EXCEPT !.amount = OneIfAny(last.theirs[k])]]

(* Mutant: a box is counted only where no box was counted before. *)
MergeLongest(mine, theirs) == IF mine = << >> THEN Merge(mine, theirs) ELSE mine
Merged(mine, theirs) == Merge(mine, theirs)
----------------------------------------------------------------------------
(***************************************************************************)
(* The auction as the manager reads it, straight from the account's bytes. *)
(***************************************************************************)
NumWinners ==
  IF args.kind = "OpenEdition" THEN 0 ELSE IF Len(bids) < args.max THEN Len(bids) ELSE args.max

(* Unlike BidState::is_winner these ignore the price floor. *)
WinnerAt(i) == IF i < NumWinners THEN bids[Len(bids) - i].bidder ELSE None
IndexesOf(b) == {i \in 0 .. NumWinners - 1 : WinnerAt(i) = b}
WinIndex(b) == IF IndexesOf(b) = {} THEN None ELSE Min(IndexesOf(b))

(* BidState::amount: also of bids that did not win. *)
BidAmount(i) == IF args.kind # "OpenEdition" /\ i < Len(bids) THEN bids[Len(bids) - i].amount ELSE 0

(* assert_auction_is_ended_or_valid_instant_sale.  b is the bidder whose    *)
(* metadata account is passed.                                              *)
EndedOrInstantSale(b, i) ==
  \/ state = "Ended"
  \/ /\ args.instant_sale_price # None
     /\ meta[b] # None
     /\ args.instant_sale_price <=
          IF i # None /\ i < NumWinners THEN BidAmount(i) ELSE meta[b].last_bid
----------------------------------------------------------------------------
ManagerInit ==
  /\ plan \in Plans
  /\ now = 0
  /\ args = plan.args
  /\ authority = Seller
  /\ state = "Created"
  /\ ended_at = None
  /\ last_bid = None
  /\ price_floor = plan.args.price_floor
  /\ bids = << >>
  /\ total_uncancelled_bids = 0
  /\ meta = [b \in Bidders |-> None]
  /\ pot = [b \in Bidders |-> [exists |-> FALSE, amount |-> 0, emptied |-> FALSE]]
  /\ wallet = [b \in Bidders |-> InitialBalance]
  /\ proceeds = 0
  /\ vault_authority = Seller
  /\ tokens = [x \in Boxes |-> Prizes[x].tokens]
  /\ supply = [x \in Boxes |-> Prizes[x].supply]
  /\ update_authority = [x \in Boxes |-> Seller]
  /\ sold = [x \in Boxes |-> FALSE]
  /\ manager = None
  /\ configured = {}
  /\ tracker = << >>
  /\ ticket = [b \in Bidders |-> [won |-> FALSE, low |-> {}, high |-> {}]]
  /\ prize = [x \in Boxes |-> None]
  /\ collected = [x \in Boxes |-> 0]
  /\ payouts = << >>
  /\ takes = [k \in Boxes \X Places |-> 0]
  /\ printed = {}
  /\ misstated = {}
  /\ withdrawn = {}
----------------------------------------------------------------------------
(***************************************************************************)
(* Calls of the auction program made by others than the manager.           *)
(***************************************************************************)
managerVars == <<plan, contentVars, manager, setupVars, ticket, prize, moneyVars, historyVars>>

BidOnAuction(b, amount) == PlaceBid(b, amount) /\ UNCHANGED managerVars
BidTooLate == PlaceBidTooLate /\ UNCHANGED managerVars
CancelOnAuction(b) == CancelBid(b) /\ UNCHANGED managerVars
HandOverAuction == SetAuthority(Seller, Manager) /\ UNCHANGED managerVars
StartOnAuction == "own start" \in plan.steps /\ StartAuction(Seller) /\ UNCHANGED managerVars
(* Bound: the clock only moves where something looks at it. *)
TickOnAuction == (ended_at # None \/ args.end_auction_at # None) /\ Tick /\ UNCHANGED managerVars

(* The vault program's set_authority, before there is a manager or again     *)
(* after a decommission that gave the vault back.                           *)
HandOverVault ==
  /\ vault_authority = Seller
  /\ vault_authority' = Manager
  /\ UNCHANGED <<auctionState, wallet, proceeds, plan, tokens, supply, update_authority, sold,
                 manager, setupVars, ticket, prize, moneyVars, historyVars>>

(* The vault program's withdrawal from a box, signed by the seller while the *)
(* vault is its own.  Bound: where the plan has a decommission.             *)
SellerWithdraws(x, n) ==
  /\ "decommission" \in plan.steps
  /\ vault_authority = Seller
  /\ tokens' = [tokens EXCEPT ![x] = @ - n]
  /\ withdrawn' = withdrawn \cup {x}
  /\ UNCHANGED <<auctionState, wallet, proceeds, plan, vault_authority, supply, update_authority,
                 sold, manager, setupVars, ticket, prize, moneyVars, takes, printed, misstated>>

(* A holder of a prize tells the metadata program that it was sold. *)
UpdatePrimarySaleHappened(x) ==
  /\ "sell" \in plan.steps
  /\ ~sold[x]
  /\ \E i \in Places : takes[<<x, i>>] > 0
  /\ sold' = [sold EXCEPT ![x] = TRUE]
  /\ UNCHANGED <<auctionState, wallet, proceeds, plan, vault_authority, tokens, supply,
                 update_authority, manager, setupVars, ticket, prize, moneyVars, historyVars>>
----------------------------------------------------------------------------
(***************************************************************************)
(* Setting up.                                                             *)
(***************************************************************************)
InitAuctionManagerV2 ==
  /\ manager = None
  /\ state = "Created"
  /\ {x \in Boxes : tokens[x] > 0} # {}
  /\ manager' = [status |-> "Initialized", validated |-> 0, pushed |-> 0,
                 has_participation |-> FALSE]
  /\ UNCHANGED <<auctionState, wallet, proceeds, plan, contentVars, setupVars, ticket, prize,
                 moneyVars, historyVars>>

(* assert_at_least_one_creator_matches_or_store_public_and_all_verified *)
CreatorsAllowed(creators) ==
  \/ plan.public
  \/ /\ creators # None
     /\ \E k \in DOMAIN creators : creators[k].whitelisted
     /\ \A k \in DOMAIN creators : creators[k].verified

(* assert_supply_logic_check: the box holds what the ranges promise. *)
SuppliesWinners(x) ==
  LET p == Prizes[x]
      requested == TotalRequested(p.ranges)
  IN \/ /\ p.type = "FullRightsTransfer"
        /\ update_authority[x] = Seller
        /\ tokens[x] = 1 /\ requested = 1
     \/ p.type = "TokenOnlyTransfer" /\ tokens[x] >= requested
     \/ /\ p.type = "PrintingV2"
        /\ tokens[x] = 1
        /\ IF p.max_supply = None THEN TRUE ELSE p.max_supply - supply[x] >= requested
     \/ p.type = "Participation" /\ tokens[x] = 1 /\ p.max_supply = None

(* assert_common_checks *)
CommonChecks(x) == vault_authority = Manager /\ CreatorsAllowed(Prizes[x].creators)

(* validate_safety_deposit_box_v2.  Nothing is asked of the status, so the  *)
(* last box may be validated, and mark the manager Validated, at any time.  *)
ValidateSafetyDepositBoxV2(x) ==
  LET p == Prizes[x]
      participation == p.type = "Participation"
  IN /\ manager # None
     /\ x \notin configured
     /\ CommonChecks(x)
     /\ SuppliesWinners(x)
     /\ participation => ~manager.has_participation
     /\ manager' = [manager EXCEPT
          !.validated = @ + 1,
          !.has_participation = @ \/ participation,
          !.status = IF manager.validated + 1 = Cardinality({y \in Boxes : tokens[y] > 0})
                     THEN "Validated" ELSE @]
     /\ tracker' = IF participation THEN tracker ELSE Merged(tracker, p.ranges)
     /\ Len(tracker') <= MaxRanges
     /\ configured' = configured \cup {x}
     /\ update_authority' = IF p.type = "FullRightsTransfer"
                            THEN [update_authority EXCEPT ![x] = Manager]
                            ELSE update_authority
     /\ UNCHANGED <<auctionState, wallet, proceeds, plan, vault_authority, tokens, supply, sold,
                    ticket, prize, moneyVars, historyVars>>

ManagerStartAuction ==
  /\ manager # None
  /\ manager.status = "Validated"
  /\ StartAuction(Manager)
  /\ manager' = [manager EXCEPT !.status = "Running"]
  /\ UNCHANGED <<plan, contentVars, setupVars, ticket, prize, moneyVars, historyVars>>

ManagerEndAuction ==
  /\ manager # None
  /\ manager.status # "Finished"
  /\ EndAuction(Manager)
  /\ manager' = [manager EXCEPT !.status =
                   IF args.instant_sale_price # None /\ args.kind = "OpenEdition"
                   THEN "Finished" ELSE "Disbursing"]
  /\ UNCHANGED <<plan, contentVars, setupVars, ticket, prize, moneyVars, historyVars>>

(* decommission_auction_manager; the vault goes back when its program is passed. *)
DecommissionAuctionManager(vault_back) ==
  /\ "decommission" \in plan.steps
  /\ manager # None
  /\ manager.status = "Initialized"
  /\ vault_authority = Manager
  /\ EndAuction(Manager)
  /\ manager' = [manager EXCEPT !.status = "Disbursing"]
  /\ vault_authority' = IF vault_back THEN Seller ELSE Manager
  /\ UNCHANGED <<plan, tokens, supply, update_authority, sold, setupVars, ticket, prize,
                 moneyVars, historyVars>>
----------------------------------------------------------------------------
(***************************************************************************)
(* Claiming the bids.                                                      *)
(***************************************************************************)

(* Mutant: only bidders in first place are counted. *)
PushedForFirst(b) == IF WinIndex(b) = 0 /\ ~pot[b].emptied THEN manager.pushed + 1 ELSE manager.pushed
(* mark_bid_as_claimed *)
PushedWith(b) == IF IsWinner(b) /\ ~pot[b].emptied THEN manager.pushed + 1 ELSE manager.pushed

ManagerClaimBid(b, extended) ==
  /\ manager # None
  /\ (extended /\ args.instant_sale_price # None) \/ state = "Ended"
  /\ manager' = [manager EXCEPT
       !.pushed = PushedWith(b),
       !.status = IF @ \in {"Disbursing", "Finished"} THEN @ ELSE "Disbursing"]
  /\ ClaimBid(Manager, b, extended)
  /\ UNCHANGED <<plan, contentVars, setupVars, ticket, prize, moneyVars, historyVars>>
----------------------------------------------------------------------------
(***************************************************************************)
(* Redemption tickets: a bit per order, eight bytes further on when the     *)
(* ticket holds a winner index.  The bytes at the nearer place then belong  *)
(* to the manager's address.                                               *)
(***************************************************************************)
Redeemed(b, x) == Order[x] \in IF ticket[b].won THEN ticket[b].high ELSE ticket[b].low

(* BidRedemptionTicket::save *)
Saved(b, x, i) ==
  IF i # None
  THEN [won |-> TRUE, low |-> KeyBits, high |-> ticket[b].high \cup {Order[x]}]
  ELSE [won |-> FALSE, low |-> ticket[b].low \cup {Order[x]}, high |-> ticket[b].high]

(* fast_save writes the status of which common_redeem_checks set Disbursing. *)
Disbursing == [manager EXCEPT !.status = "Disbursing"]

(* The checks shared by all redemptions of box x that b asks for at place i. *)
CommonRedeemChecks(b, x, i) ==
  /\ manager # None
  /\ meta[b] # None
  /\ x \in configured
  /\ EndedOrInstantSale(b, i)

(* The token vault's withdraw_token_from_safety_deposit_box.                  *)
Withdraw(x, n) ==
  /\ vault_authority = Manager
  /\ tokens[x] > 0 /\ n <= tokens[x]
  /\ tokens' = [tokens EXCEPT ![x] = @ - n]

Taken(x, i) ==
  /\ takes[<<x, i>>] < MaxTakes
  /\ takes' = [takes EXCEPT ![<<x, i>>] = @ + 1]

(* The prize of a place leaves a box of whole tokens for the wallet w.      *)
GiveTokens(x, i) ==
  LET p == Prizes[x]
  IN /\ RangesAt(p.ranges, i) # {}
     /\ p.type = "TokenOnlyTransfer"
     /\ Withdraw(x, AmountAt(p.ranges, i))
     /\ Taken(x, i)
     /\ UNCHANGED update_authority
GiveFullRights(x, i, w) ==
  LET p == Prizes[x]
  IN /\ RangesAt(p.ranges, i) # {}
     /\ p.type = "FullRightsTransfer"
     /\ Withdraw(x, 1)
     /\ Taken(x, i)
     /\ update_authority' = IF update_authority[x] = Manager
                            THEN [update_authority EXCEPT ![x] = w] ELSE update_authority
Give(x, i, w) == GiveTokens(x, i) \/ GiveFullRights(x, i, w)

(* redeem_bid and redeem_full_rights_transfer_bid.  A bidder who lost, or   *)
(* whose bid is cancelled, gets the ticket and nothing else.                *)
RedeemBid(b, x) ==
  LET i == WinIndex(b)
      served == i # None /\ ~meta[b].cancelled
  IN /\ CommonRedeemChecks(b, x, i)
     /\ ~Redeemed(b, x)
     /\ ticket' = [ticket EXCEPT ![b] = Saved(b, x, i)]
     /\ IF served
        THEN Give(x, i, b) /\ manager' = Disbursing
        ELSE UNCHANGED <<tokens, update_authority, takes, manager>>
     /\ UNCHANGED <<auctionState, wallet, proceeds, plan, vault_authority, supply, sold,
                    setupVars, prize, moneyVars, printed, misstated, withdrawn>>

(* redeem_unused_winning_config_items_as_auctioneer: neither a ticket nor   *)
(* the status of the auction stands in the way once nobody won the place.   *)
(* The bidder b lends its metadata account to the check of the instant price. *)
RedeemUnused(b, x, i) ==
  /\ "reclaim" \in plan.steps
  /\ manager # None
  /\ x \in configured
  /\ WinnerAt(i) = None
  /\ EndedOrInstantSale(b, i)
  /\ Give(x, i, Seller)
  /\ manager' = Disbursing
  /\ UNCHANGED <<auctionState, wallet, proceeds, plan, vault_authority, supply, sold, setupVars,
                 ticket, prize, moneyVars, printed, misstated, withdrawn>>
----------------------------------------------------------------------------
(***************************************************************************)
(* Printing from a master edition that stays in its box.                   *)
(***************************************************************************)

(* create_or_update_prize_tracking: supply and expected redemptions are     *)
(* those of the first redemption.                                           *)
Tracked(x, expected) ==
  IF prize[x] = None
  THEN [snapshot |-> supply[x], expected |-> expected, redemptions |-> 1]
  ELSE [prize[x] EXCEPT !.redemptions = @ + 1]

(* The metadata program's mint_new_edition_from_master_edition_via_vault_proxy. *)
MintEdition(x, n, b) ==
  /\ vault_authority = Manager
  /\ tokens[x] >= 1
  /\ \A e \in printed : e.box = x => e.edition # n
  /\ supply' = [supply EXCEPT ![x] = Max({@, n})]
  /\ IF Prizes[x].max_supply = None THEN TRUE ELSE supply'[x] <= Prizes[x].max_supply
  /\ printed' = printed \cup {[box |-> x, edition |-> n, bidder |-> b]}

(* The offsets printing_v2_calculation_checks accepts from a winner. *)
OffsetsOf(ranges, i) ==
  Cumulative(ranges, i) + 1 .. Cumulative(ranges, i) + AmountAt(ranges, i)

(* redeem_printing_v2_bid: the ticket is written and never read. *)
RedeemPrintingV2Bid(b, x, i) ==
  LET p == Prizes[x]
  IN /\ p.type = "PrintingV2"
     /\ CommonRedeemChecks(b, x, i)
     /\ ~meta[b].cancelled
     /\ RangesAt(p.ranges, i) # {}
     /\ prize' = [prize EXCEPT ![x] = Tracked(x, Cumulative(p.ranges, NumWinners))]
     /\ \E offset \in OffsetsOf(p.ranges, i) : MintEdition(x, offset + prize'[x].snapshot, b)
     /\ ticket' = [ticket EXCEPT ![b] = Saved(b, x, i)]
     /\ manager' = Disbursing
     /\ UNCHANGED <<auctionState, wallet, proceeds, plan, vault_authority, tokens, sold,
                    update_authority, setupVars, moneyVars, takes, misstated, withdrawn>>

(* A bidder whose bid is cancelled does nothing but the ticket. *)
RedeemPrintingCancelled(b, x, i) ==
  /\ CommonRedeemChecks(b, x, i)
  /\ meta[b].cancelled
  /\ ticket' = [ticket EXCEPT ![b] = Saved(b, x, i)]
  /\ UNCHANGED <<auctionState, wallet, proceeds, plan, contentVars, manager, setupVars, prize,
                 moneyVars, historyVars>>

GetsParticipation(b, p) ==
  IF ~meta[b].cancelled /\ WinIndex(b) # None
  THEN p.winner_constraint = "ParticipationPrizeGiven"
  ELSE p.non_winning_constraint # "NoParticipationPrize"

(* v2_validation *)
AmountToMint(p) ==
  IF p.winner_constraint = "NoParticipationPrize" THEN total_uncancelled_bids - NumWinners
  ELSE IF p.non_winning_constraint = "NoParticipationPrize" THEN NumWinners
  ELSE total_uncancelled_bids

(* charge_for_participation: the price of a bidder that names no place. *)
Price(b, p, i) ==
  IF i # None THEN 0
  ELSE IF p.fixed_price # None THEN p.fixed_price
  ELSE IF p.non_winning_constraint = "GivenForBidPrice" THEN meta[b].last_bid ELSE 0

(* redeem_participation_bid (v3): i is what the bidder says it won. *)
RedeemParticipationBid(b, x, i) ==
  LET p == Prizes[x]
      price == Price(b, p, i)
  IN /\ p.type = "Participation"
     /\ i \in IndexesOf(b) \cup {None}
     /\ CommonRedeemChecks(b, x, i)
     /\ ~Redeemed(b, x)
     /\ GetsParticipation(b, p)
     /\ AmountToMint(p) >= 0
     /\ prize' = [prize EXCEPT ![x] = Tracked(x, AmountToMint(p))]
     /\ MintEdition(x, supply[x] + 1, b)
     /\ price <= wallet[b]
     /\ wallet' = [wallet EXCEPT ![b] = @ - price]
     /\ proceeds' = proceeds + price
     /\ collected' = [collected EXCEPT ![x] = @ + price]
     /\ ticket' = [ticket EXCEPT ![b] = Saved(b, x, i)]
     /\ manager' = IF i # None THEN Disbursing ELSE manager
     /\ misstated' = IF i = None /\ WinIndex(b) # None THEN misstated \cup {b} ELSE misstated
     /\ UNCHANGED <<auctionState, plan, vault_authority, tokens, sold, update_authority, setupVars,
                    payouts, takes, withdrawn>>

(* withdraw_master_edition: may the last copy leave the box? *)
NoPrintsExpected(x) ==
  IF prize[x] = None THEN total_uncancelled_bids <= MaxBidsAllowed(Prizes[x].ranges)
  ELSE prize[x].redemptions >= prize[x].expected

(* assert_is_valid_master_edition_v2_safety_deposit *)
HoldsMasterEdition(x) == Prizes[x].type \in {"PrintingV2", "Participation"}

WithdrawMasterEdition(x) ==
  /\ manager # None
  /\ x \in configured
  /\ state = "Ended"
  /\ NoPrintsExpected(x)
  /\ HoldsMasterEdition(x)
  /\ Withdraw(x, 1)
  /\ UNCHANGED <<auctionState, wallet, proceeds, plan, vault_authority, supply, sold,
                 update_authority, manager, setupVars, ticket, prize, moneyVars, historyVars>>
----------------------------------------------------------------------------
(***************************************************************************)
(* Paying out, in basis points: the cut of all creators or of the          *)
(* auctioneer, then the share of one creator among them.                   *)
(***************************************************************************)
Numerator(p, c, happened) ==
  IF c # None THEN IF happened THEN p.fee ELSE Basis
  ELSE IF happened THEN Basis - p.fee ELSE 0
Multiplier(p, c) == IF c # None THEN p.creators[c + 1].share * 100 ELSE Basis

(* get_number_of_unique_token_types_for_this_winner, 1 for participation. *)
TokenTypes(i) == IF i = None THEN 1 ELSE AmountAt(tracker, i)
SharedBy(i) == IF i = None THEN 1 ELSE Due(tracker, i)

(* calculate_owed_amount; the second fraction is that of the first division. *)
Available(i, x) == IF i = None THEN collected[x] ELSE BidAmount(i)
ToSplit(i, c, x) ==
  Available(i, x) * Numerator(Prizes[x], c, sold[x]) * Multiplier(Prizes[x], c)
Owed(i, c, x) ==
  IF ToSplit(i, c, x) = 0 THEN 0
  ELSE (ToSplit(i, c, x) \div TokenTypes(i)) \div (Basis * Basis)

(* assert_all_bids_claimed, assert_destination_ownership_validity *)
AllBidsClaimed == manager.pushed = NumWinners
HasPayee(c, x) ==
  LET creators == Prizes[x].creators
  IN IF c = None THEN TRUE ELSE creators # None /\ c < Len(creators)

Paid(k) == IF k \in DOMAIN payouts THEN payouts[k].paid ELSE 0

(* empty_payment_account.  The box need not be one the place wins from, and  *)
(* the item index is but a part of the name of the payout ticket.           *)
EmptyPaymentAccount(i, item, c, x) ==
  LET k == <<i, item, c, x>>
  IN /\ k \in plan.payouts
     /\ manager # None
     /\ AllBidsClaimed
     /\ x \in configured
     /\ HasPayee(c, x)
     /\ IF i = None \/ ToSplit(i, c, x) = 0 THEN TRUE
        ELSE RangesAt(tracker, i) # {} /\ TokenTypes(i) > 0
     /\ Owed(i, c, x) >= Paid(k)
     /\ Owed(i, c, x) - Paid(k) <= proceeds
     /\ proceeds' = proceeds - (Owed(i, c, x) - Paid(k))
     /\ payouts' = [l \in {k} \cup DOMAIN payouts |->
          IF l = k THEN [paid |-> Owed(i, c, x), sold |-> sold[x], shared |-> SharedBy(i)]
          ELSE payouts[l]]
     /\ UNCHANGED <<auctionState, wallet, plan, contentVars, manager, setupVars, ticket, prize,
                    collected, historyVars>>
----------------------------------------------------------------------------
ManagerNext ==
  \/ \E b \in Bidders, amount \in Amounts : BidOnAuction(b, amount)
  \/ BidTooLate
  \/ \E b \in Bidders : CancelOnAuction(b)
  \/ HandOverAuction \/ StartOnAuction \/ HandOverVault \/ TickOnAuction
  \/ \E x \in Boxes : UpdatePrimarySaleHappened(x)
  \/ \E x \in Boxes : \E n \in 1 .. tokens[x] : SellerWithdraws(x, n)
  \/ InitAuctionManagerV2
  \/ \E x \in Boxes : ValidateSafetyDepositBoxV2(x)
  \/ ManagerStartAuction \/ ManagerEndAuction
  \/ \E vault_back \in BOOLEAN : DecommissionAuctionManager(vault_back)
  \/ \E b \in Bidders, extended \in BOOLEAN : ManagerClaimBid(b, extended)
  \/ \E b \in Bidders, x \in Boxes : RedeemBid(b, x)
  \/ \E b \in Bidders, x \in Boxes, i \in Places : RedeemUnused(b, x, i)
  \/ \E b \in Bidders, x \in Boxes, i \in Places :
       WinnerAt(i) = b /\ (RedeemPrintingCancelled(b, x, i) \/ RedeemPrintingV2Bid(b, x, i))
  \/ \E b \in Bidders, x \in Boxes, i \in Places \cup {None} : RedeemParticipationBid(b, x, i)
  \/ \E x \in Boxes : WithdrawMasterEdition(x)
  \/ \E k \in plan.payouts : EmptyPaymentAccount(k[1], k[2], k[3], k[4])

ManagerSpec == ManagerInit /\ [][ManagerNext]_allVars
----------------------------------------------------------------------------
(***************************************************************************)
(* Safety.                                                                 *)
(***************************************************************************)

(* What the place i gets from the box x. *)
DueAt(x, i) == Due(Prizes[x].ranges, i)

(* As long as prizes are taken only for places that something is due to and  *)
(* once for each, the box keeps all that is due to the winners who have not  *)
(* redeemed (validate_safety_deposit_box_v2 against redeem_bid and           *)
(* redeem_unused_winning_config_items_as_auctioneer), unless a seller who    *)
(* has the vault back takes from it.                                         *)
PrizesKept ==
  \A x \in configured \ withdrawn :
    ( /\ Prizes[x].type \in {"TokenOnlyTransfer", "FullRightsTransfer"}
      /\ \A i \in Places : takes[<<x, i>>] <= Min({1, DueAt(x, i)}) ) =>
        SumFunction([i \in 0 .. NumWinners - 1 |->
                       IF takes[<<x, i>>] = 0 THEN DueAt(x, i) ELSE 0]) <= tokens[x]

(* Each winner prints the editions reserved to its place, no others, and all *)
(* of them fit in the supply of the master edition whoever comes first; a    *)
(* bidder prints one participation edition, unless it once denied its place. *)
EditionsReserved ==
  \A x \in configured :
    LET mine(b) == {e.edition : e \in {f \in printed : f.box = x /\ f.bidder = b}}
    IN /\ (Prizes[x].type = "PrintingV2" /\ prize[x] # None) =>
            \A i \in 0 .. NumWinners - 1 :
              LET before == SumFunction([n \in 0 .. i - 1 |-> DueAt(x, n)])
                  first == prize[x].snapshot + before + 1
                  reserved == first .. first + DueAt(x, i) - 1
              IN /\ mine(WinnerAt(i)) \subseteq reserved
                 /\ Prizes[x].max_supply # None => \A n \in reserved : n <= Prizes[x].max_supply
       /\ Prizes[x].type = "Participation" =>
            \A b \in Bidders \ misstated : Cardinality(mine(b)) <= 1

(* In an auction without instant price the master edition stays in its box   *)
(* until every winner has printed all that is due (withdraw_master_edition). *)
MasterKept ==
  \A x \in configured :
    ( /\ Prizes[x].type = "PrintingV2"
      /\ args.instant_sale_price = None
      /\ state = "Ended"
      /\ vault_authority = Manager
      /\ tokens[x] = 0 ) =>
        Cardinality({e \in printed : e.box = x})
          = SumFunction([i \in 0 .. NumWinners - 1 |-> DueAt(x, i)])

(* What creators and auctioneer are paid for one place under one item index, *)
(* over the boxes that give something to it, is never more than its bid:     *)
(* shares, fees and the number of token types counted by the tracker add up  *)
(* (calculate_owed_amount).  The caller chooses the index and every index    *)
(* opens tickets of its own, so that all payouts of a place together are     *)
(* only within as many bids as there are indexes in use.  Payouts made       *)
(* before and after the sale flag of a box rose, or one more box was         *)
(* validated, are not compared: together they may be more than the bid.      *)
Gives(x, i) == Prizes[x].type # "Participation" /\ DueAt(x, i) > 0
Items == {k[2] : k \in DOMAIN payouts}
PayoutsFor(i, item) == {k \in DOMAIN payouts : k[1] = i /\ k[2] = item /\ Gives(k[4], i)}
PaidFor(i, item) ==
  SumFunctionOnSet([k \in PayoutsFor(i, item) |-> payouts[k].paid], PayoutsFor(i, item))
PaidWithinBid ==
  \A i \in 0 .. NumWinners - 1, item \in Items :
    (\A k \in PayoutsFor(i, item) : /\ payouts[k].sold = sold[k[4]]
                                    /\ payouts[k].shared = Due(tracker, i)) =>
      PaidFor(i, item) <= BidAmount(i)

(* Payouts are open exactly when the pot of every place that wins is emptied, *)
(* by whomever and in whatever order, before the end or after it: the manager *)
(* has counted each of them once (mark_bid_as_claimed, assert_all_bids_claimed). *)
PayoutsOpen ==
  manager # None =>
    (AllBidsClaimed <=> \A i \in 0 .. NumWinners - 1 : pot[WinnerAt(i)].emptied)

(* What the comments say of redemptions and the code does not do:            *)
(* "We also still make sure this prize hasnt been claimed more than once"    *)
(* (redeem_unused_winning_config_items_as_auctioneer.rs:20).                 *)
ClaimedOnce == \A x \in Boxes, i \in Places : takes[<<x, i>>] <= 1
============================================================================
