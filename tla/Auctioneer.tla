----------------------------- MODULE Auctioneer -----------------------------
(***************************************************************************)
(* The auctioneer program: timed auctions on an auction house.  It keeps a *)
(* listing configuration for every lot and passes each instruction on to   *)
(* the auctioneer's handlers of the house (module AuctionHouse), in the    *)
(* same transaction: if the house refuses, the configuration is unchanged. *)
(* Other programs and wallets may still use the direct handlers of the     *)
(* house where its scopes let them.                                        *)
(***************************************************************************)
EXTENDS AuctionHouse

CONSTANTS
  Configs,   \* arguments of auctioneer_sell
  MaxTime    \* bound: the clock stops here

ConfigArgs ==
  [start_time : Int, end_time : Int, reserve_price : Nat, min_bid_increment : Nat,
   time_ext_period : Nat, time_ext_delta : Nat, allow_high_bid_cancel : BOOLEAN]
NoBid == [amount |-> 0, buyer_trade_state |-> None]
HighestBid == [amount : Nat, buyer_trade_state : TradeState \cup {None}]

ASSUME AuctioneerAssumption ==
  /\ Configs \subseteq ConfigArgs /\ None \notin TradeState
  /\ MaxTime \in Nat

VARIABLES
  now,             \* Clock::unix_timestamp
  listing_config,  \* lots with a ListingConfig, and what it was created with
  end_time,        \* ListingConfig::end_time, which bids extend
  highest_bid,     \* ListingConfig::highest_bid
  offers           \* history: the bids each auction has taken

lotVars == <<listing_config, end_time, highest_bid, offers>>
auctioneerVars == <<vars, now, lotVars>>

(* The seeds of a ListingConfig: owner of the token account, and size.      *)
Lots == {<<l.wallet, l.size>> : l \in Listings}
LotOf(ts, owner) == <<owner, ts.size>>
Listed(lot) == lot \in Lots /\ listing_config[lot] # None

(* Types of the house and of the lots. *)
LotsOK ==
  /\ TypeOK
  /\ now \in 0 .. MaxTime
  /\ listing_config \in [Lots -> Configs \cup {None}]
  /\ end_time \in [Lots -> Int]
  /\ highest_bid \in [Lots -> HighestBid]
----------------------------------------------------------------------------
(* assert_auction_active and assert_auction_over: the last second is both.  *)
Active(lot) == listing_config[lot].start_time <= now /\ now <= end_time[lot]
Over(lot) == now >= end_time[lot]

(* assert_higher_bid and assert_exceeds_reserve_price.  Mutant: the amount  *)
(* of the highest bid is not asked for.                                     *)
AnyBidAboveReserve(lot, price) == price >= listing_config[lot].reserve_price
Outbids(lot, price) ==
  LET highest == highest_bid[lot].amount
  IN /\ price > highest
     /\ highest > 0 => price >= highest + listing_config[lot].min_bid_increment
     /\ price >= listing_config[lot].reserve_price

(* process_time_extension: a bid in the last period adds the delta.         *)
ExtendedEnd(lot) ==
  IF now >= end_time[lot] - listing_config[lot].time_ext_period
  THEN end_time[lot] + listing_config[lot].time_ext_delta ELSE end_time[lot]

(* The highest bid may be held fast.  Mutant: it never is.                  *)
NeverHeld(lot, ts) == FALSE
HeldFast(lot, ts) ==
  ~listing_config[lot].allow_high_bid_cancel /\ ts = highest_bid[lot].buyer_trade_state
----------------------------------------------------------------------------
AuctioneerInit ==
  /\ Init
  /\ now = 0
  /\ listing_config = [lot \in Lots |-> None]
  /\ end_time = [lot \in Lots |-> 0]
  /\ highest_bid = [lot \in Lots |-> NoBid]
  /\ offers = [lot \in Lots |-> {}]

(* auctioneer_sell: the wallet pays for the configuration, so it signs.     *)
AuctioneerSell(l, c, auth) ==
  LET lot == LotOf(l, l.wallet)
  IN /\ Sell(TRUE, l, TRUE, auth)
     /\ ~Listed(lot)
     /\ listing_config' = [listing_config EXCEPT ![lot] = c]
     /\ end_time' = [end_time EXCEPT ![lot] = c.end_time]
     /\ highest_bid' = [highest_bid EXCEPT ![lot] = NoBid]
     /\ offers' = [offers EXCEPT ![lot] = {}]
     /\ UNCHANGED now

(* auctioneer_buy: bids on the token account of the seller; the signature   *)
(* of the authority is not passed on to the house.                          *)
AuctioneerBuy(t) ==
  LET lot == LotOf(t, t.account)
  IN /\ Listed(lot)
     /\ Active(lot) /\ Outbids(lot, t.price)
     /\ Bid(TRUE, t, FALSE)
     /\ end_time' = [end_time EXCEPT ![lot] = ExtendedEnd(lot)]
     /\ highest_bid' = [highest_bid EXCEPT ![lot] = [amount |-> t.price, buyer_trade_state |-> t]]
     /\ offers' = [offers EXCEPT ![lot] = @ \cup {t}]
     /\ UNCHANGED <<now, listing_config>>

(* auctioneer_cancel for a bid or the listing; the highest bid and the      *)
(* configuration stay as they are.                                          *)
AuctioneerCancel(ts, o, wallet_signs, auth) ==
  LET lot == LotOf(ts, o)
  IN /\ Listed(lot)
     /\ ~HeldFast(lot, ts)
     /\ Cancel(TRUE, ts, o, wallet_signs, auth)
     /\ UNCHANGED <<now, lotVars>>

(* auctioneer_deposit, which does not pass on the authority's signature     *)
(* either.                                                                  *)
AuctioneerDeposit(w, n) == Deposit(TRUE, w, n, FALSE) /\ UNCHANGED <<now, lotVars>>

AuctioneerWithdraw(w, n, wallet_signs, auth) ==
  Withdraw(TRUE, w, n, wallet_signs, auth) /\ UNCHANGED <<now, lotVars>>

(* auctioneer_execute_sale, which closes the configuration.                 *)
AuctioneerExecuteSale(l, t, seller_signs, buyer_signs, auth) ==
  LET lot == LotOf(t, l.wallet)
  IN /\ Listed(lot)
     /\ Over(lot) /\ t = highest_bid[lot].buyer_trade_state
     /\ ExecuteSale(TRUE, l, t, FALSE, seller_signs, buyer_signs, auth)
     /\ listing_config' = [listing_config EXCEPT ![lot] = None]
     /\ UNCHANGED <<now, end_time, highest_bid, offers>>

Tick ==
  /\ now < MaxTime
  /\ now' = now + 1
  /\ UNCHANGED <<vars, lotVars>>

(* The handlers of the house that need no auctioneer.                       *)
Direct ==
  \/ \E c \in Houses : CreateHouse(c) \/ UpdateHouse(c)
  \/ \E sc \in ScopeChoices : DelegateAuctioneer(sc) \/ UpdateAuctioneer(sc)
  \/ \E n \in Amounts : WithdrawFromTreasury(n)
  \/ \E auth \in BOOLEAN, w \in Wallets, n \in Amounts : Deposit(FALSE, w, n, auth)
  \/ \E auth, signs \in BOOLEAN, w \in Wallets, n \in Amounts : Withdraw(FALSE, w, n, signs, auth)
  \/ \E w \in Wallets : CloseEscrow(w)
  \/ \E auth, signs \in BOOLEAN, l \in Listings : Sell(FALSE, l, signs, auth)
  \/ \E auth \in BOOLEAN, t \in Bids : Bid(FALSE, t, auth)
  \/ \E auth, signs \in BOOLEAN, ts \in trade_states, o \in Wallets :
       Cancel(FALSE, ts, o, signs, auth)
  \/ \E auth, ss, bs, partial \in BOOLEAN, l, t \in trade_states :
       ExecuteSale(FALSE, l, t, partial, ss, bs, auth)
  \/ \E w, v \in Wallets, n \in Amounts : Move(w, v, n)

AuctioneerNext ==
  \/ \E l \in Listings, c \in Configs, auth \in BOOLEAN : AuctioneerSell(l, c, auth)
  \/ \E t \in Bids : AuctioneerBuy(t)
  \/ \E ts \in trade_states, o \in Wallets, signs, auth \in BOOLEAN :
       AuctioneerCancel(ts, o, signs, auth)
  \/ \E w \in Wallets, n \in Amounts : AuctioneerDeposit(w, n)
  \/ \E w \in Wallets, n \in Amounts, signs, auth \in BOOLEAN : AuctioneerWithdraw(w, n, signs, auth)
  \/ \E l, t \in trade_states, ss, bs, auth \in BOOLEAN : AuctioneerExecuteSale(l, t, ss, bs, auth)
  \/ Direct /\ UNCHANGED <<now, lotVars>>
  \/ Tick

(* Time passes, and somebody executes the sale when it may be executed.     *)
AuctioneerSpec ==
  /\ AuctioneerInit /\ [][AuctioneerNext]_auctioneerVars
  /\ WF_auctioneerVars(Tick)
  /\ WF_auctioneerVars(\E l, t \in trade_states, ss, bs, auth \in BOOLEAN :
                         AuctioneerExecuteSale(l, t, ss, bs, auth))
----------------------------------------------------------------------------
(***************************************************************************)
(* Safety.                                                                 *)
(***************************************************************************)

(* "The highest bidder is not allowed to cancel" (errors.rs:42): where the  *)
(* lot says so and the house leaves bids and cancellations to the           *)
(* auctioneer, the highest bid of a listed lot is still there, whatever is  *)
(* cancelled, relisted, sold and bid directly in between.                   *)
HighestBidStands ==
  \A lot \in Lots :
    LET ts == highest_bid[lot].buyer_trade_state
    IN (Listed(lot) /\ ~listing_config[lot].allow_high_bid_cancel /\ ts # None)
         => ts \in trade_states

(* An auction sells to the highest of the bids it has taken, for that price. *)
SoldToTheHighest ==
  [][\A lot \in Lots : (Listed(lot) /\ listing_config'[lot] = None) =>
       \E t \in offers[lot] :
         /\ \A u \in offers[lot] : u.price <= t.price
         /\ escrow'[t.wallet] = escrow[t.wallet] - t.price
         /\ tokens'[t.wallet] = tokens[t.wallet] + t.size]_auctioneerVars

----------------------------------------------------------------------------
(***************************************************************************)
(* Liveness.                                                               *)
(***************************************************************************)

(* What may keep an auction from its sale: the seller cancels, sells or     *)
(* moves the tokens, the buyer takes its money back, or the highest bid     *)
(* where that is allowed; and the clock of the model runs out.              *)
Obstructed(lot) ==
  LET t == highest_bid[lot].buyer_trade_state
      s == lot[1]
  IN /\ t # None
     /\ \/ Listing(s, MaxPrice, lot[2]) \notin trade_states
        \/ tokens[s] < lot[2] \/ approved[s] = None \/ approved[s] < lot[2]
        \/ approved[t.wallet] # None \/ escrow[t.wallet] < t.price
        \/ listing_config[lot].allow_high_bid_cancel /\ t \notin trade_states
        \/ end_time[lot] > MaxTime

(* An auction with a bid is concluded: neither earlier auctions of the lot, *)
(* nor outbid and direct bids, nor an extension keep the highest bid from   *)
(* being executed (auctioneer_execute_sale and the house's handler).        *)
AuctionConcludes ==
  \A lot \in Lots :
    (Listed(lot) /\ highest_bid[lot] # NoBid) ~> (~Listed(lot) \/ Obstructed(lot))
=============================================================================
