---------------------------- MODULE MCAuctioneer ----------------------------
(* A small instance of the auctioneer on an auction house for TLC. *)
EXTENDS Auctioneer

CONSTANTS seller, b1, b2

MCHouses ==
  { [seller_fee_basis_points |-> 5000, requires_sign_off |-> FALSE, can_change_sale_price |-> TRUE] }
MCScopes == {Scopes}
MCShare == [c \in Creators |-> 0]
MCTokens == [w \in Wallets |-> IF w = seller THEN 1 ELSE 0]
MCMoney == [w \in Wallets |-> IF w = seller THEN 0 ELSE 2]

(* The token at auction, and by the direct handler for 2.                   *)
MCListings == {Listing(seller, p, 1) : p \in {2, MaxPrice}}
(* One bids 1 or 2, the other 2.                                            *)
MCBids ==
  [wallet : {b1}, account : {seller}, price : {1, 2}, size : {1}] \cup
  [wallet : {b2}, account : {seller}, price : {2}, size : {1}]

(* A bid in the last second extends the first auction; the highest bid of   *)
(* the second may be cancelled.                                             *)
MCConfigs ==
  { [start_time |-> 0, end_time |-> 1, reserve_price |-> 1, min_bid_increment |-> 1,
     time_ext_period |-> 0, time_ext_delta |-> 1, allow_high_bid_cancel |-> FALSE],
    [start_time |-> 1, end_time |-> 1, reserve_price |-> 0, min_bid_increment |-> 0,
     time_ext_period |-> 0, time_ext_delta |-> 0, allow_high_bid_cancel |-> TRUE] }
=============================================================================
