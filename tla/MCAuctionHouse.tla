--------------------------- MODULE MCAuctionHouse ---------------------------
(* Small instances of the auction house program for TLC. *)
EXTENDS AuctionHouse

CONSTANTS seller, buyer, c1, c2

(* A house that reprices, and one that insists on its signature and, with   *)
(* the royalties, asks for more than a price of 2.                          *)
MCHouses ==
  { [seller_fee_basis_points |-> 3000, requires_sign_off |-> FALSE, can_change_sale_price |-> TRUE],
    [seller_fee_basis_points |-> 10000, requires_sign_off |-> TRUE, can_change_sale_price |-> FALSE] }
MCScopes == {Scopes, {"PublicBuy", "ExecuteSale"}}
(* Shares that leave dust. *)
MCShare == [c \in Creators |-> IF c = c1 THEN 60 ELSE 40]
MCTokens == [w \in Wallets |-> IF w = seller THEN 2 ELSE 0]
MCMoney == [w \in Wallets |-> IF w = seller THEN 0 ELSE 5]

(* Two tokens for nothing, for 5 and at auction, and one for 4 by either.   *)
MCListings ==
  {Listing(seller, p, 2) : p \in {0, 5, MaxPrice}} \cup {Listing(w, 4, 1) : w \in Wallets}
(* Both for 5 or one at the unit price of 2, from the seller or anybody.    *)
MCBids ==
  [wallet : {buyer}, account : {seller, Any}, price : {5}, size : {2}] \cup
  [wallet : {buyer}, account : {seller, Any}, price : {2}, size : {1}]
=============================================================================
