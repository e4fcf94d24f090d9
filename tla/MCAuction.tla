----------------------------- MODULE MCAuction -----------------------------
(* Small instances of the auction program for TLC. *)
EXTENDS Auction

Base ==
  [ kind |-> "EnglishAuction", max |-> 1, end_auction_at |-> None, end_auction_gap |-> None,
    price_floor |-> [kind |-> "None", price |-> 0], tick_size |-> None,
    gap_tick_size_percentage |-> None, instant_sale_price |-> None ]

(* One winner, an end time, and a gap in which a bid must beat by half.       *)
GapAuction == [Base EXCEPT !.end_auction_at = 1, !.end_auction_gap = 1,
                           !.gap_tick_size_percentage = 50]
(* One winner, a hidden reserve, ended by the authority, a gap after the bid. *)
BlindedAuction == [Base EXCEPT !.price_floor = [kind |-> "Blinded", price |-> 2],
                               !.end_auction_gap = 1]
(* Two winners, a minimum price, an instant sale price, an end time.          *)
InstantAuction == [Base EXCEPT !.max = 2, !.end_auction_at = 1, !.instant_sale_price = 2,
                               !.price_floor = [kind |-> "Minimum", price |-> 1]]
(* No winner can be named; a tick of two.                                     *)
EmptyAuction == [Base EXCEPT !.max = 0, !.end_auction_at = 1, !.tick_size = 2]
NoWinnerInstant == [EmptyAuction EXCEPT !.instant_sale_price = 2]
OpenEdition == [Base EXCEPT !.kind = "OpenEdition", !.end_auction_at = 1]

MCArgs == {GapAuction, BlindedAuction, InstantAuction, EmptyAuction, NoWinnerInstant, OpenEdition}
============================================================================
