--------------------------- MODULE MCCandyMachine ---------------------------
(* Small instances of the candy machine program for TLC. *)
EXTENDS CandyMachine
CONSTANTS a, w
Base ==
  [ price |-> 1, go_live_date |-> 0, end_settings |-> [kind |-> "None", number |-> 0],
    hidden_settings |-> FALSE, whitelist_mint_settings |-> None, items_available |-> 2,
    gatekeeper |-> FALSE, retain_authority |-> TRUE ]
(* Two lines; the same before going live; four lines in two bytes, sold for  *)
(* nothing; two and three numbered NFTs with a presale at a discount, and a  *)
(* forced whitelist that ends by an amount; one that ends by a date.         *)
Hidden == [Base EXCEPT !.hidden_settings = TRUE]
Presale == [burn |-> TRUE, presale |-> TRUE, discount_price |-> 0]
Forced == [burn |-> FALSE, presale |-> FALSE, discount_price |-> None]
MCSale ==
  { Base,
    [Base EXCEPT !.go_live_date = None, !.retain_authority = FALSE],
    [Base EXCEPT !.price = 0, !.items_available = 4, !.retain_authority = FALSE],
    [Hidden EXCEPT !.go_live_date = 1, !.whitelist_mint_settings = Presale],
    [Hidden EXCEPT !.items_available = 3, !.whitelist_mint_settings = Forced,
                   !.end_settings = [kind |-> "Amount", number |-> 2]],
    [Hidden EXCEPT !.items_available = 1, !.end_settings = [kind |-> "Date", number |-> 1]] }
MCFreezeData ==
  { Base, Hidden,
    [Hidden EXCEPT !.items_available = 1, !.end_settings = [kind |-> "Date", number |-> 1]] }
MCTickets == [x \in Wallets |-> IF x = w THEN 1 ELSE 0]
=============================================================================
