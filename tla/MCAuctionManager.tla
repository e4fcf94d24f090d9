------------------------- MODULE MCAuctionManager -------------------------
(* A small instance of AuctionManager: two bidders, two boxes, and a plan for every
   kind of prize; each behaviour follows one plan. *)
EXTENDS AuctionManager

CONSTANTS x1, x2

MCOrder == (x1 :> 0) @@ (x2 :> 1)

English == [kind |-> "EnglishAuction", max |-> 2, end_auction_at |-> None,
            end_auction_gap |-> None, price_floor |-> [kind |-> "None", price |-> 0],
            tick_size |-> None, gap_tick_size_percentage |-> None, instant_sale_price |-> None]
OneWinner == [English EXCEPT !.max = 1, !.end_auction_at = 0,
                             !.price_floor = [kind |-> "Minimum", price |-> 2]]
Instant == [English EXCEPT !.instant_sale_price = 2]
Hidden == [English EXCEPT !.price_floor = [kind |-> "Blinded", price |-> 3]]
Open == [English EXCEPT !.kind = "OpenEdition", !.instant_sale_price = 2, !.end_auction_at = None]
FirstOnly == [English EXCEPT !.max = 1]
MCArgs == {English, FirstOnly, OneWinner, Instant, Hidden, Open}

Each(amount, length) == [amount |-> amount, length |-> length]
Two == <<[share |-> 50, verified |-> TRUE, whitelisted |-> TRUE],
         [share |-> 50, verified |-> TRUE, whitelisted |-> FALSE]>>
One == <<[share |-> 100, verified |-> TRUE, whitelisted |-> TRUE]>>
Unknown == <<[share |-> 100, verified |-> FALSE, whitelisted |-> TRUE]>>

Nothing == [type |-> "TokenOnlyTransfer", ranges |-> <<Each(0, 2)>>, tokens |-> 0, supply |-> 0,
            max_supply |-> None, creators |-> Two, fee |-> 1000,
            winner_constraint |-> "NoParticipationPrize",
            non_winning_constraint |-> "NoParticipationPrize", fixed_price |-> None]
Coins == [Nothing EXCEPT !.ranges = <<Each(1, 2)>>, !.tokens = 3]
OneForFirst == [Nothing EXCEPT !.type = "FullRightsTransfer", !.ranges = <<Each(1, 1), Each(0, 1)>>,
                               !.tokens = 1]
Prints == [Nothing EXCEPT !.type = "PrintingV2", !.ranges = <<Each(2, 1), Each(1, 1)>>,
                          !.tokens = 1, !.supply = 1, !.max_supply = 4]
PrintsForSecond == [Prints EXCEPT !.ranges = <<Each(0, 1), Each(1, 1)>>, !.max_supply = None]
Thanks == [Nothing EXCEPT !.type = "Participation", !.ranges = << >>, !.tokens = 1,
                          !.winner_constraint = "ParticipationPrizeGiven",
                          !.non_winning_constraint = "GivenForBidPrice"]
Consolation == [Thanks EXCEPT !.winner_constraint = "NoParticipationPrize",
                              !.non_winning_constraint = "GivenForFixedPrice", !.fixed_price = 1]

Plan(a, p1, p2, steps, payouts_) ==
  [args |-> a, public |-> FALSE, prizes |-> (x1 :> p1) @@ (x2 :> p2), steps |-> steps,
   payouts |-> payouts_]

MCPlans ==
  { Plan(English, Coins, OneForFirst, {"reclaim"}, {}),
    Plan(English, [OneForFirst EXCEPT !.creators = One], OneForFirst, {"sell", "own start"},
         {<<0, 0, 0, x1>>, <<0, 0, None, x2>>}),
    Plan(OneWinner, [OneForFirst EXCEPT !.creators = One], [Coins EXCEPT !.creators = One], {},
         {<<0, 0, 0, x1>>, <<0, 1, 0, x1>>, <<0, 1, 0, x2>>}),
    Plan(English, Prints, Nothing, {}, {}),
    Plan(FirstOnly, Nothing, Thanks, {}, {<<None, 0, 0, x2>>}),
    Plan(OneWinner, PrintsForSecond, Consolation, {}, {<<None, 0, 0, x2>>}),
    Plan(English, PrintsForSecond, Nothing, {"own start"}, {}),
    Plan(Instant, Prints, Coins, {"reclaim"}, {<<0, 0, 0, x1>>}),
    Plan(Hidden, Coins, Prints, {}, {<<0, 0, 0, x1>>}),
    Plan(Open, Thanks, Nothing, {}, {}),
    Plan(English, OneForFirst, [Coins EXCEPT !.creators = None], {"decommission", "reclaim"}, {}),
    Plan(English, [Coins EXCEPT !.tokens = 1], Nothing, {}, {}),
    Plan(English, Nothing, [Prints EXCEPT !.ranges = <<Each(1, 2)>>, !.max_supply = None], {}, {}),
    Plan(English, [Coins EXCEPT !.creators = Unknown], [Prints EXCEPT !.max_supply = 3], {}, {}) }

(* The amounts of the places written out one by one, by the meaning of the ranges. *)
WrittenOut(ranges) ==
  FlattenSeq([k \in DOMAIN ranges |-> [j \in 1 .. ranges[k].length |-> ranges[k].amount]])
PlaceIn(each, i) == IF i < Len(each) THEN each[i + 1] ELSE 0

(* Two lists of at most two ranges: a place gets what is written out for it, and a
   merged list counts at each place the lists that give something there. *)
SomeRanges == UNION {[1 .. n -> [amount : 0 .. 2, length : 0 .. 2]] : n \in 0 .. 2}
ASSUME RangesMeanPlaces ==
  \A r \in SomeRanges : \A i \in 0 .. 5 : Due(r, i) = PlaceIn(WrittenOut(r), i)
ASSUME MergedCountsLists ==
  \A r, t \in SomeRanges : \A i \in 0 .. 4 :
    Due(Merge(r, t), i) = Due(r, i) + OneIfAny([amount |-> Due(t, i)])

==========================================================================
