------------------------------ MODULE Auction ------------------------------
(***************************************************************************)
(* The auction program: one auction of one resource, the escrow pot and    *)
(* the metadata account of every bidder, and the cluster clock.  A Solana  *)
(* transaction is atomic and a handler that returns an error changes       *)
(* nothing, so every instruction is one action whose guard collects the    *)
(* checks of the handler.                                                  *)
(***************************************************************************)
EXTENDS Integers, Sequences, FiniteSets, FiniteSetsExt, SequencesExt

CONSTANTS
  Bidders,         \* wallets that may bid
  Authorities,     \* wallets that may hold the authority of the auction
  Amounts,         \* amounts passed to PlaceBid
  AuctionArgs,     \* argument records passed to CreateAuction(V2)
  InitialBalance,  \* tokens every bidder starts with
  MinSlots,        \* the 8 of max_array_size_for
  MaxTime,         \* bound: the clock stops here
  None             \* Option::None

AuctionArgsType ==
  [ kind : {"EnglishAuction", "OpenEdition"},
    max : Nat,
    end_auction_at : Nat \cup {None},
    end_auction_gap : Nat \cup {None},
    price_floor : [kind : {"None", "Minimum", "Blinded"}, price : Nat],
    tick_size : Nat \cup {None},
    gap_tick_size_percentage : Nat \cup {None},
    instant_sale_price : Nat \cup {None} ]

Bid == [bidder : Bidders, amount : Nat]
BidderMetadata == [last_bid : Nat, last_bid_timestamp : Nat, cancelled : BOOLEAN]
BidderPot == [exists : BOOLEAN, amount : Nat, emptied : BOOLEAN]

ASSUME AuctionAssumption ==
  /\ None \notin Int
  /\ None \notin BidderMetadata
  /\ IsFiniteSet(Bidders)
  /\ Amounts \subseteq Nat
  /\ AuctionArgs \subseteq AuctionArgsType
  /\ None \notin AuctionArgs
  /\ InitialBalance \in Nat
  /\ MinSlots \in Nat \ {0}
  /\ MaxTime \in Nat

VARIABLES
  now,                     \* Clock::unix_timestamp
  args,                    \* immutable part of AuctionData and AuctionDataExtended
  authority, state, ended_at, last_bid, price_floor, bids,   \* AuctionData
  total_uncancelled_bids,  \* AuctionDataExtended
  meta,                    \* BidderMetadata of each bidder, or None
  pot,                     \* BidderPot of each bidder with its token account
  wallet,                  \* token account of each bidder
  proceeds                 \* token account the authority claims into

auctionVars == <<args, authority, state, ended_at, last_bid, price_floor, bids>>
bidderVars  == <<meta, pot, wallet>>
vars == <<now, auctionVars, total_uncancelled_bids, bidderVars, proceeds>>

(* Types of the variables, and the fields each phase of the auction has set. *)
TypeOK ==
  /\ now \in Nat
  /\ state \in {"Missing", "Created", "Started", "Ended"}
  /\ args \in AuctionArgs \cup {None}
  /\ (args = None) = (state = "Missing")
  /\ authority \in Authorities \cup {None}
  /\ ended_at \in Nat \cup {None}
  /\ last_bid \in Nat \cup {None}
  /\ price_floor \in [kind : {"None", "Minimum", "Blinded"}, price : Nat]
  /\ bids \in Seq(Bid)
  /\ total_uncancelled_bids \in Nat
  /\ meta \in [Bidders -> BidderMetadata \cup {None}]
  /\ pot \in [Bidders -> BidderPot]
  /\ wallet \in [Bidders -> Nat]
  /\ proceeds \in Nat
----------------------------------------------------------------------------
(***************************************************************************)
(* AuctionData and BidState.                                               *)
(***************************************************************************)
IsEnglish == args.kind = "EnglishAuction"

(* AuctionData::ended: past the end time, and past the gap after the last bid. *)
Ended ==
  /\ ended_at # None
  /\ now > ended_at
  /\ (args.end_auction_gap # None /\ last_bid # None)
       => now > last_bid + args.end_auction_gap

Minimum == IF price_floor.kind = "Minimum" THEN price_floor.price ELSE 0

(* The places of the list that BidState::is_winner accepts for the bidder. *)
PlacesOf(b) == {i \in DOMAIN bids : bids[i].bidder = b /\ bids[i].amount >= Minimum}

(* The highest bid is last, so the first max places are counted from the end. *)
IsWinner(b) ==
  /\ state # "Missing"
  /\ IsEnglish
  /\ PlacesOf(b) # {}
  /\ Len(bids) - Min(PlacesOf(b)) < args.max

WinningAmount(b) == bids[Min(PlacesOf(b))].amount

PaysInstantPrice(b) ==
  args.instant_sale_price # None /\ WinningAmount(b) >= args.instant_sale_price

Winners == {b \in Bidders : IsWinner(b)}

(* max_array_size_for: the number of bids the account has room for. *)
Slots == IF args.max < MinSlots THEN MinSlots ELSE 2 * args.max

(* An amount above the instant sale price is reduced to it. *)
BidPrice(amount) ==
  IF args.instant_sale_price # None /\ amount > args.instant_sale_price
  THEN args.instant_sale_price ELSE amount

(* checked_rem: a tick of zero divides nothing. *)
ValidTick(amount) ==
  args.tick_size # None => args.tick_size > 0 /\ amount % args.tick_size = 0

(* The percentage applies only between the end time and the end of the gap. *)
GapTick == IF ended_at # None /\ now > ended_at THEN args.gap_tick_size_percentage ELSE None

(* The scan from the top first meets the highest bid that is not above the  *)
(* new one: with a gap tick that bid must be beaten by the percentage.      *)
ValidGap(amount) ==
  LET met == {i \in DOMAIN bids : bids[i].amount <= amount}
  IN (GapTick # None /\ met # {}) =>
       LET beaten == bids[Max(met)].amount
       IN IF beaten = amount THEN GapTick = 0
          ELSE (beaten * (100 + GapTick)) \div 100 <= amount

(* Where the scan stops: a lower bid, or the first of the bids equal to the new one. *)
ScanStops(amount) ==
  {i \in DOMAIN bids :
     \/ bids[i].amount < amount
     \/ bids[i].amount = amount /\ (i = 1 \/ bids[i - 1].amount # amount)}

(* Mutant: an equal bid is placed above the earlier ones. *)
InsertPlaceAboveEqual(amount) ==
  Cardinality({i \in DOMAIN bids : bids[i].amount <= amount}) + 1

InsertPlace(amount) ==
  IF ScanStops(amount) = {} THEN 1
  ELSE LET i == Max(ScanStops(amount))
       IN IF bids[i].amount < amount THEN i + 1 ELSE i

(* BidState::place_bid: insert, then drop the lowest bid when out of room. *)
WithBid(bid) ==
  LET inserted == InsertAt(bids, InsertPlace(bid.amount), bid)
  IN IF ~IsEnglish THEN bids
     ELSE IF bids # << >> /\ Len(inserted) > Slots THEN Tail(inserted)
     ELSE inserted

(* Mutant: the cancelled bid stays in the list. *)
WithoutNobody(b) == bids

(* BidState::cancel_bid retains the bids of the other bidders.  A bidder has *)
(* at most one bid in the list (invariant OneBidPerBidder).                  *)
WithoutBidder(b) ==
  LET own == {i \in DOMAIN bids : bids[i].bidder = b}
  IN IF ~IsEnglish \/ own = {} THEN bids ELSE RemoveAt(bids, Min(own))

(* A bidder whose last bid is not cancelled may not bid again.  Mutant: may. *)
MayAlwaysBid(b) == TRUE
MayBid(b) == meta[b] # None => meta[b].cancelled

(* Winners may not cancel once the time is over, nor ever at the instant    *)
(* sale price.  Mutants: one of the two refusals is missing.                *)
CancelRefusedAtInstantPrice(b) == IsWinner(b) /\ PaysInstantPrice(b)
CancelRefusedAfterEnd(b) == Ended /\ IsWinner(b)
CancelRefused(b) ==
  \/ Ended /\ IsWinner(b)
  \/ IsWinner(b) /\ PaysInstantPrice(b)

(* The counter after a cancellation: only the first of a bid counts.        *)
CountWithout(b) ==
  IF ~meta[b].cancelled /\ total_uncancelled_bids > 0
  THEN total_uncancelled_bids - 1 ELSE total_uncancelled_bids

(* A winning bid is claimed after the end, or before it at the instant sale *)
(* price, known only when the optional extended account is passed.  Mutant: *)
(* the end is not enough.                                                   *)
ClaimableAtInstantPrice(b, extended) == extended /\ PaysInstantPrice(b)
Claimable(b, extended) == Ended \/ (extended /\ PaysInstantPrice(b))

(* consider_instant_bid: the lowest of the max winning bids pays the instant price. *)
SoldOut(list) ==
  /\ IsEnglish
  /\ args.instant_sale_price # None
  /\ Len(list) >= args.max
  /\ list[Len(list) - args.max + 1].amount >= args.instant_sale_price
----------------------------------------------------------------------------
Init ==
  /\ now = 0
  /\ args = None
  /\ authority = None
  /\ state = "Missing"
  /\ ended_at = None
  /\ last_bid = None
  /\ price_floor = [kind |-> "None", price |-> 0]
  /\ bids = << >>
  /\ total_uncancelled_bids = 0
  /\ meta = [b \in Bidders |-> None]
  /\ pot = [b \in Bidders |-> [exists |-> FALSE, amount |-> 0, emptied |-> FALSE]]
  /\ wallet = [b \in Bidders |-> InitialBalance]
  /\ proceeds = 0

(* create_auction and create_auction_v2.  Allocating the account fails when *)
(* it exists already.                                                       *)
CreateAuction(a, s) ==
  /\ state = "Missing"
  /\ a.gap_tick_size_percentage # None => a.gap_tick_size_percentage <= 100
  /\ args' = a
  /\ authority' = s
  /\ state' = "Created"
  /\ price_floor' = a.price_floor
  /\ UNCHANGED <<now, ended_at, last_bid, bids, total_uncancelled_bids, bidderVars, proceeds>>

StartAuction(s) ==
  /\ state = "Created"
  /\ s = authority
  /\ state' = "Started"
  /\ ended_at' = IF args.end_auction_at = None THEN None ELSE now + args.end_auction_at
  /\ UNCHANGED <<now, args, authority, last_bid, price_floor, bids, total_uncancelled_bids,
                 bidderVars, proceeds>>

(* end_auction is refused as soon as an end time is set; a blinded floor is *)
(* replaced by the price whose hash it is.                                  *)
EndAuction(s) ==
  /\ state \in {"Created", "Started"}
  /\ s = authority
  /\ ended_at = None
  /\ ended_at' = now
  /\ state' = "Ended"
  /\ price_floor' = IF price_floor.kind = "Blinded"
                    THEN [price_floor EXCEPT !.kind = "Minimum"] ELSE price_floor
  /\ UNCHANGED <<now, args, authority, last_bid, bids, total_uncancelled_bids,
                 bidderVars, proceeds>>

SetAuthority(s, new) ==
  /\ state # "Missing"
  /\ s = authority
  /\ authority' = new
  /\ UNCHANGED <<now, args, state, ended_at, last_bid, price_floor, bids,
                 total_uncancelled_bids, bidderVars, proceeds>>

(* place_bid on an auction whose time is over only records the end. *)
PlaceBidTooLate ==
  /\ state \in {"Created", "Started"}
  /\ Ended
  /\ state' = "Ended"
  /\ UNCHANGED <<now, args, authority, ended_at, last_bid, price_floor, bids,
                 total_uncancelled_bids, bidderVars, proceeds>>

(* place_bid while the auction runs.  With no winner at all, looking up the *)
(* lowest winning bid is out of bounds and the transaction aborts.          *)
PlaceBid(b, amount) ==
  LET price == BidPrice(amount)
  IN /\ state = "Started"
     /\ ~Ended
     /\ MayBid(b)
     /\ wallet[b] >= price
     /\ ValidTick(price)
     /\ price >= Minimum
     /\ IsEnglish => ValidGap(price)
     /\ (IsEnglish /\ args.instant_sale_price # None) => args.max > 0
     /\ total_uncancelled_bids' = total_uncancelled_bids + 1
     /\ wallet' = [wallet EXCEPT ![b] = @ - price]
     /\ pot' = [pot EXCEPT ![b].exists = TRUE, ![b].amount = @ + price]
     /\ last_bid' = now
     /\ bids' = WithBid([bidder |-> b, amount |-> price])
     /\ state' = IF SoldOut(bids') THEN "Ended" ELSE state
     /\ meta' = [meta EXCEPT ![b] =
                   [last_bid |-> price, last_bid_timestamp |-> now, cancelled |-> FALSE]]
     /\ UNCHANGED <<now, args, authority, ended_at, price_floor, proceeds>>

(* cancel_bid refunds the whole pot; the list and the count change only     *)
(* while the state is not Ended.                                            *)
CancelBid(b) ==
  /\ meta[b] # None
  /\ pot[b].exists
  /\ ~CancelRefused(b)
  /\ wallet' = [wallet EXCEPT ![b] = @ + pot[b].amount]
  /\ pot' = [pot EXCEPT ![b].amount = 0]
  /\ meta' = [meta EXCEPT ![b].cancelled = TRUE]
  /\ IF state # "Ended"
     THEN total_uncancelled_bids' = CountWithout(b) /\ bids' = WithoutBidder(b)
     ELSE UNCHANGED <<total_uncancelled_bids, bids>>
  /\ UNCHANGED <<now, args, authority, state, ended_at, last_bid, price_floor, proceeds>>

(* claim_bid; extended tells whether the optional account is passed. *)
ClaimBid(s, b, extended) ==
  /\ s = authority
  /\ pot[b].exists
  /\ IsWinner(b)
  /\ Claimable(b, extended)
  /\ proceeds' = proceeds + pot[b].amount
  /\ pot' = [pot EXCEPT ![b].amount = 0, ![b].emptied = TRUE]
  /\ UNCHANGED <<now, auctionVars, total_uncancelled_bids, meta, wallet>>

(* The clock of the cluster, bounded by MaxTime. *)
Tick ==
  /\ now < MaxTime
  /\ now' = now + 1
  /\ UNCHANGED <<auctionVars, total_uncancelled_bids, bidderVars, proceeds>>

Next ==
  \/ \E a \in AuctionArgs, s \in Authorities : CreateAuction(a, s)
  \/ \E s \in Authorities : StartAuction(s)
  \/ \E s \in Authorities : EndAuction(s)
  \/ \E s, new \in Authorities : SetAuthority(s, new)
  \/ PlaceBidTooLate
  \/ \E b \in Bidders, amount \in Amounts : PlaceBid(b, amount)
  \/ \E b \in Bidders : CancelBid(b)
  \/ \E s \in Authorities, b \in Bidders, extended \in BOOLEAN : ClaimBid(s, b, extended)
  \/ Tick

Spec == Init /\ [][Next]_vars
----------------------------------------------------------------------------
(***************************************************************************)
(* Safety.                                                                 *)
(***************************************************************************)

(* The list is in price order and, between equal bids, the earlier one      *)
(* stands higher: BidState::place_bid inserts below the bids it equals.     *)
PriceTimePriority ==
  \A i, j \in DOMAIN bids : i < j =>
    \/ bids[i].amount < bids[j].amount
    \/ /\ bids[i].amount = bids[j].amount
       /\ meta[bids[i].bidder].last_bid_timestamp >= meta[bids[j].bidder].last_bid_timestamp

(* "Each user may have one bid open at a time" (AuctionData::bid_state):     *)
(* whatever is cancelled, pruned and bid again, no bidder is listed twice.   *)
OneBidPerBidder ==
  \A i, j \in DOMAIN bids : bids[i].bidder = bids[j].bidder => i = j

(* Until the auction is marked Ended every listed bid is a live bid whose   *)
(* whole amount sits in the pot, unless the authority has claimed it.       *)
BidsBacked ==
  state # "Ended" =>
    \A i \in DOMAIN bids :
      LET b == bids[i].bidder
      IN /\ meta[b] # None /\ ~meta[b].cancelled
         /\ ~pot[b].emptied => pot[b].amount = bids[i].amount

(* Until the auction is marked Ended the counter of AuctionDataExtended is  *)
(* the number of bidders whose metadata is not cancelled, those whose bid   *)
(* was pruned from the list included.                                       *)
Uncancelled == {b \in Bidders : meta[b] # None /\ ~meta[b].cancelled}
UncancelledCounted == state # "Ended" => total_uncancelled_bids = Cardinality(Uncancelled)

(* Once the auction is over, by its mark or by the clock, the set of        *)
(* winners is final: losers cancelling, late bids and claims leave it.      *)
WinnersFinal == [][(state = "Ended" \/ Ended) => Winners' = Winners]_vars

(* The custody promise of the program (module EscrowCustody).               *)
Custody == INSTANCE EscrowCustody WITH
  Accounts <- Bidders, closed <- Ended, winners <- Winners,
  held <- [b \in Bidders |-> pot[b].amount],
  paid <- {b \in Bidders : pot[b].emptied}
CustodySpec == Custody!Spec
----------------------------------------------------------------------------
(***************************************************************************)
(* Liveness.  Time passes, every bidder asks for the money back while the   *)
(* program grants it, and the authority claims what it may.                 *)
(***************************************************************************)
Fairness ==
  /\ WF_vars(Tick)
  /\ \A b \in Bidders : WF_vars(pot[b].amount > 0 /\ CancelBid(b))
  /\ \A b \in Bidders : WF_vars(pot[b].amount > 0 /\ ClaimBid(authority, b, TRUE))
FairSpec == Spec /\ Fairness

(* No money is stranded: once the time is over every pot is emptied, each   *)
(* by a refund to its bidder or by a claim of the authority.                *)
EscrowDrains == Ended ~> (\A b \in Bidders : pot[b].amount = 0)
----------------------------------------------------------------------------
(***************************************************************************)
(* What the comments of the code say and the code does not do.              *)
(***************************************************************************)

(* processor/cancel_bid.rs:1: a bid is cancelled only while the auction is  *)
(* going on or, once it has finished, when the bid did not win.             *)
CancelOnlyOpenOrLost ==
  [][\A b \in Bidders : CancelBid(b) => (state # "Ended" \/ ~IsWinner(b))]_vars
============================================================================
