--------------------------- MODULE AuctionProofs ---------------------------
(***************************************************************************)
(* Proofs about the auction program, for any bidders, amounts, arguments   *)
(* and clock.                                                              *)
(***************************************************************************)
EXTENDS AuctionManager, Sums, SequenceTheorems, WellFoundedInduction, TLAPS

(* A non-empty set of natural numbers has the minimum that Min returns.     *)
LEMMA MinOfNat ==
  ASSUME NEW S \in SUBSET Nat, S # {}
  PROVE  Min(S) \in S /\ \A y \in S : Min(S) <= y
<1>1. \E x \in S : \A y \in S : ~(<<y, x>> \in OpToRel(<, Nat))
  BY NatLessThanWellFounded, WFMin
<1>2. PICK x \in S : \A y \in S : x <= y
  <2>1. PICK x \in S : \A y \in S : ~(<<y, x>> \in OpToRel(<, Nat))
    BY <1>1
  <2>2. \A y \in S : x <= y
    <3> SUFFICES ASSUME NEW y \in S PROVE x <= y  OBVIOUS
    <3>1. <<y, x>> \in Nat \X Nat  OBVIOUS
    <3>2. ~(y < x)  BY <2>1, <3>1 DEF OpToRel
    <3> QED BY <3>2
  <2> QED BY <2>2
<1> QED BY <1>2 DEF Min

(* So has a non-empty set of places of a list the maximum that Max returns. *)
LEMMA MaxOfPlaces ==
  ASSUME NEW n \in Nat, NEW S \in SUBSET (1 .. n), S # {}
  PROVE  Max(S) \in S /\ \A y \in S : y <= Max(S)
<1> DEFINE T == {n - x : x \in S}
<1>1. T \in SUBSET Nat /\ T # {}
  <2>1. \A x \in S : x \in 1 .. n  OBVIOUS
  <2>2. \A x \in S : n - x \in Nat  BY <2>1
  <2> QED BY <2>2
<1>2. Min(T) \in T /\ \A y \in T : Min(T) <= y  BY <1>1, MinOfNat
<1> HIDE DEF T
<1>3. PICK x \in S : Min(T) = n - x  BY <1>2 DEF T
<1>4. \A y \in S : y <= x
  <2> SUFFICES ASSUME NEW y \in S PROVE y <= x  OBVIOUS
  <2>1. n - y \in T  BY DEF T
  <2>2. n - x <= n - y  BY <1>2, <1>3, <2>1
  <2> QED BY <2>2
<1> QED BY <1>4 DEF Max

(* Inserting an element moves the ones from its place on up by one.         *)
LEMMA InsertAtProperties ==
  ASSUME NEW S, NEW s \in Seq(S), NEW p \in 1 .. Len(s) + 1, NEW e \in S
  PROVE  /\ InsertAt(s, p, e) \in Seq(S)
         /\ Len(InsertAt(s, p, e)) = Len(s) + 1
         /\ \A i \in 1 .. p - 1 : InsertAt(s, p, e)[i] = s[i]
         /\ InsertAt(s, p, e)[p] = e
         /\ \A i \in p + 1 .. Len(s) + 1 : InsertAt(s, p, e)[i] = s[i - 1]
<1> DEFINE before == SubSeq(s, 1, p - 1)
           after  == SubSeq(s, p, Len(s))
<1>0. Len(s) \in Nat /\ \A i \in 1 .. Len(s) : s[i] \in S  BY ElementOfSeq, LenProperties
<1>1. /\ before \in Seq(S) /\ Len(before) = p - 1
      /\ \A i \in 1 .. p - 1 : before[i] = s[i]
  BY <1>0, SubSeqProperties
<1>2. /\ after \in Seq(S) /\ Len(after) = Len(s) - p + 1
      /\ \A i \in 1 .. Len(s) - p + 1 : after[i] = s[p + i - 1]
  BY <1>0, SubSeqProperties
<1> HIDE DEF before, after
<1> DEFINE one == <<e>>
           upper == one \o after
<1>3. one \in Seq(S) /\ Len(one) = 1 /\ one[1] = e  OBVIOUS
<1> HIDE DEF one
<1>4. /\ upper \in Seq(S) /\ Len(upper) = 1 + Len(after)
      /\ \A i \in 1 .. 1 + Len(after) : upper[i] = IF i <= 1 THEN one[i] ELSE after[i - 1]
  <2>1. /\ one \o after \in Seq(S) /\ Len(one \o after) = Len(one) + Len(after)
        /\ \A i \in 1 .. Len(one) + Len(after) :
             (one \o after)[i] = IF i <= Len(one) THEN one[i] ELSE after[i - Len(one)]
    BY <1>2, <1>3, ConcatProperties
  <2> QED BY <1>3, <2>1
<1>5. InsertAt(s, p, e) = before \o upper
  <2>1. InsertAt(s, p, e) = (before \o one) \o after  BY DEF InsertAt, before, one, after
  <2> HIDE DEF upper
  <2>2. (before \o one) \o after = before \o (one \o after)
    <3>1. before \in Seq(S) /\ one \in Seq(S) /\ after \in Seq(S)  BY <1>1, <1>2, <1>3
    <3> QED BY <3>1, ConcatAssociative
  <2> QED BY <2>1, <2>2 DEF upper
<1> HIDE DEF upper
<1>6. /\ before \o upper \in Seq(S) /\ Len(before \o upper) = Len(before) + Len(upper)
      /\ \A i \in 1 .. Len(before) + Len(upper) :
           (before \o upper)[i] = IF i <= Len(before) THEN before[i] ELSE upper[i - Len(before)]
  BY <1>1, <1>4, ConcatProperties
<1>7. Len(before \o upper) = Len(s) + 1  BY <1>0, <1>1, <1>2, <1>4, <1>6
<1>8. \A i \in 1 .. p - 1 : (before \o upper)[i] = s[i]  BY <1>0, <1>1, <1>2, <1>4, <1>6
<1>9. (before \o upper)[p] = e
  <2>1. (before \o upper)[p] = upper[1]  BY <1>0, <1>1, <1>2, <1>4, <1>6
  <2>2. upper[1] = one[1]  BY <1>0, <1>2, <1>4
  <2> QED BY <1>3, <2>1, <2>2
<1>10. ASSUME NEW i \in p + 1 .. Len(s) + 1
       PROVE  (before \o upper)[i] = s[i - 1]
  <2>1. (before \o upper)[i] = upper[i - p + 1]  BY <1>0, <1>1, <1>2, <1>4, <1>6
  <2>2. upper[i - p + 1] = after[i - p]
    <3>1. i - p + 1 \in 1 .. 1 + Len(after) /\ ~(i - p + 1 <= 1)  BY <1>0, <1>2
    <3>2. (i - p + 1) - 1 = i - p  BY <1>0
    <3> QED BY <1>4, <3>1, <3>2
  <2>3. after[i - p] = s[i - 1]  BY <1>0, <1>2
  <2> QED BY <2>1, <2>2, <2>3
<1> QED BY <1>5, <1>6, <1>7, <1>8, <1>9, <1>10

(* Removing an element moves the ones after it down by one.                 *)
LEMMA RemoveAtProperties ==
  ASSUME NEW S, NEW s \in Seq(S), NEW p \in 1 .. Len(s)
  PROVE  /\ RemoveAt(s, p) \in Seq(S)
         /\ Len(RemoveAt(s, p)) = Len(s) - 1
         /\ \A i \in 1 .. p - 1 : RemoveAt(s, p)[i] = s[i]
         /\ \A i \in p .. Len(s) - 1 : RemoveAt(s, p)[i] = s[i + 1]
<1> DEFINE before == SubSeq(s, 1, p - 1)
           after  == SubSeq(s, p + 1, Len(s))
<1>0. Len(s) \in Nat /\ \A i \in 1 .. Len(s) : s[i] \in S  BY ElementOfSeq, LenProperties
<1>1. /\ before \in Seq(S) /\ Len(before) = p - 1
      /\ \A i \in 1 .. p - 1 : before[i] = s[i]
  BY <1>0, SubSeqProperties
<1>2. /\ after \in Seq(S) /\ Len(after) = Len(s) - p
      /\ \A i \in 1 .. Len(s) - p : after[i] = s[p + i]
  <2>1. after \in Seq(S)  BY <1>0, SubSeqProperties
  <2>2. Len(after) = Len(s) - p  BY <1>0, SubSeqProperties
  <2>3. \A i \in 1 .. Len(s) - p : after[i] = s[p + 1 + i - 1]
    BY <1>0, SubSeqProperties
  <2> QED BY <1>0, <2>1, <2>2, <2>3
<1> HIDE DEF before, after
<1>3. RemoveAt(s, p) = before \o after  BY DEF RemoveAt, before, after
<1>4. /\ before \o after \in Seq(S) /\ Len(before \o after) = Len(before) + Len(after)
      /\ \A i \in 1 .. Len(before) + Len(after) :
           (before \o after)[i] = IF i <= Len(before) THEN before[i] ELSE after[i - Len(before)]
  BY <1>1, <1>2, ConcatProperties
<1>5. Len(before \o after) = Len(s) - 1  BY <1>0, <1>1, <1>2, <1>4
<1>6. \A i \in 1 .. p - 1 : (before \o after)[i] = s[i]  BY <1>0, <1>1, <1>2, <1>4
<1>7. ASSUME NEW i \in p .. Len(s) - 1
      PROVE  (before \o after)[i] = s[i + 1]
  <2>1. (before \o after)[i] = after[i - p + 1]  BY <1>0, <1>1, <1>2, <1>4
  <2>2. after[i - p + 1] = s[i + 1]  BY <1>0, <1>2
  <2> QED BY <2>1, <2>2
<1> QED BY <1>3, <1>4, <1>5, <1>6, <1>7
----------------------------------------------------------------------------
(***************************************************************************)
(* The inductive invariant: the invariants of module Auction and what they *)
(* rest on.                                                                *)
(***************************************************************************)

(* Nothing is listed and no end is set before the start; an open edition    *)
(* keeps no list.                                                           *)
Phases ==
  /\ state \in {"Missing", "Created"} => ended_at = None /\ bids = << >>
  /\ state # "Missing" /\ ~IsEnglish => bids = << >>

(* Only a bidder whose last bid is not cancelled has money in the pot.      *)
DeadPotsEmpty ==
  \A b \in Bidders : (meta[b] = None \/ meta[b].cancelled) => pot[b].amount = 0

(* Every listed bidder has metadata, and no bid lies in the future.         *)
ListedKnown == \A i \in DOMAIN bids : meta[bids[i].bidder] # None
BidTimesPast ==
  \A b \in Bidders : meta[b] # None => meta[b].last_bid_timestamp <= now

AuctionInv ==
  /\ TypeOK /\ Phases /\ ListedKnown /\ BidTimesPast
  /\ OneBidPerBidder /\ PriceTimePriority
  /\ DeadPotsEmpty /\ BidsBacked
----------------------------------------------------------------------------
(***************************************************************************)
(* The list of bids.                                                       *)
(***************************************************************************)
PriceSorted == \A i, j \in DOMAIN bids : i < j => bids[i].amount <= bids[j].amount

LEMMA ListBasics ==
  ASSUME TypeOK
  PROVE  /\ Len(bids) \in Nat /\ DOMAIN bids = 1 .. Len(bids)
         /\ \A i \in DOMAIN bids : /\ bids[i] \in Bid
                                   /\ bids[i].bidder \in Bidders
                                   /\ bids[i].amount \in Nat
<1>1. bids \in Seq(Bid)  BY DEF TypeOK
<1>2. Len(bids) \in Nat /\ DOMAIN bids = 1 .. Len(bids)  BY <1>1, LenProperties
<1>3. \A i \in DOMAIN bids : bids[i] \in Bid  BY <1>1, <1>2, ElementOfSeq
<1> QED BY <1>2, <1>3 DEF Bid

LEMMA PriorityIsSorted == ASSUME TypeOK, PriceTimePriority PROVE PriceSorted
  BY ListBasics DEF PriceTimePriority, PriceSorted

(* The scan of BidState::place_bid finds the place that keeps the order:    *)
(* lower bids stand below it and no lower bid stands above it.              *)
LEMMA PlaceOfBid ==
  ASSUME TypeOK, PriceSorted, NEW amount \in Nat
  PROVE  /\ InsertPlace(amount) \in 1 .. Len(bids) + 1
         /\ \A i \in 1 .. InsertPlace(amount) - 1 : bids[i].amount < amount
         /\ \A i \in InsertPlace(amount) .. Len(bids) : bids[i].amount >= amount
<1> DEFINE stops == ScanStops(amount)
           top == Max(stops)
<1>1. /\ Len(bids) \in Nat /\ DOMAIN bids = 1 .. Len(bids)
      /\ \A i \in 1 .. Len(bids) : bids[i].amount \in Nat
  BY ListBasics
<1>2. \A i, j \in 1 .. Len(bids) : i <= j => bids[i].amount <= bids[j].amount
  BY <1>1 DEF PriceSorted
<1>3. \A i \in 1 .. Len(bids) :
        i \in stops <=> \/ bids[i].amount < amount
                        \/ bids[i].amount = amount /\ (i = 1 \/ bids[i - 1].amount # amount)
  BY <1>1 DEF ScanStops
<1>4. CASE stops = {}
  <2>1. InsertPlace(amount) = 1  BY <1>4 DEF InsertPlace
  <2>2. \A i \in 1 .. Len(bids) : ~(bids[i].amount < amount)  BY <1>3, <1>4
  <2> QED BY <1>1, <2>1, <2>2
<1>5. CASE stops # {}
  <2>1. stops \in SUBSET (1 .. Len(bids))  BY <1>1 DEF ScanStops
  <2>2. top \in stops /\ \A y \in stops : y <= top  BY <1>1, <1>5, <2>1, MaxOfPlaces
  <2>3. InsertPlace(amount) = IF bids[top].amount < amount THEN top + 1 ELSE top
    BY <1>5 DEF InsertPlace
  <2> HIDE DEF stops, top
  <2>4. top \in 1 .. Len(bids)  BY <2>1, <2>2
  <2>5. CASE bids[top].amount < amount
    <3>1. InsertPlace(amount) = top + 1  BY <2>3, <2>5
    <3>2. \A i \in 1 .. top : bids[i].amount < amount  BY <1>1, <1>2, <2>4, <2>5
    <3>3. \A i \in top + 1 .. Len(bids) : bids[i].amount >= amount
      <4> SUFFICES ASSUME NEW i \in top + 1 .. Len(bids) PROVE bids[i].amount >= amount
        OBVIOUS
      <4>1. i \in 1 .. Len(bids) /\ ~(i <= top)  BY <1>1, <2>4
      <4>2. i \notin stops  BY <2>2, <4>1
      <4> QED BY <1>1, <1>3, <4>1, <4>2
    <3> QED BY <1>1, <2>4, <3>1, <3>2, <3>3
  <2>6. CASE ~(bids[top].amount < amount)
    <3>1. InsertPlace(amount) = top  BY <2>3, <2>6
    <3>2. bids[top].amount = amount /\ (top = 1 \/ bids[top - 1].amount # amount)
      BY <1>3, <2>2, <2>4, <2>6
    <3>3. \A i \in top .. Len(bids) : bids[i].amount >= amount
      BY <1>1, <1>2, <2>4, <3>2
    <3>4. \A i \in 1 .. top - 1 : bids[i].amount < amount
      <4> SUFFICES ASSUME NEW i \in 1 .. top - 1 PROVE bids[i].amount < amount  OBVIOUS
      <4>1. top - 1 \in 1 .. Len(bids) /\ i \in 1 .. Len(bids) /\ i <= top - 1  BY <1>1, <2>4
      <4>2. bids[top - 1].amount <= amount  BY <1>1, <1>2, <2>4, <3>2, <4>1
      <4>3. bids[top - 1].amount # amount  BY <2>4, <3>2, <4>1
      <4>4. bids[i].amount <= bids[top - 1].amount  BY <1>2, <4>1
      <4> QED BY <1>1, <4>1, <4>2, <4>3, <4>4
    <3> QED BY <1>1, <2>4, <3>1, <3>3, <3>4
  <2> QED BY <2>5, <2>6
<1> QED BY <1>4, <1>5

(* InOrder: how two places of a list after place_bid relate to the old list. *)
InOrder(list, bid, i, j) ==
  \/ \E k, l \in DOMAIN bids : k < l /\ list[i] = bids[k] /\ list[j] = bids[l]
  \/ list[j] = bid /\ \E k \in DOMAIN bids : list[i] = bids[k] /\ bids[k].amount < bid.amount
  \/ list[i] = bid /\ \E k \in DOMAIN bids : list[j] = bids[k] /\ bids[k].amount >= bid.amount

LEMMA InsertedBid ==
  ASSUME TypeOK, PriceSorted, NEW bid \in Bid,
         NEW list, list = InsertAt(bids, InsertPlace(bid.amount), bid)
  PROVE  /\ list \in Seq(Bid)
         /\ Len(list) = Len(bids) + 1
         /\ \A i, j \in 1 .. Len(list) : i < j => InOrder(list, bid, i, j)
         /\ \A i \in 1 .. Len(list) : list[i] = bid \/ \E k \in DOMAIN bids : list[i] = bids[k]
<1> DEFINE p == InsertPlace(bid.amount)
<1>0. bid.amount \in Nat  BY DEF Bid
<1>1. /\ Len(bids) \in Nat /\ DOMAIN bids = 1 .. Len(bids)
      /\ \A i \in 1 .. Len(bids) : bids[i].amount \in Nat
  BY ListBasics
<1>2. /\ p \in 1 .. Len(bids) + 1
      /\ \A i \in 1 .. p - 1 : bids[i].amount < bid.amount
      /\ \A i \in p .. Len(bids) : bids[i].amount >= bid.amount
  BY <1>0, PlaceOfBid
<1> HIDE DEF p
<1>3. /\ list \in Seq(Bid) /\ Len(list) = Len(bids) + 1
      /\ \A i \in 1 .. p - 1 : list[i] = bids[i]
      /\ list[p] = bid
      /\ \A i \in p + 1 .. Len(bids) + 1 : list[i] = bids[i - 1]
  <2>1. bids \in Seq(Bid)  BY DEF TypeOK
  <2>2. list = InsertAt(bids, p, bid)  BY DEF p
  <2>3. /\ InsertAt(bids, p, bid) \in Seq(Bid)
        /\ Len(InsertAt(bids, p, bid)) = Len(bids) + 1
        /\ \A i \in 1 .. p - 1 : InsertAt(bids, p, bid)[i] = bids[i]
        /\ InsertAt(bids, p, bid)[p] = bid
        /\ \A i \in p + 1 .. Len(bids) + 1 : InsertAt(bids, p, bid)[i] = bids[i - 1]
    BY <1>2, <2>1, InsertAtProperties
  <2> QED BY <2>2, <2>3
<1>4. ASSUME NEW i \in 1 .. Len(list), NEW j \in 1 .. Len(list), i < j
      PROVE  InOrder(list, bid, i, j)
  <2>1. CASE j < p
    <3>1. i \in DOMAIN bids /\ j \in DOMAIN bids  BY <1>1, <1>2, <1>4, <2>1
    <3>2. i \in 1 .. p - 1 /\ j \in 1 .. p - 1  BY <1>1, <1>2, <1>4, <2>1, <3>1
    <3>3. list[i] = bids[i] /\ list[j] = bids[j]  BY <1>3, <3>2
    <3> QED BY <1>4, <3>1, <3>3 DEF InOrder
  <2>2. CASE j = p
    <3>1. i \in DOMAIN bids /\ i \in 1 .. p - 1  BY <1>1, <1>2, <1>4, <2>2
    <3>2. list[i] = bids[i] /\ list[j] = bid  BY <1>3, <2>2, <3>1
    <3> QED BY <1>2, <3>1, <3>2 DEF InOrder
  <2>3. CASE i = p
    <3>1. j - 1 \in DOMAIN bids /\ j - 1 \in p .. Len(bids)  BY <1>1, <1>2, <1>3, <1>4, <2>3
    <3>2. list[i] = bid /\ list[j] = bids[j - 1]  BY <1>1, <1>2, <1>3, <1>4, <2>3
    <3> QED BY <1>2, <3>1, <3>2 DEF InOrder
  <2>4. CASE i < p /\ p < j
    <3>1. i \in DOMAIN bids /\ j - 1 \in DOMAIN bids /\ i < j - 1
      BY <1>1, <1>2, <1>3, <1>4, <2>4
    <3>2. list[i] = bids[i] /\ list[j] = bids[j - 1]  BY <1>1, <1>2, <1>3, <1>4, <2>4
    <3> QED BY <3>1, <3>2 DEF InOrder
  <2>5. CASE p < i
    <3>1. i - 1 \in DOMAIN bids /\ j - 1 \in DOMAIN bids /\ i - 1 < j - 1
      BY <1>1, <1>2, <1>3, <1>4, <2>5
    <3>2. list[i] = bids[i - 1] /\ list[j] = bids[j - 1]  BY <1>1, <1>2, <1>3, <1>4, <2>5
    <3> QED BY <3>1, <3>2 DEF InOrder
  <2> QED BY <1>1, <1>2, <1>3, <1>4, <2>1, <2>2, <2>3, <2>4, <2>5
<1>5. ASSUME NEW i \in 1 .. Len(list)
      PROVE  list[i] = bid \/ \E k \in DOMAIN bids : list[i] = bids[k]
  <2>1. CASE i < p
    <3>1. i \in DOMAIN bids /\ list[i] = bids[i]  BY <1>1, <1>2, <1>3, <2>1
    <3> QED BY <3>1
  <2>2. CASE i = p  BY <1>3, <2>2
  <2>3. CASE p < i
    <3>1. i - 1 \in DOMAIN bids /\ list[i] = bids[i - 1]  BY <1>1, <1>2, <1>3, <2>3
    <3> QED BY <3>1
  <2> QED BY <1>1, <1>2, <1>3, <2>1, <2>2, <2>3
<1> QED BY <1>3, <1>4, <1>5

(* Dropping the lowest bid when the account is full keeps all of this.      *)
LEMMA WithBidKeepsOrder ==
  ASSUME TypeOK, PriceSorted, IsEnglish, NEW bid \in Bid,
         NEW list, list = WithBid(bid)
  PROVE  /\ list \in Seq(Bid)
         /\ \A i, j \in DOMAIN list : i < j => InOrder(list, bid, i, j)
         /\ \A i \in DOMAIN list : list[i] = bid \/ \E k \in DOMAIN bids : list[i] = bids[k]
<1>0. PICK inserted : inserted = InsertAt(bids, InsertPlace(bid.amount), bid)  OBVIOUS
<1>1. /\ inserted \in Seq(Bid)
      /\ Len(inserted) = Len(bids) + 1
      /\ \A i, j \in 1 .. Len(inserted) : i < j => InOrder(inserted, bid, i, j)
      /\ \A i \in 1 .. Len(inserted) :
           inserted[i] = bid \/ \E k \in DOMAIN bids : inserted[i] = bids[k]
  BY <1>0, InsertedBid
<1>2. list = inserted \/ list = Tail(inserted)  BY <1>0 DEF WithBid
<1>3. CASE list = inserted  BY <1>1, <1>3, LenProperties
<1>4. CASE list = Tail(inserted)
  <2>1. inserted # << >>
    <3>1. Len(inserted) # 0  BY <1>1, ListBasics
    <3> QED BY <1>1, <3>1, EmptySeq
  <2>2. /\ list \in Seq(Bid) /\ Len(list) = Len(inserted) - 1
        /\ \A i \in 1 .. Len(list) : list[i] = inserted[i + 1]
    BY <1>1, <1>4, <2>1, HeadTailProperties
  <2>3. DOMAIN list = 1 .. Len(list) /\ Len(list) \in Nat  BY <2>2, LenProperties
  <2>4. Len(inserted) \in Nat  BY <1>1, LenProperties
  <2>5. ASSUME NEW i \in DOMAIN list, NEW j \in DOMAIN list, i < j
        PROVE  InOrder(list, bid, i, j)
    <3>1. i + 1 \in 1 .. Len(inserted) /\ j + 1 \in 1 .. Len(inserted) /\ i + 1 < j + 1
      BY <2>2, <2>3, <2>4, <2>5
    <3>2. InOrder(inserted, bid, i + 1, j + 1)  BY <1>1, <3>1
    <3>3. list[i] = inserted[i + 1] /\ list[j] = inserted[j + 1]  BY <2>2, <2>3
    <3> QED BY <3>2, <3>3 DEF InOrder
  <2>6. ASSUME NEW i \in DOMAIN list
        PROVE  list[i] = bid \/ \E k \in DOMAIN bids : list[i] = bids[k]
    <3>1. i + 1 \in 1 .. Len(inserted) /\ list[i] = inserted[i + 1]  BY <2>2, <2>3, <2>4
    <3> QED BY <1>1, <3>1
  <2> QED BY <2>2, <2>5, <2>6
<1> QED BY <1>2, <1>3, <1>4

(* BidState::cancel_bid leaves the other bids in their order.               *)
LEMMA WithoutBidderKeepsOrder ==
  ASSUME TypeOK, OneBidPerBidder, ~IsEnglish => bids = << >>,
         NEW b \in Bidders, NEW list, list = WithoutBidder(b)
  PROVE  /\ list \in Seq(Bid)
         /\ \A i, j \in DOMAIN list : i < j =>
              \E k, l \in DOMAIN bids : k < l /\ list[i] = bids[k] /\ list[j] = bids[l]
         /\ \A i \in DOMAIN list :
              list[i].bidder # b /\ \E k \in DOMAIN bids : list[i] = bids[k]
<1> DEFINE own == {i \in DOMAIN bids : bids[i].bidder = b}
<1>1. /\ Len(bids) \in Nat /\ DOMAIN bids = 1 .. Len(bids)
      /\ \A i \in DOMAIN bids : bids[i].bidder \in Bidders
  BY ListBasics
<1>2. bids \in Seq(Bid)  BY DEF TypeOK
<1>3. list = IF ~IsEnglish \/ own = {} THEN bids ELSE RemoveAt(bids, Min(own))
  BY DEF WithoutBidder
<1>4. CASE ~IsEnglish
  <2>1. list = << >>  BY <1>3, <1>4
  <2>2. DOMAIN list = {}  BY <2>1
  <2> QED BY <1>2, <2>1, <2>2
<1>5. CASE IsEnglish /\ own = {}
  <2>1. list = bids  BY <1>3, <1>5
  <2>2. \A i \in DOMAIN bids : bids[i].bidder # b  BY <1>5
  <2> QED BY <1>2, <2>1, <2>2
<1>6. CASE IsEnglish /\ own # {}
  <2> DEFINE p == Min(own)
  <2>1. own \in SUBSET Nat  BY <1>1
  <2>2. p \in own  BY <1>6, <2>1, MinOfNat
  <2>3. list = RemoveAt(bids, p)  BY <1>3, <1>6
  <2>4. p \in 1 .. Len(bids) /\ bids[p].bidder = b  BY <1>1, <2>2
  <2> HIDE DEF p, own
  <2>5. /\ list \in Seq(Bid) /\ Len(list) = Len(bids) - 1
        /\ \A i \in 1 .. p - 1 : list[i] = bids[i]
        /\ \A i \in p .. Len(bids) - 1 : list[i] = bids[i + 1]
    BY <1>2, <2>3, <2>4, RemoveAtProperties
  <2>6. DOMAIN list = 1 .. Len(bids) - 1  BY <2>5, LenProperties
  <2>7. ASSUME NEW i \in DOMAIN list
        PROVE  \E k \in DOMAIN bids :
                 k # p /\ list[i] = bids[k] /\ k = IF i < p THEN i ELSE i + 1
    <3>1. CASE i < p
      <4>1. i \in DOMAIN bids /\ i # p /\ list[i] = bids[i]  BY <1>1, <2>4, <2>5, <2>6, <3>1
      <4> QED BY <3>1, <4>1
    <3>2. CASE ~(i < p)
      <4>1. i + 1 \in DOMAIN bids /\ i + 1 # p /\ list[i] = bids[i + 1]
        BY <1>1, <2>4, <2>5, <2>6, <3>2
      <4> QED BY <3>2, <4>1
    <3> QED BY <3>1, <3>2
  <2>8. ASSUME NEW i \in DOMAIN list, NEW j \in DOMAIN list, i < j
        PROVE  \E k, l \in DOMAIN bids : k < l /\ list[i] = bids[k] /\ list[j] = bids[l]
    <3>1. PICK k \in DOMAIN bids : list[i] = bids[k] /\ k = IF i < p THEN i ELSE i + 1
      BY <2>7
    <3>2. PICK l \in DOMAIN bids : list[j] = bids[l] /\ l = IF j < p THEN j ELSE j + 1
      BY <2>7
    <3>3. k < l  BY <1>1, <2>4, <2>6, <2>8, <3>1, <3>2
    <3> QED BY <3>1, <3>2, <3>3
  <2>9. ASSUME NEW i \in DOMAIN list
        PROVE  list[i].bidder # b /\ \E k \in DOMAIN bids : list[i] = bids[k]
    <3>1. PICK k \in DOMAIN bids : k # p /\ list[i] = bids[k]  BY <2>7
    <3>2. bids[k].bidder # b  BY <1>1, <2>4, <3>1 DEF OneBidPerBidder
    <3> QED BY <3>1, <3>2
  <2> QED BY <2>5, <2>8, <2>9
<1> QED BY <1>4, <1>5, <1>6
----------------------------------------------------------------------------
(***************************************************************************)
(* The invariant is inductive: one lemma for each instruction that touches *)
(* the list or the money, one step for each action in AuctionInvStep.      *)
(***************************************************************************)

(* The numbers place_bid computes stay in their types.                      *)
LEMMA BidPriceType ==
  ASSUME TypeOK, state # "Missing", NEW amount \in Nat
  PROVE  BidPrice(amount) \in Nat
<1>1. args \in AuctionArgsType  BY AuctionAssumption DEF TypeOK
<1>2. args.instant_sale_price \in Nat \cup {None}  BY <1>1 DEF AuctionArgsType
<1> QED BY <1>2 DEF BidPrice

LEMMA PlaceBidPreserves ==
  ASSUME AuctionInv, NEW b \in Bidders, NEW amount \in Amounts, PlaceBid(b, amount)
  PROVE  AuctionInv'
<1> DEFINE price == BidPrice(amount)
           bid == [bidder |-> b, amount |-> price]
           record == [last_bid |-> price, last_bid_timestamp |-> now, cancelled |-> FALSE]
<1> USE DEF AuctionInv
<1>0. price \in Nat  BY AuctionAssumption, BidPriceType DEF PlaceBid
<1>1. /\ state = "Started" /\ state' \in {"Started", "Ended"}
      /\ now' = now /\ args' = args /\ authority' = authority /\ ended_at' = ended_at
      /\ price_floor' = price_floor /\ proceeds' = proceeds
      /\ last_bid' = now /\ bids' = WithBid(bid)
      /\ total_uncancelled_bids' = total_uncancelled_bids + 1
      /\ MayBid(b) /\ wallet[b] >= price
      /\ wallet' = [wallet EXCEPT ![b] = @ - price]
      /\ pot' = [pot EXCEPT ![b].exists = TRUE, ![b].amount = @ + price]
      /\ meta' = [meta EXCEPT ![b] = record]
  BY DEF PlaceBid
<1> HIDE DEF price
<1>2. bid \in Bid /\ bid.bidder = b /\ bid.amount = price  BY <1>0 DEF Bid
<1>3. record \in BidderMetadata  BY <1>0 DEF BidderMetadata, TypeOK
<1> HIDE DEF bid
(* The bidder has no bid in the list and nothing in the pot. *)
<1>4. pot[b].amount = 0 /\ \A i \in DOMAIN bids : bids[i].bidder # b
  BY <1>1 DEF MayBid, DeadPotsEmpty, BidsBacked
<1>5. /\ bids' \in Seq(Bid)
      /\ \A i, j \in DOMAIN bids' : i < j => InOrder(bids', bid, i, j)
      /\ \A i \in DOMAIN bids' : bids'[i] = bid \/ \E k \in DOMAIN bids : bids'[i] = bids[k]
      /\ ~IsEnglish => bids' = << >>
  <2>1. CASE IsEnglish
    <3>1. PriceSorted  BY PriorityIsSorted
    <3> QED BY <1>1, <1>2, <2>1, <3>1, WithBidKeepsOrder
  <2>2. CASE ~IsEnglish
    <3>1. bids' = << >>  BY <1>1, <2>2 DEF WithBid, Phases
    <3>2. DOMAIN bids' = {}  BY <3>1
    <3> QED BY <2>2, <3>1, <3>2
  <2> QED BY <2>1, <2>2
<1>6. /\ \A i \in DOMAIN bids : bids[i].bidder \in Bidders /\ bids[i].amount \in Nat
  BY ListBasics
<1>7. DOMAIN bids' \subseteq Nat
  BY <1>5, LenProperties
<1>8. /\ meta'[b] = record /\ \A c \in Bidders \ {b} : meta'[c] = meta[c]
      /\ pot'[b].amount = price /\ \A c \in Bidders \ {b} : pot'[c] = pot[c]
      /\ pot' \in [Bidders -> BidderPot]
      /\ meta' \in [Bidders -> BidderMetadata \cup {None}]
      /\ wallet' \in [Bidders -> Nat]
  <2>1. /\ meta \in [Bidders -> BidderMetadata \cup {None}]
        /\ pot \in [Bidders -> BidderPot] /\ wallet \in [Bidders -> Nat]
    BY DEF TypeOK
  <2>2. meta'[b] = record /\ \A c \in Bidders \ {b} : meta'[c] = meta[c]  BY <1>1, <2>1
  <2>3. pot'[b].amount = price /\ \A c \in Bidders \ {b} : pot'[c] = pot[c]
    BY <1>0, <1>1, <1>4, <2>1 DEF BidderPot
  <2>4. pot' \in [Bidders -> BidderPot]
    <3>1. pot[b].amount + price \in Nat  BY <1>0, <1>4
    <3> QED BY <1>1, <2>1, <3>1 DEF BidderPot
  <2>5. meta' \in [Bidders -> BidderMetadata \cup {None}]  BY <1>1, <1>3, <2>1
  <2>6. wallet' \in [Bidders -> Nat]
    <3>1. wallet[b] - price \in Nat  BY <1>0, <1>1, <2>1
    <3> QED BY <1>1, <2>1, <3>1
  <2> QED BY <2>2, <2>3, <2>4, <2>5, <2>6
<1>9. TypeOK'
  BY <1>1, <1>5, <1>8 DEF TypeOK
<1>10. Phases'
  BY <1>1, <1>5 DEF Phases, IsEnglish
<1>11. record # None  BY <1>3, AuctionAssumption
<1> HIDE DEF record
(* A listed bid is the new one or an old one of another bidder. *)
<1>12. \A i \in DOMAIN bids' :
         \/ bids'[i] = bid
         \/ /\ bids'[i].bidder \in Bidders \ {b}
            /\ \E k \in DOMAIN bids : bids'[i] = bids[k]
  BY <1>4, <1>5, <1>6
<1>13. ListedKnown'
  BY <1>2, <1>8, <1>11, <1>12 DEF ListedKnown
<1>14. BidTimesPast'
  <2>1. meta'[b].last_bid_timestamp <= now'  BY <1>1, <1>8 DEF record, TypeOK
  <2>2. \A c \in Bidders \ {b} : meta'[c] # None => meta'[c].last_bid_timestamp <= now'
    BY <1>1, <1>8 DEF BidTimesPast
  <2> QED BY <2>1, <2>2 DEF BidTimesPast
<1>15. OneBidPerBidder'
  <2>1. \A i, j \in DOMAIN bids' : i < j => bids'[i].bidder # bids'[j].bidder
    <3> SUFFICES ASSUME NEW i \in DOMAIN bids', NEW j \in DOMAIN bids', i < j
                 PROVE  bids'[i].bidder # bids'[j].bidder
      OBVIOUS
    <3>1. InOrder(bids', bid, i, j)  BY <1>5
    <3>2. \A k, l \in DOMAIN bids : k < l => bids[k].bidder # bids[l].bidder
      <4>1. DOMAIN bids \subseteq Nat  BY ListBasics
      <4> QED BY <4>1 DEF OneBidPerBidder
    <3> QED BY <1>2, <1>4, <3>1, <3>2 DEF InOrder
  <2> QED BY <1>7, <2>1 DEF OneBidPerBidder
<1>16. PriceTimePriority'
  <2> SUFFICES ASSUME NEW i \in DOMAIN bids', NEW j \in DOMAIN bids', i < j
               PROVE  \/ bids'[i].amount < bids'[j].amount
                      \/ /\ bids'[i].amount = bids'[j].amount
                         /\ meta'[bids'[i].bidder].last_bid_timestamp
                              >= meta'[bids'[j].bidder].last_bid_timestamp
    BY DEF PriceTimePriority
  <2>1. CASE \E k, l \in DOMAIN bids : k < l /\ bids'[i] = bids[k] /\ bids'[j] = bids[l]
    <3>1. PICK k, l \in DOMAIN bids : k < l /\ bids'[i] = bids[k] /\ bids'[j] = bids[l]
      BY <2>1
    <3>2. /\ meta'[bids[k].bidder] = meta[bids[k].bidder]
          /\ meta'[bids[l].bidder] = meta[bids[l].bidder]
      BY <1>4, <1>6, <1>8
    <3> QED BY <3>1, <3>2 DEF PriceTimePriority
  <2>2. CASE bids'[j] = bid /\ \E k \in DOMAIN bids :
               bids'[i] = bids[k] /\ bids[k].amount < bid.amount
    BY <2>2
  <2>3. CASE bids'[i] = bid /\ \E k \in DOMAIN bids :
               bids'[j] = bids[k] /\ bids[k].amount >= bid.amount
    <3>1. PICK k \in DOMAIN bids : bids'[j] = bids[k] /\ bids[k].amount >= bid.amount
      BY <2>3
    <3>2. bids[k].bidder \in Bidders \ {b} /\ bids[k].amount \in Nat  BY <1>4, <1>6
    <3>3. meta'[bids[k].bidder] = meta[bids[k].bidder]  BY <1>8, <3>2
    <3>4. meta[bids[k].bidder].last_bid_timestamp <= now
      BY <3>2 DEF ListedKnown, BidTimesPast
    <3>5. meta[bids[k].bidder].last_bid_timestamp \in Nat
      <4>1. meta[bids[k].bidder] \in BidderMetadata  BY <3>2 DEF ListedKnown, TypeOK
      <4> QED BY <4>1 DEF BidderMetadata
    <3>6. meta'[bid.bidder].last_bid_timestamp = now  BY <1>2, <1>8 DEF record
    <3>7. now \in Nat /\ bid.amount \in Nat  BY <1>0, <1>2 DEF TypeOK
    <3>8. bids'[i].amount = bid.amount /\ bids'[i].bidder = bid.bidder  BY <2>3
    <3> QED BY <3>1, <3>2, <3>3, <3>4, <3>5, <3>6, <3>7, <3>8
  <2> QED BY <1>5, <2>1, <2>2, <2>3 DEF InOrder
<1>17. DeadPotsEmpty'
  <2>1. meta'[b] # None /\ ~meta'[b].cancelled  BY <1>8, <1>11 DEF record
  <2> QED BY <1>8, <2>1 DEF DeadPotsEmpty
<1>18. BidsBacked'
  <2> SUFFICES ASSUME NEW i \in DOMAIN bids'
               PROVE  LET c == bids'[i].bidder
                      IN /\ meta'[c] # None /\ ~meta'[c].cancelled
                         /\ ~pot'[c].emptied => pot'[c].amount = bids'[i].amount
    BY DEF BidsBacked
  <2>1. CASE bids'[i] = bid
    <3>1. bids'[i].bidder = b /\ bids'[i].amount = price  BY <1>2, <2>1
    <3>2. meta'[b] # None /\ ~meta'[b].cancelled  BY <1>8, <1>11 DEF record
    <3> QED BY <1>8, <3>1, <3>2
  <2>2. CASE bids'[i].bidder \in Bidders \ {b} /\ \E k \in DOMAIN bids : bids'[i] = bids[k]
    <3>1. PICK k \in DOMAIN bids : bids'[i] = bids[k]  BY <2>2
    <3> QED BY <1>1, <1>8, <2>2, <3>1 DEF BidsBacked
  <2> QED BY <1>12, <2>1, <2>2
<1> QED BY <1>9, <1>10, <1>13, <1>14, <1>15, <1>16, <1>17, <1>18

LEMMA CancelBidPreserves ==
  ASSUME AuctionInv, NEW b \in Bidders, CancelBid(b)
  PROVE  AuctionInv'
<1> USE DEF AuctionInv
<1>1. /\ now' = now /\ args' = args /\ authority' = authority /\ ended_at' = ended_at
      /\ state' = state /\ last_bid' = last_bid
      /\ price_floor' = price_floor /\ proceeds' = proceeds
      /\ meta[b] # None
      /\ wallet' = [wallet EXCEPT ![b] = @ + pot[b].amount]
      /\ pot' = [pot EXCEPT ![b].amount = 0]
      /\ meta' = [meta EXCEPT ![b].cancelled = TRUE]
  BY DEF CancelBid
<1>2. \/ state # "Ended" /\ total_uncancelled_bids' = CountWithout(b) /\ bids' = WithoutBidder(b)
      \/ state = "Ended" /\ total_uncancelled_bids' = total_uncancelled_bids /\ bids' = bids
  BY DEF CancelBid
<1>3. /\ bids' \in Seq(Bid)
      /\ \A i, j \in DOMAIN bids' : i < j =>
           \E k, l \in DOMAIN bids : k < l /\ bids'[i] = bids[k] /\ bids'[j] = bids[l]
      /\ \A i \in DOMAIN bids' : \E k \in DOMAIN bids : bids'[i] = bids[k]
      /\ state # "Ended" => \A i \in DOMAIN bids' : bids'[i].bidder # b
      /\ bids = << >> => bids' = << >>
  <2>1. CASE state = "Ended"
    <3>1. bids' = bids  BY <1>2, <2>1
    <3> QED BY <2>1, <3>1 DEF TypeOK
  <2>2. CASE state # "Ended"
    <3>1. bids' = WithoutBidder(b)  BY <1>2, <2>2
    <3>2. ~IsEnglish => bids = << >>
      <4>1. state # "Missing" \/ bids = << >>  BY DEF Phases
      <4> QED BY <4>1 DEF Phases
    <3>3. bids = << >> => bids' = << >>
      <4>1. bids = << >> => {i \in DOMAIN bids : bids[i].bidder = b} = {}  OBVIOUS
      <4> QED BY <3>1, <4>1 DEF WithoutBidder
    <3> QED BY <3>1, <3>2, <3>3, WithoutBidderKeepsOrder
  <2> QED BY <2>1, <2>2
<1>4. /\ DOMAIN bids \subseteq Nat /\ DOMAIN bids' \subseteq Nat
      /\ \A i \in DOMAIN bids : bids[i].bidder \in Bidders
  BY <1>3, ListBasics, LenProperties
<1>5. meta[b] \in BidderMetadata  BY <1>1 DEF TypeOK
<1>6. [meta[b] EXCEPT !.cancelled = TRUE] \in BidderMetadata  BY <1>5 DEF BidderMetadata
<1>7. /\ meta' \in [Bidders -> BidderMetadata \cup {None}]
      /\ meta'[b] # None /\ meta'[b].cancelled
      /\ meta'[b].last_bid_timestamp = meta[b].last_bid_timestamp
      /\ \A c \in Bidders \ {b} : meta'[c] = meta[c]
  <2>1. meta \in [Bidders -> BidderMetadata \cup {None}]  BY DEF TypeOK
  <2>2. meta' \in [Bidders -> BidderMetadata \cup {None}]  BY <1>1, <1>6, <2>1
  <2>3. meta'[b] = [meta[b] EXCEPT !.cancelled = TRUE]  BY <1>1, <2>1
  <2>4. meta'[b] # None  BY <1>6, <2>3, AuctionAssumption
  <2>5. meta'[b].cancelled /\ meta'[b].last_bid_timestamp = meta[b].last_bid_timestamp
    BY <1>5, <2>3 DEF BidderMetadata
  <2>6. \A c \in Bidders \ {b} : meta'[c] = meta[c]  BY <1>1, <2>1
  <2> QED BY <2>2, <2>4, <2>5, <2>6
<1>8. /\ pot' \in [Bidders -> BidderPot] /\ wallet' \in [Bidders -> Nat]
      /\ pot'[b].amount = 0
      /\ \A c \in Bidders \ {b} : pot'[c] = pot[c]
  <2>1. pot \in [Bidders -> BidderPot] /\ wallet \in [Bidders -> Nat]  BY DEF TypeOK
  <2>2. wallet[b] + pot[b].amount \in Nat  BY <2>1 DEF BidderPot
  <2> QED BY <1>1, <2>1, <2>2 DEF BidderPot
<1>9. TypeOK'
  <2>1. total_uncancelled_bids' \in Nat  BY <1>2 DEF CountWithout, TypeOK
  <2> QED BY <1>1, <1>3, <1>7, <1>8, <2>1 DEF TypeOK
<1>10. Phases'
  BY <1>1, <1>3 DEF Phases, IsEnglish
<1>11. ListedKnown'
  BY <1>3, <1>4, <1>7 DEF ListedKnown
<1>12. BidTimesPast'
  BY <1>1, <1>7 DEF BidTimesPast
<1>13. OneBidPerBidder'
  <2>1. \A i, j \in DOMAIN bids' : i < j => bids'[i].bidder # bids'[j].bidder
    BY <1>3, <1>4 DEF OneBidPerBidder
  <2> QED BY <1>4, <2>1 DEF OneBidPerBidder
<1>14. PriceTimePriority'
  <2> SUFFICES ASSUME NEW i \in DOMAIN bids', NEW j \in DOMAIN bids', i < j
               PROVE  \/ bids'[i].amount < bids'[j].amount
                      \/ /\ bids'[i].amount = bids'[j].amount
                         /\ meta'[bids'[i].bidder].last_bid_timestamp
                              >= meta'[bids'[j].bidder].last_bid_timestamp
    BY DEF PriceTimePriority
  <2>1. PICK k, l \in DOMAIN bids : k < l /\ bids'[i] = bids[k] /\ bids'[j] = bids[l]
    BY <1>3
  <2>2. /\ meta'[bids[k].bidder].last_bid_timestamp = meta[bids[k].bidder].last_bid_timestamp
        /\ meta'[bids[l].bidder].last_bid_timestamp = meta[bids[l].bidder].last_bid_timestamp
    BY <1>4, <1>7
  <2> QED BY <2>1, <2>2 DEF PriceTimePriority
<1>15. DeadPotsEmpty'
  BY <1>7, <1>8 DEF DeadPotsEmpty
<1>16. BidsBacked'
  <2> SUFFICES ASSUME state' # "Ended", NEW i \in DOMAIN bids'
               PROVE  LET c == bids'[i].bidder
                      IN /\ meta'[c] # None /\ ~meta'[c].cancelled
                         /\ ~pot'[c].emptied => pot'[c].amount = bids'[i].amount
    BY DEF BidsBacked
  <2>1. bids'[i].bidder # b /\ state # "Ended"  BY <1>1, <1>3
  <2>2. PICK k \in DOMAIN bids : bids'[i] = bids[k]  BY <1>3
  <2> QED BY <1>4, <1>7, <1>8, <2>1, <2>2 DEF BidsBacked
<1> QED BY <1>9, <1>10, <1>11, <1>12, <1>13, <1>14, <1>15, <1>16

LEMMA ClaimBidPreserves ==
  ASSUME AuctionInv, NEW s \in Authorities, NEW b \in Bidders, NEW extended \in BOOLEAN,
         ClaimBid(s, b, extended)
  PROVE  AuctionInv'
<1> USE DEF AuctionInv
<1>1. /\ UNCHANGED <<now, auctionVars, total_uncancelled_bids, meta, wallet>>
      /\ proceeds' = proceeds + pot[b].amount
      /\ pot' = [pot EXCEPT ![b].amount = 0, ![b].emptied = TRUE]
  BY DEF ClaimBid
<1>2. /\ pot' \in [Bidders -> BidderPot]
      /\ pot'[b].amount = 0 /\ pot'[b].emptied
      /\ \A c \in Bidders \ {b} : pot'[c] = pot[c]
  BY <1>1 DEF TypeOK, BidderPot
<1>3. proceeds' \in Nat
  BY <1>1 DEF TypeOK, BidderPot
<1>4. TypeOK'
  BY <1>1, <1>2, <1>3 DEF TypeOK, auctionVars
<1>5. Phases' /\ ListedKnown' /\ BidTimesPast' /\ OneBidPerBidder' /\ PriceTimePriority'
  BY <1>1 DEF auctionVars, Phases, ListedKnown, BidTimesPast, OneBidPerBidder,
              PriceTimePriority, IsEnglish
<1>6. DeadPotsEmpty'
  BY <1>1, <1>2 DEF DeadPotsEmpty
<1>7. BidsBacked'
  <2>1. \A i \in DOMAIN bids : bids[i].bidder \in Bidders  BY ListBasics
  <2> QED BY <1>1, <1>2, <2>1 DEF BidsBacked, auctionVars
<1> QED BY <1>4, <1>5, <1>6, <1>7

LEMMA AuctionInvInit == Init => AuctionInv
<1> SUFFICES ASSUME Init PROVE AuctionInv  OBVIOUS
<1> USE DEF Init
<1>1. bids = << >> /\ bids \in Seq(Bid) /\ DOMAIN bids = {}  OBVIOUS
<1>2. TypeOK  BY <1>1, AuctionAssumption DEF TypeOK, BidderPot
<1>3. Phases /\ ListedKnown /\ OneBidPerBidder /\ PriceTimePriority /\ BidsBacked
  BY <1>1 DEF Phases, ListedKnown, OneBidPerBidder, PriceTimePriority, BidsBacked
<1>4. BidTimesPast /\ DeadPotsEmpty  BY DEF BidTimesPast, DeadPotsEmpty
<1> QED BY <1>2, <1>3, <1>4 DEF AuctionInv

LEMMA AuctionInvStep == AuctionInv /\ [Next]_vars => AuctionInv'
<1> SUFFICES ASSUME AuctionInv, [Next]_vars PROVE AuctionInv'  OBVIOUS
<1> USE DEF AuctionInv
<1>1. ASSUME NEW a \in AuctionArgs, NEW s \in Authorities, CreateAuction(a, s)
      PROVE  AuctionInv'
  <2>1. a \in AuctionArgsType /\ a # None  BY AuctionAssumption
  <2>2. bids = << >> /\ DOMAIN bids = {}  BY <1>1 DEF CreateAuction, Phases
  <2>3. TypeOK'
    BY <1>1, <2>1 DEF CreateAuction, TypeOK, bidderVars, AuctionArgsType
  <2> QED BY <1>1, <2>2, <2>3 DEF CreateAuction, bidderVars, Phases, ListedKnown, BidTimesPast,
             OneBidPerBidder, PriceTimePriority, DeadPotsEmpty, BidsBacked
<1>2. ASSUME NEW s \in Authorities, StartAuction(s)
      PROVE  AuctionInv'
  <2>1. ended_at' \in Nat \cup {None}
    <3>1. args \in AuctionArgsType  BY <1>2, AuctionAssumption DEF StartAuction, TypeOK
    <3>2. args.end_auction_at \in Nat \cup {None}  BY <3>1 DEF AuctionArgsType
    <3> QED BY <1>2, <3>2 DEF StartAuction, TypeOK
  <2>2. TypeOK'  BY <1>2, <2>1 DEF StartAuction, TypeOK, bidderVars
  <2> QED BY <1>2, <2>2 DEF StartAuction, bidderVars, Phases, ListedKnown, BidTimesPast,
             OneBidPerBidder, PriceTimePriority, DeadPotsEmpty, BidsBacked, IsEnglish
<1>3. ASSUME NEW s \in Authorities, EndAuction(s)
      PROVE  AuctionInv'
  <2>1. price_floor' \in [kind : {"None", "Minimum", "Blinded"}, price : Nat]
    BY <1>3 DEF EndAuction, TypeOK
  <2>2. TypeOK'  BY <1>3, <2>1 DEF EndAuction, TypeOK, bidderVars
  <2> QED BY <1>3, <2>2 DEF EndAuction, bidderVars, Phases, ListedKnown, BidTimesPast,
             OneBidPerBidder, PriceTimePriority, DeadPotsEmpty, BidsBacked, IsEnglish
<1>4. ASSUME NEW s \in Authorities, NEW new \in Authorities, SetAuthority(s, new)
      PROVE  AuctionInv'
  BY <1>4 DEF SetAuthority, bidderVars, TypeOK, Phases, ListedKnown, BidTimesPast,
              OneBidPerBidder, PriceTimePriority, DeadPotsEmpty, BidsBacked, IsEnglish
<1>5. CASE PlaceBidTooLate
  BY <1>5 DEF PlaceBidTooLate, bidderVars, TypeOK, Phases, ListedKnown, BidTimesPast,
              OneBidPerBidder, PriceTimePriority, DeadPotsEmpty, BidsBacked, IsEnglish
<1>6. ASSUME NEW b \in Bidders, NEW amount \in Amounts, PlaceBid(b, amount)
      PROVE  AuctionInv'
  BY <1>6, PlaceBidPreserves
<1>7. ASSUME NEW b \in Bidders, CancelBid(b)
      PROVE  AuctionInv'
  BY <1>7, CancelBidPreserves
<1>8. ASSUME NEW s \in Authorities, NEW b \in Bidders, NEW extended \in BOOLEAN,
             ClaimBid(s, b, extended)
      PROVE  AuctionInv'
  BY <1>8, ClaimBidPreserves
<1>9. CASE Tick
  <2>1. now' \in Nat /\ now \in Nat /\ now' = now + 1  BY <1>9 DEF Tick, TypeOK
  <2>2. UNCHANGED <<auctionVars, total_uncancelled_bids, bidderVars, proceeds>>
    BY <1>9 DEF Tick
  <2>3. BidTimesPast'
    <3> SUFFICES ASSUME NEW b \in Bidders, meta[b] # None
                 PROVE  meta[b].last_bid_timestamp <= now + 1
      BY <2>1, <2>2 DEF BidTimesPast, bidderVars
    <3>1. meta[b].last_bid_timestamp \in Nat  BY DEF TypeOK, BidderMetadata
    <3> QED BY <2>1, <3>1 DEF BidTimesPast
  <2> QED BY <2>1, <2>2, <2>3 DEF auctionVars, bidderVars, TypeOK, Phases, ListedKnown,
             OneBidPerBidder, PriceTimePriority, DeadPotsEmpty, BidsBacked, IsEnglish
<1>10. CASE UNCHANGED vars
  BY <1>10 DEF vars, auctionVars, bidderVars, TypeOK, Phases, ListedKnown, BidTimesPast,
               OneBidPerBidder, PriceTimePriority, DeadPotsEmpty, BidsBacked, IsEnglish
<1> QED BY <1>1, <1>2, <1>3, <1>4, <1>5, <1>6, <1>7, <1>8, <1>9, <1>10 DEF Next
----------------------------------------------------------------------------
LEMMA AuctionInvariant == Spec => []AuctionInv
  BY AuctionInvInit, AuctionInvStep, PTL DEF Spec

(* The accounts of an auction keep their types through every instruction.  *)
THEOREM TypeCorrect == Spec => []TypeOK
<1>1. AuctionInv => TypeOK  BY DEF AuctionInv
<1> QED BY <1>1, AuctionInvariant, PTL

(* However bids are placed, dropped, cancelled and placed again,           *)
(* BidState::place_bid and cancel_bid never list a bidder twice.           *)
THEOREM ListsOncePerBidder == Spec => []OneBidPerBidder
<1>1. AuctionInv => OneBidPerBidder  BY DEF AuctionInv
<1> QED BY <1>1, AuctionInvariant, PTL

(* The scan of BidState::place_bid, which stops at the first lower bid or  *)
(* the first of the equal ones, keeps the list in price and time order.    *)
THEOREM ListsByPriceThenTime == Spec => []PriceTimePriority
<1>1. AuctionInv => PriceTimePriority  BY DEF AuctionInv
<1> QED BY <1>1, AuctionInvariant, PTL

(* Until the auction is marked Ended, every listed bid is covered by the   *)
(* pot of its bidder, unless the authority has already claimed it.         *)
THEOREM ListedBidsAreBacked == Spec => []BidsBacked
<1>1. AuctionInv => BidsBacked  BY DEF AuctionInv
<1> QED BY <1>1, AuctionInvariant, PTL
----------------------------------------------------------------------------
(***************************************************************************)
(* Winners.  Once the auction is over only losers can still leave the      *)
(* list, and they stand below the winners or under the floor.              *)
(***************************************************************************)

(* The bid at place i of a list is one of bidder b that wins.               *)
WonAt(list, floor, max, b, i) ==
  list[i].bidder = b /\ list[i].amount >= floor /\ Len(list) - i < max

(* With one bid per bidder, BidState::is_winner looks at that bid.          *)
LEMMA WinnerPlace ==
  ASSUME NEW list \in Seq(Bid), NEW floor \in Nat, NEW max \in Nat, NEW b \in Bidders,
         \A i, j \in DOMAIN list : list[i].bidder = list[j].bidder => i = j,
         NEW places,
         places = {i \in DOMAIN list : list[i].bidder = b /\ list[i].amount >= floor}
  PROVE  (places # {} /\ Len(list) - Min(places) < max)
           <=> \E i \in DOMAIN list : WonAt(list, floor, max, b, i)
<1>1. Len(list) \in Nat /\ DOMAIN list = 1 .. Len(list)  BY LenProperties
<1>2. CASE places = {}  BY <1>2 DEF WonAt
<1>3. CASE places # {}
  <2>1. places \in SUBSET Nat  BY <1>1
  <2>2. Min(places) \in places  BY <1>3, <2>1, MinOfNat
  <2>3. PICK p \in DOMAIN list : p = Min(places)  BY <2>2
  <2>4. list[p].bidder = b /\ list[p].amount >= floor  BY <2>2, <2>3
  <2>5. \A i \in DOMAIN list : list[i].bidder = b => i = p  BY <2>4
  <2> QED BY <1>3, <2>3, <2>4, <2>5 DEF WonAt
<1> QED BY <1>2, <1>3

(* The same for the winners of a state and of the state after it.           *)
WonPlace(b) == \E i \in DOMAIN bids : WonAt(bids, Minimum, args.max, b, i)

LEMMA ArgsTypes ==
  ASSUME TypeOK, state # "Missing"
  PROVE  /\ args \in AuctionArgsType /\ args.max \in Nat
         /\ args.instant_sale_price \in Nat \cup {None}
         /\ args.end_auction_gap \in Nat \cup {None}
<1>1. args \in AuctionArgsType  BY AuctionAssumption DEF TypeOK
<1> QED BY <1>1 DEF AuctionArgsType

LEMMA IsWinnerAt ==
  ASSUME AuctionInv, NEW b \in Bidders
  PROVE  IsWinner(b) <=> state # "Missing" /\ IsEnglish /\ WonPlace(b)
<1>1. CASE state = "Missing"  BY <1>1 DEF IsWinner
<1>2. CASE state # "Missing"
  <2>1. args.max \in Nat  BY <1>2, ArgsTypes DEF AuctionInv
  <2>2. bids \in Seq(Bid) /\ Minimum \in Nat  BY DEF AuctionInv, TypeOK, Minimum
  <2>3. \A i, j \in DOMAIN bids : bids[i].bidder = bids[j].bidder => i = j
    BY DEF AuctionInv, OneBidPerBidder
  <2>4. (PlacesOf(b) # {} /\ Len(bids) - Min(PlacesOf(b)) < args.max) <=> WonPlace(b)
    BY <2>1, <2>2, <2>3, WinnerPlace DEF PlacesOf, WonPlace
  <2> QED BY <1>2, <2>4 DEF IsWinner
<1> QED BY <1>1, <1>2

LEMMA IsWinnerAtNext ==
  ASSUME AuctionInv', NEW b \in Bidders
  PROVE  IsWinner(b)' <=> state' # "Missing" /\ IsEnglish' /\ WonPlace(b)'
<1>1. CASE state' = "Missing"  BY <1>1 DEF IsWinner
<1>2. CASE state' # "Missing"
  <2>1. args'.max \in Nat
    <3>1. args' \in AuctionArgsType  BY <1>2, AuctionAssumption DEF AuctionInv, TypeOK
    <3> QED BY <3>1 DEF AuctionArgsType
  <2>2. bids' \in Seq(Bid) /\ Minimum' \in Nat  BY DEF AuctionInv, TypeOK, Minimum
  <2>3. \A i, j \in DOMAIN bids' : bids'[i].bidder = bids'[j].bidder => i = j
    BY DEF AuctionInv, OneBidPerBidder
  <2>4. (PlacesOf(b)' # {} /\ Len(bids') - Min(PlacesOf(b)') < args'.max) <=> WonPlace(b)'
    BY <2>1, <2>2, <2>3, WinnerPlace DEF PlacesOf, WonPlace
  <2> QED BY <1>2, <2>4 DEF IsWinner
<1> QED BY <1>1, <1>2

(* An instruction that leaves the list, the arguments and the floor leaves  *)
(* the winners.                                                             *)
LEMMA SameListSameWinners ==
  ASSUME state # "Missing", state' # "Missing", args' = args, bids' = bids,
         price_floor' = price_floor
  PROVE  Winners' = Winners
BY DEF Winners, IsWinner, IsEnglish, PlacesOf, Minimum

(* cancel_bid takes one place out of the list and closes the gap.           *)
LEMMA WithoutListed ==
  ASSUME AuctionInv, IsEnglish, NEW b \in Bidders, NEW p \in DOMAIN bids, bids[p].bidder = b,
         NEW list, list = WithoutBidder(b)
  PROVE  /\ list \in Seq(Bid) /\ Len(list) = Len(bids) - 1
         /\ DOMAIN list = 1 .. Len(bids) - 1
         /\ \A i \in 1 .. p - 1 : list[i] = bids[i]
         /\ \A i \in p .. Len(bids) - 1 : list[i] = bids[i + 1]
<1> DEFINE own == {i \in DOMAIN bids : bids[i].bidder = b}
<1>1. Len(bids) \in Nat /\ DOMAIN bids = 1 .. Len(bids) /\ bids \in Seq(Bid)
  BY ListBasics DEF AuctionInv, TypeOK
<1>2. own # {} /\ own \in SUBSET Nat  BY <1>1
<1>3. Min(own) \in own  BY <1>2, MinOfNat
<1>4. Min(own) = p  BY <1>3 DEF AuctionInv, OneBidPerBidder
<1>5. list = RemoveAt(bids, p) /\ p \in 1 .. Len(bids)  BY <1>1, <1>2, <1>4 DEF WithoutBidder
<1> HIDE DEF own
<1>6. /\ list \in Seq(Bid) /\ Len(list) = Len(bids) - 1
      /\ \A i \in 1 .. p - 1 : list[i] = bids[i]
      /\ \A i \in p .. Len(bids) - 1 : list[i] = bids[i + 1]
  BY <1>1, <1>5, RemoveAtProperties
<1>7. DOMAIN list = 1 .. Len(bids) - 1  BY <1>6, LenProperties
<1> QED BY <1>6, <1>7

LEMMA WithoutUnlisted ==
  ASSUME NEW b \in Bidders, ~IsEnglish \/ \A p \in DOMAIN bids : bids[p].bidder # b
  PROVE  WithoutBidder(b) = bids
BY DEF WithoutBidder

(* A bidder who does not win leaves the winners as they are.                *)
LEMMA LoserLeaves ==
  ASSUME AuctionInv, AuctionInv', NEW b \in Bidders, state # "Missing", ~IsWinner(b),
         state' = state, args' = args, price_floor' = price_floor,
         bids' = WithoutBidder(b)
  PROVE  Winners' = Winners
<1>1. CASE ~IsEnglish \/ \A p \in DOMAIN bids : bids[p].bidder # b
  BY <1>1, WithoutUnlisted, SameListSameWinners
<1>2. CASE IsEnglish /\ \E p \in DOMAIN bids : bids[p].bidder = b
  <2> DEFINE floor == Minimum
             max == args.max
  <2>1. PICK p \in DOMAIN bids : bids[p].bidder = b  BY <1>2
  <2>2. /\ bids' \in Seq(Bid) /\ Len(bids') = Len(bids) - 1
        /\ DOMAIN bids' = 1 .. Len(bids) - 1
        /\ \A i \in 1 .. p - 1 : bids'[i] = bids[i]
        /\ \A i \in p .. Len(bids) - 1 : bids'[i] = bids[i + 1]
    BY <1>2, <2>1, WithoutListed
  <2>3. /\ Len(bids) \in Nat /\ DOMAIN bids = 1 .. Len(bids)
        /\ \A i \in DOMAIN bids : bids[i].amount \in Nat
    BY ListBasics DEF AuctionInv
  <2>4. floor \in Nat /\ max \in Nat
    BY ArgsTypes DEF AuctionInv, TypeOK, Minimum
  <2>5. PriceSorted  BY PriorityIsSorted DEF AuctionInv
  <2>6. bids[p].amount < floor \/ Len(bids) - p >= max
    <3>1. ~WonPlace(b)  BY <1>2, IsWinnerAt
    <3>2. ~WonAt(bids, floor, max, b, p)  BY <3>1 DEF WonPlace
    <3> QED BY <2>1, <2>3, <2>4, <3>2 DEF WonAt
  <2>7. floor' = floor /\ max' = max /\ IsEnglish' = IsEnglish
    BY DEF Minimum, IsEnglish
  <2>8. \A c \in Bidders :
          WonPlace(c)' <=> \E i \in DOMAIN bids' : WonAt(bids', floor, max, c, i)
    BY <2>7 DEF WonPlace
  <2>9. \A c \in Bidders : WonPlace(c) <=> \E i \in DOMAIN bids : WonAt(bids, floor, max, c, i)
    BY DEF WonPlace
  <2> HIDE DEF floor, max
  <2>10. ASSUME NEW c \in Bidders
         PROVE  WonPlace(c)' <=> WonPlace(c)
    <3>1. ASSUME NEW i \in DOMAIN bids, WonAt(bids, floor, max, c, i)
          PROVE  \E j \in DOMAIN bids' : WonAt(bids', floor, max, c, j)
      <4>1. i # p  BY <2>1, <2>3, <2>4, <2>6, <3>1 DEF WonAt
      <4>2. CASE i < p
        <5>1. bids[i].amount <= bids[p].amount  BY <2>1, <2>5, <4>2 DEF PriceSorted
        <5>2. bids[p].amount >= floor  BY <2>3, <2>4, <3>1, <5>1 DEF WonAt
        <5> QED BY <2>3, <2>4, <2>6, <3>1, <4>2, <5>2 DEF WonAt
      <4>3. CASE p < i
        <5>1. i - 1 \in p .. Len(bids) - 1 /\ i - 1 \in DOMAIN bids' /\ (i - 1) + 1 = i
          BY <2>2, <2>3, <4>3
        <5>2. bids'[i - 1] = bids[i]  BY <2>2, <5>1
        <5>3. Len(bids') - (i - 1) = Len(bids) - i  BY <2>2, <2>3
        <5> QED BY <3>1, <5>1, <5>2, <5>3 DEF WonAt
      <4> QED BY <2>3, <4>1, <4>2, <4>3
    <3>2. ASSUME NEW j \in DOMAIN bids', WonAt(bids', floor, max, c, j)
          PROVE  \E i \in DOMAIN bids : WonAt(bids, floor, max, c, i)
      <4>1. CASE j >= p
        <5>1. j \in p .. Len(bids) - 1 /\ j + 1 \in DOMAIN bids  BY <2>2, <2>3, <4>1
        <5>2. bids'[j] = bids[j + 1]  BY <2>2, <5>1
        <5>3. Len(bids') - j = Len(bids) - (j + 1)  BY <2>2, <2>3, <5>1
        <5> QED BY <3>2, <5>1, <5>2, <5>3 DEF WonAt
      <4>2. CASE j < p
        <5>1. j \in 1 .. p - 1 /\ j \in DOMAIN bids  BY <2>2, <2>3, <4>2
        <5>2. bids'[j] = bids[j]  BY <2>2, <5>1
        <5>3. bids[j].amount <= bids[p].amount  BY <2>1, <2>5, <4>2, <5>1 DEF PriceSorted
        <5>4. bids[j].amount >= floor /\ Len(bids) - 1 - j < max
          BY <2>2, <3>2, <5>2 DEF WonAt
        <5>5. bids[p].amount >= floor  BY <2>3, <2>4, <5>1, <5>3, <5>4
        <5>6. Len(bids) - 1 - j >= Len(bids) - p  BY <2>3, <4>2, <5>1
        <5> QED BY <2>3, <2>4, <2>6, <5>1, <5>4, <5>5, <5>6
      <4> QED BY <2>2, <2>3, <4>1, <4>2
    <3> QED BY <2>8, <2>9, <3>1, <3>2
  <2>11. ASSUME NEW c \in Bidders
         PROVE  IsWinner(c)' <=> IsWinner(c)
    BY <2>7, <2>10, IsWinnerAt, IsWinnerAtNext
  <2> QED BY <2>11 DEF Winners
<1> QED BY <1>1, <1>2

(* Over stays over: the end is set once, and bids, which could extend it,   *)
(* are refused.                                                             *)
LEMMA EndedStays ==
  ASSUME AuctionInv, Ended, [Next]_vars
  PROVE  Ended'
<1>1. state # "Missing" /\ state # "Created" /\ ended_at # None
  BY DEF AuctionInv, Phases, Ended
<1>2. ended_at \in Nat /\ now \in Nat /\ last_bid \in Nat \cup {None}
  BY <1>1 DEF AuctionInv, TypeOK
<1>3. args.end_auction_gap \in Nat \cup {None}  BY <1>1, ArgsTypes DEF AuctionInv
<1>4. ended_at' = ended_at /\ args' = args /\ last_bid' = last_bid
  BY <1>1 DEF Next, vars, auctionVars, bidderVars, CreateAuction, StartAuction, EndAuction,
              SetAuthority, PlaceBidTooLate, PlaceBid, CancelBid, ClaimBid, Tick
<1>5. now' = now \/ now' = now + 1
  BY DEF Next, vars, CreateAuction, StartAuction, EndAuction,
         SetAuthority, PlaceBidTooLate, PlaceBid, CancelBid, ClaimBid, Tick
<1> QED BY <1>2, <1>3, <1>4, <1>5, AuctionAssumption DEF Ended

(* After the end no step changes who has won.                               *)
LEMMA WinnersStay ==
  ASSUME AuctionInv, [Next]_vars, state = "Ended" \/ Ended
  PROVE  Winners' = Winners
<1>1. AuctionInv'  BY AuctionInvStep
<1>2. state \in {"Started", "Ended"}
  BY DEF AuctionInv, TypeOK, Phases, Ended
<1>3. ASSUME NEW s \in Authorities, EndAuction(s) PROVE FALSE
  BY <1>2, <1>3 DEF EndAuction, Ended
<1>4. ASSUME NEW b \in Bidders, CancelBid(b) PROVE Winners' = Winners
  <2>1. state' = state /\ args' = args /\ price_floor' = price_floor  BY <1>4 DEF CancelBid
  <2>2. CASE state = "Ended"
    <3>1. bids' = bids  BY <1>4, <2>2 DEF CancelBid
    <3> QED BY <2>1, <2>2, <3>1, SameListSameWinners
  <2>3. CASE state # "Ended"
    <3>1. ~IsWinner(b) /\ bids' = WithoutBidder(b)
      BY <1>4, <2>3 DEF CancelBid, CancelRefused
    <3> QED BY <1>1, <1>2, <2>1, <3>1, LoserLeaves
  <2> QED BY <2>2, <2>3
<1>5. ASSUME ~ \E b \in Bidders : CancelBid(b) PROVE Winners' = Winners
  <2>1. /\ args' = args /\ bids' = bids /\ price_floor' = price_floor
        /\ state' # "Missing" /\ state # "Missing"
    BY <1>2, <1>3, <1>5 DEF Next, vars, auctionVars, CreateAuction, StartAuction,
         SetAuthority, PlaceBidTooLate, PlaceBid, ClaimBid, Tick
  <2> QED BY <2>1, SameListSameWinners
<1> QED BY <1>4, <1>5

(* Once the auction is over, by its mark or by the clock, no instruction   *)
(* changes the winners: cancel_bid refuses them, or leaves the list alone, *)
(* and the losers it lets go stand below them or under the floor.          *)
THEOREM WinnersAreFinal == Spec => WinnersFinal
<1>1. AuctionInv /\ [Next]_vars => [(state = "Ended" \/ Ended) => Winners' = Winners]_vars
  BY WinnersStay
<1> QED BY <1>1, AuctionInvariant, PTL DEF Spec, WinnersFinal
----------------------------------------------------------------------------
(***************************************************************************)
(* Custody: every step of the auction is one of EscrowCustody.  A bid that *)
(* was claimed must go on winning, also when it was claimed before the end *)
(* for the instant sale price.                                             *)
(***************************************************************************)

(* Assumed of the arguments: nobody pays the instant sale price and stays   *)
(* under the hidden floor.  create_auction does not ask for it; without it  *)
(* end_auction reveals a floor above bids that were claimed.                *)
FloorsWithinReach ==
  \A a \in AuctionArgs : (a.price_floor.kind = "Blinded" /\ a.instant_sale_price # None)
                           => a.price_floor.price <= a.instant_sale_price

PaidInstant(i) ==
  args.instant_sale_price # None /\ bids[i].amount >= args.instant_sale_price

(* Whoever was claimed wins, and the auction is over or the price was the   *)
(* instant one, which nobody can outbid.                                    *)
PaidWon ==
  \A b \in Bidders : pot[b].emptied =>
    /\ state \in {"Started", "Ended"} /\ IsEnglish
    /\ \E i \in DOMAIN bids : /\ WonAt(bids, Minimum, args.max, b, i)
                              /\ Ended \/ PaidInstant(i)

(* A floor is hidden as it was created.                                     *)
FloorKept ==
  state # "Missing" /\ price_floor.kind = "Blinded" => price_floor = args.price_floor

CustodyInv == AuctionInv /\ PaidWon /\ FloorKept

(* A claimed winner is refused a refund.                                    *)
LEMMA PaidRefused ==
  ASSUME CustodyInv, NEW b \in Bidders, pot[b].emptied
  PROVE  IsWinner(b) /\ CancelRefused(b)
<1>1. PICK i \in DOMAIN bids : /\ WonAt(bids, Minimum, args.max, b, i)
                               /\ Ended \/ PaidInstant(i)
  BY DEF CustodyInv, PaidWon
<1>2. IsWinner(b)
  <2>1. state # "Missing" /\ IsEnglish  BY DEF CustodyInv, PaidWon
  <2> QED BY <1>1, <2>1, IsWinnerAt DEF CustodyInv, WonPlace
<1>3. CASE Ended  BY <1>2, <1>3 DEF CancelRefused
<1>4. CASE PaidInstant(i)
  <2>1. i \in PlacesOf(b)  BY <1>1 DEF WonAt, PlacesOf
  <2>2. PlacesOf(b) \in SUBSET Nat  BY ListBasics DEF CustodyInv, AuctionInv, PlacesOf
  <2>3. Min(PlacesOf(b)) \in PlacesOf(b)  BY <2>1, <2>2, MinOfNat
  <2>4. Min(PlacesOf(b)) = i
    BY <2>1, <2>3 DEF PlacesOf, CustodyInv, AuctionInv, OneBidPerBidder
  <2> QED BY <1>2, <1>4, <2>4 DEF CancelRefused, PaysInstantPrice, WinningAmount, PaidInstant
<1> QED BY <1>1, <1>3, <1>4

(* A bid stays as near to the top as it was when no higher one is placed:   *)
(* place_bid inserts below it, and drops only the lowest.                   *)
LEMMA PlacedBelow ==
  ASSUME AuctionInv, IsEnglish, NEW bid \in Bid, NEW i \in DOMAIN bids,
         bids[i].amount >= bid.amount, NEW list, list = WithBid(bid)
  PROVE  \E j \in DOMAIN list : list[j] = bids[i] /\ Len(list) - j = Len(bids) - i
<1> DEFINE p == InsertPlace(bid.amount)
           inserted == InsertAt(bids, p, bid)
<1>1. /\ Len(bids) \in Nat /\ DOMAIN bids = 1 .. Len(bids) /\ bids \in Seq(Bid)
      /\ \A k \in DOMAIN bids : bids[k].amount \in Nat
  BY ListBasics DEF AuctionInv, TypeOK
<1>2. bid.amount \in Nat  BY DEF Bid
<1>3. PriceSorted  BY PriorityIsSorted DEF AuctionInv
<1>4. /\ p \in 1 .. Len(bids) + 1
      /\ \A k \in 1 .. p - 1 : bids[k].amount < bid.amount
  BY <1>2, <1>3, PlaceOfBid DEF AuctionInv
<1>5. list = inserted \/ list = Tail(inserted)  BY DEF WithBid
<1>6. i >= p  BY <1>1, <1>2, <1>4
<1> HIDE DEF p
<1>7. /\ inserted \in Seq(Bid) /\ Len(inserted) = Len(bids) + 1
      /\ \A k \in p + 1 .. Len(bids) + 1 : inserted[k] = bids[k - 1]
  <2>1. bids \in Seq(Bid) /\ p \in 1 .. Len(bids) + 1 /\ bid \in Bid  BY <1>1, <1>4
  <2>2. InsertAt(bids, p, bid) \in Seq(Bid)  BY <2>1, InsertAtProperties
  <2>3. Len(InsertAt(bids, p, bid)) = Len(bids) + 1  BY <2>1, InsertAtProperties
  <2>4. \A k \in p + 1 .. Len(bids) + 1 : InsertAt(bids, p, bid)[k] = bids[k - 1]
    BY <2>1, InsertAtProperties
  <2> QED BY <2>2, <2>3, <2>4
<1> HIDE DEF inserted
<1>8. inserted[i + 1] = bids[i] /\ i + 1 \in 1 .. Len(inserted)
  <2>1. i + 1 \in p + 1 .. Len(bids) + 1 /\ (i + 1) - 1 = i  BY <1>1, <1>4, <1>6
  <2>2. inserted[i + 1] = bids[(i + 1) - 1]  BY <1>7, <2>1
  <2> QED BY <1>1, <1>7, <2>1, <2>2
<1>9. CASE list = inserted
  <2>1. DOMAIN list = 1 .. Len(list)  BY <1>7, <1>9, LenProperties
  <2>2. i + 1 \in DOMAIN list /\ Len(list) - (i + 1) = Len(bids) - i
    <3>1. Len(list) = Len(bids) + 1  BY <1>7, <1>9
    <3>2. i \in 1 .. Len(bids) /\ Len(bids) \in Nat  BY <1>1
    <3> QED BY <2>1, <3>1, <3>2
  <2>3. list[i + 1] = bids[i]  BY <1>8, <1>9
  <2> QED BY <2>2, <2>3
<1>10. CASE list = Tail(inserted)
  <2>1. inserted # << >>
    <3>1. Len(inserted) # 0  BY <1>1, <1>7
    <3> QED BY <1>7, <3>1, EmptySeq
  <2>2. /\ list \in Seq(Bid) /\ Len(list) = Len(inserted) - 1
        /\ \A k \in 1 .. Len(list) : list[k] = inserted[k + 1]
    BY <1>7, <1>10, <2>1, HeadTailProperties
  <2>3. DOMAIN list = 1 .. Len(list)  BY <2>2, LenProperties
  <2>4. i \in DOMAIN list /\ Len(list) - i = Len(bids) - i  BY <1>1, <1>7, <2>2, <2>3
  <2>5. list[i] = inserted[i + 1]  BY <2>2, <2>3, <2>4
  <2> QED BY <1>8, <2>4, <2>5
<1> QED BY <1>5, <1>9, <1>10

(* Claimed bids go on winning, one kind of instruction at a time.           *)
LEMMA PaidStaysWon ==
  ASSUME FloorsWithinReach, CustodyInv, AuctionInv', [Next]_vars,
         NEW c \in Bidders, pot[c].emptied
  PROVE  /\ state' \in {"Started", "Ended"} /\ IsEnglish'
         /\ \E i \in DOMAIN bids' : /\ WonAt(bids', Minimum', args'.max, c, i)
                                    /\ Ended' \/ PaidInstant(i)'
<1>1. state \in {"Started", "Ended"} /\ IsEnglish  BY DEF CustodyInv, PaidWon
<1>2. PICK i \in DOMAIN bids : /\ WonAt(bids, Minimum, args.max, c, i)
                               /\ Ended \/ PaidInstant(i)
  BY DEF CustodyInv, PaidWon
<1>3. state' \in {"Started", "Ended"} /\ args' = args
  BY <1>1 DEF Next, vars, auctionVars, CreateAuction, StartAuction, EndAuction,
              SetAuthority, PlaceBidTooLate, PlaceBid, CancelBid, ClaimBid, Tick
<1>4. IsEnglish'  BY <1>1, <1>3 DEF IsEnglish
<1>5. CASE Ended
  <2>1. Ended'  BY <1>5, EndedStays DEF CustodyInv
  <2>2. Winners' = Winners  BY <1>5, WinnersStay DEF CustodyInv
  <2>3. IsWinner(c)  BY PaidRefused
  <2>4. IsWinner(c)'  BY <2>2, <2>3 DEF Winners
  <2>5. WonPlace(c)'  BY <2>4, IsWinnerAtNext
  <2> QED BY <1>3, <1>4, <2>1, <2>5 DEF WonPlace
<1>6. CASE ~Ended
  <2>1. PaidInstant(i)  BY <1>2, <1>6
  <2>3. /\ args \in AuctionArgsType /\ args.max \in Nat
        /\ args.instant_sale_price \in Nat \cup {None}
    BY <1>1, ArgsTypes DEF CustodyInv, AuctionInv
  <2>4. /\ Len(bids) \in Nat /\ DOMAIN bids = 1 .. Len(bids)
        /\ \A k \in DOMAIN bids : bids[k].amount \in Nat
    BY ListBasics DEF CustodyInv, AuctionInv
  <2> SUFFICES \E j \in DOMAIN bids' : WonAt(bids', Minimum', args.max, c, j)
                                       /\ PaidInstant(j)'
    BY <1>3, <1>4
  <2>5. CASE bids' = bids /\ price_floor' = price_floor
    <3>1. Minimum' = Minimum  BY <2>5 DEF Minimum
    <3> QED BY <1>2, <1>3, <2>1, <2>5, <3>1 DEF PaidInstant
  <2>6. ASSUME NEW s \in Authorities, EndAuction(s)
        PROVE  \E j \in DOMAIN bids' : WonAt(bids', Minimum', args.max, c, j)
                                       /\ PaidInstant(j)'
    <3>1. bids' = bids  BY <2>6 DEF EndAuction
    <3>2. CASE price_floor.kind # "Blinded"
      <4>1. price_floor' = price_floor  BY <2>6, <3>2 DEF EndAuction
      <4> QED BY <2>5, <3>1, <4>1
    <3>3. CASE price_floor.kind = "Blinded"
      <4>1. price_floor = args.price_floor  BY <1>1, <3>3 DEF CustodyInv, FloorKept
      <4>2. args \in AuctionArgs  BY <1>1 DEF CustodyInv, AuctionInv, TypeOK
      <4>3. args.price_floor.price <= args.instant_sale_price
        BY <2>1, <3>3, <4>1, <4>2 DEF FloorsWithinReach, PaidInstant
      <4>4. Minimum' = price_floor.price
        BY <2>6, <3>3 DEF EndAuction, Minimum, CustodyInv, AuctionInv, TypeOK
      <4>5. price_floor.price \in Nat  BY DEF CustodyInv, AuctionInv, TypeOK
      <4>6. bids[i].amount >= Minimum'
        BY <2>1, <2>3, <2>4, <4>1, <4>3, <4>4, <4>5, AuctionAssumption DEF PaidInstant
      <4>7. WonAt(bids', Minimum', args.max, c, i)  BY <1>2, <3>1, <4>6 DEF WonAt
      <4> QED BY <1>3, <2>1, <3>1, <4>7 DEF PaidInstant
    <3> QED BY <3>2, <3>3
  <2>7. ASSUME NEW b \in Bidders, NEW amount \in Amounts, PlaceBid(b, amount)
        PROVE  \E j \in DOMAIN bids' : WonAt(bids', Minimum', args.max, c, j)
                                       /\ PaidInstant(j)'
    <3>1. PICK price : price = BidPrice(amount)  OBVIOUS
    <3>2. price \in Nat  BY <1>1, <3>1, AuctionAssumption, BidPriceType DEF CustodyInv, AuctionInv
    <3>3. PICK bid : bid = [bidder |-> b, amount |-> price]  OBVIOUS
    <3>4. bid \in Bid /\ bid.amount = price  BY <3>2, <3>3 DEF Bid
    <3>5. bids' = WithBid(bid) /\ price_floor' = price_floor  BY <2>7, <3>1, <3>3 DEF PlaceBid
    <3>6. price <= args.instant_sale_price /\ args.instant_sale_price \in Nat
      BY <2>1, <2>3, <3>1, AuctionAssumption DEF BidPrice, PaidInstant
    <3>7. bids[i].amount >= bid.amount
      BY <2>1, <2>4, <3>2, <3>4, <3>6 DEF PaidInstant
    <3>8. PICK j \in DOMAIN bids' : bids'[j] = bids[i] /\ Len(bids') - j = Len(bids) - i
      BY <1>1, <3>4, <3>5, <3>7, PlacedBelow DEF CustodyInv
    <3>9. Minimum' = Minimum  BY <3>5 DEF Minimum
    <3>10. WonAt(bids', Minimum', args.max, c, j)  BY <1>2, <3>8, <3>9 DEF WonAt
    <3> QED BY <1>3, <2>1, <3>8, <3>10 DEF PaidInstant
  <2>8. ASSUME NEW b \in Bidders, CancelBid(b)
        PROVE  \E j \in DOMAIN bids' : WonAt(bids', Minimum', args.max, c, j)
                                       /\ PaidInstant(j)'
    <3>1. b # c  BY <2>8, PaidRefused DEF CancelBid
    <3>2. price_floor' = price_floor /\ (bids' = bids \/ bids' = WithoutBidder(b))
      BY <2>8 DEF CancelBid
    <3>3. CASE bids' = bids  BY <2>5, <3>2, <3>3
    <3>4. CASE bids' = WithoutBidder(b) /\ \A p \in DOMAIN bids : bids[p].bidder # b
      BY <2>5, <3>2, <3>4, WithoutUnlisted
    <3>5. CASE bids' = WithoutBidder(b) /\ \E p \in DOMAIN bids : bids[p].bidder = b
      <4>1. PICK p \in DOMAIN bids : bids[p].bidder = b  BY <3>5
      <4>2. /\ Len(bids') = Len(bids) - 1 /\ DOMAIN bids' = 1 .. Len(bids) - 1
            /\ \A k \in 1 .. p - 1 : bids'[k] = bids[k]
            /\ \A k \in p .. Len(bids) - 1 : bids'[k] = bids[k + 1]
        BY <1>1, <3>5, <4>1, WithoutListed DEF CustodyInv
      <4>3. bids[i].bidder = c /\ i # p  BY <1>2, <3>1, <4>1 DEF WonAt
      <4>4. Minimum' = Minimum  BY <3>2 DEF Minimum
      <4>5. CASE i < p
        <5>1. i \in DOMAIN bids' /\ i \in 1 .. p - 1  BY <2>4, <4>2, <4>5
        <5>2. bids'[i] = bids[i]  BY <4>2, <5>1
        <5>3. Len(bids') - i < args.max
          BY <1>2, <2>3, <2>4, <4>2 DEF WonAt
        <5>4. WonAt(bids', Minimum', args.max, c, i)  BY <1>2, <4>4, <5>2, <5>3 DEF WonAt
        <5> QED BY <1>3, <2>1, <5>1, <5>2, <5>4 DEF PaidInstant
      <4>6. CASE p < i
        <5>1. i - 1 \in DOMAIN bids' /\ i - 1 \in p .. Len(bids) - 1 /\ (i - 1) + 1 = i
          BY <2>4, <4>2, <4>6
        <5>2. bids'[i - 1] = bids[i]  BY <4>2, <5>1
        <5>3. Len(bids') - (i - 1) = Len(bids) - i  BY <2>4, <4>2
        <5>4. WonAt(bids', Minimum', args.max, c, i - 1)
          BY <1>2, <4>4, <5>2, <5>3 DEF WonAt
        <5> QED BY <1>3, <2>1, <5>1, <5>2, <5>4 DEF PaidInstant
      <4> QED BY <2>4, <4>3, <4>5, <4>6
    <3> QED BY <3>2, <3>3, <3>4, <3>5
  <2>9. ASSUME ~ \E s \in Authorities : EndAuction(s),
               ~ \E b \in Bidders, amount \in Amounts : PlaceBid(b, amount),
               ~ \E b \in Bidders : CancelBid(b)
        PROVE  bids' = bids /\ price_floor' = price_floor
    BY <1>1, <2>9 DEF Next, vars, auctionVars, CreateAuction, StartAuction,
         SetAuthority, PlaceBidTooLate, ClaimBid, Tick
  <2> QED BY <2>5, <2>6, <2>7, <2>8, <2>9
<1> QED BY <1>5, <1>6

(* A claim is made of a bid that wins, at the end or for the instant price. *)
LEMMA ClaimIsWon ==
  ASSUME CustodyInv, NEW s \in Authorities, NEW c \in Bidders, NEW extended \in BOOLEAN,
         ClaimBid(s, c, extended)
  PROVE  /\ state' \in {"Started", "Ended"} /\ IsEnglish'
         /\ \E i \in DOMAIN bids' : /\ WonAt(bids', Minimum', args'.max, c, i)
                                    /\ Ended' \/ PaidInstant(i)'
<1>1. IsWinner(c) /\ Claimable(c, extended) /\ UNCHANGED <<now, auctionVars>>
  BY DEF ClaimBid
<1>2. /\ state' = state /\ bids' = bids /\ args' = args /\ Minimum' = Minimum
      /\ IsEnglish' = IsEnglish /\ Ended' = Ended
      /\ \A i : PaidInstant(i)' <=> PaidInstant(i)
  BY <1>1 DEF auctionVars, Minimum, IsEnglish, Ended, PaidInstant
<1>3. PlacesOf(c) # {} /\ IsEnglish /\ state # "Missing"  BY <1>1 DEF IsWinner
<1>4. PlacesOf(c) \in SUBSET Nat  BY ListBasics DEF CustodyInv, AuctionInv, PlacesOf
<1>5. Min(PlacesOf(c)) \in PlacesOf(c)  BY <1>3, <1>4, MinOfNat
<1>6. PICK i \in DOMAIN bids : i = Min(PlacesOf(c))  BY <1>5 DEF PlacesOf
<1>7. WonAt(bids, Minimum, args.max, c, i)
  BY <1>1, <1>5, <1>6 DEF WonAt, PlacesOf, IsWinner
<1>8. Ended \/ PaidInstant(i)
  BY <1>1, <1>6 DEF Claimable, PaysInstantPrice, WinningAmount, PaidInstant
<1>9. state \in {"Started", "Ended"}
  <2>1. bids # << >>  BY <1>6
  <2>2. state # "Created"  BY <2>1 DEF CustodyInv, AuctionInv, Phases
  <2> QED BY <1>3, <2>2 DEF CustodyInv, AuctionInv, TypeOK
<1> QED BY <1>2, <1>3, <1>7, <1>8, <1>9

LEMMA CustodyInvInit == Init => CustodyInv
<1> SUFFICES ASSUME Init PROVE CustodyInv  OBVIOUS
<1>1. AuctionInv  BY AuctionInvInit
<1>2. PaidWon /\ FloorKept  BY DEF Init, PaidWon, FloorKept
<1> QED BY <1>1, <1>2 DEF CustodyInv

LEMMA CustodyInvStep ==
  ASSUME FloorsWithinReach, CustodyInv, [Next]_vars
  PROVE  CustodyInv'
<1>1. AuctionInv'  BY AuctionInvStep DEF CustodyInv
<1>2. FloorKept'
  <2>1. ASSUME NEW a \in AuctionArgs, NEW s \in Authorities, CreateAuction(a, s)
        PROVE  FloorKept'
    BY <2>1 DEF CreateAuction, FloorKept
  <2>2. ASSUME NEW s \in Authorities, EndAuction(s)
        PROVE  FloorKept'
    <3>1. price_floor'.kind # "Blinded"
      BY <2>2 DEF EndAuction, CustodyInv, AuctionInv, TypeOK
    <3> QED BY <3>1 DEF FloorKept
  <2>3. ASSUME ~ \E a \in AuctionArgs, s \in Authorities : CreateAuction(a, s),
               ~ \E s \in Authorities : EndAuction(s)
        PROVE  FloorKept'
    <3>1. price_floor' = price_floor /\ args' = args /\ (state = "Missing" => state' = "Missing")
      BY <2>3 DEF Next, vars, auctionVars, StartAuction, SetAuthority, PlaceBidTooLate,
                  PlaceBid, CancelBid, ClaimBid, Tick
    <3> QED BY <3>1 DEF CustodyInv, FloorKept
  <2> QED BY <2>1, <2>2, <2>3
<1>3. PaidWon'
  <2> SUFFICES ASSUME NEW c \in Bidders, pot'[c].emptied
               PROVE  /\ state' \in {"Started", "Ended"} /\ IsEnglish'
                      /\ \E i \in DOMAIN bids' : /\ WonAt(bids', Minimum', args'.max, c, i)
                                                 /\ Ended' \/ PaidInstant(i)'
    BY DEF PaidWon, WonAt, PaidInstant
  <2>1. CASE pot[c].emptied  BY <1>1, <2>1, PaidStaysWon
  <2>2. CASE ~pot[c].emptied
    <3>1. pot \in [Bidders -> BidderPot]  BY DEF CustodyInv, AuctionInv, TypeOK
    <3>2. ASSUME NEW b \in Bidders, NEW amount \in Amounts, PlaceBid(b, amount) PROVE FALSE
      BY <2>2, <3>1, <3>2 DEF PlaceBid, BidderPot
    <3>3. ASSUME NEW b \in Bidders, CancelBid(b) PROVE FALSE
      BY <2>2, <3>1, <3>3 DEF CancelBid, BidderPot
    <3>4. ASSUME NEW s \in Authorities, NEW b \in Bidders, NEW extended \in BOOLEAN,
                 ClaimBid(s, b, extended), b # c
          PROVE  FALSE
      BY <2>2, <3>1, <3>4 DEF ClaimBid, BidderPot
    <3>5. \E s \in Authorities, extended \in BOOLEAN : ClaimBid(s, c, extended)
      <4>1. pot' # pot  BY <2>2
      <4> QED BY <3>2, <3>3, <3>4, <4>1
        DEF Next, vars, bidderVars, CreateAuction, StartAuction, EndAuction,
            SetAuthority, PlaceBidTooLate, Tick
    <3> QED BY <3>5, ClaimIsWon
  <2> QED BY <2>1, <2>2
<1> QED BY <1>1, <1>2, <1>3 DEF CustodyInv

LEMMA CustodyInitMaps == Init => Custody!Init
<1> SUFFICES ASSUME Init PROVE Custody!Init  OBVIOUS
<1>1. ~Ended /\ Winners = {}  BY DEF Init, Ended, Winners, IsWinner
<1> QED BY <1>1 DEF Init, Custody!Init

(* Each step is a deposit, a refund, a settlement, or moves no money.       *)
LEMMA CustodyStepMaps ==
  ASSUME CustodyInv, CustodyInv', [Next]_vars
  PROVE  Custody!Next
<1>1. Ended => Ended' /\ Winners' = Winners
  BY EndedStays, WinnersStay DEF CustodyInv
<1>2. ASSUME NEW b \in Bidders, pot'[b].emptied PROVE b \in Winners'
  <2>1. /\ state' # "Missing" /\ IsEnglish' /\ WonPlace(b)'
    BY <1>2 DEF CustodyInv, PaidWon, WonPlace
  <2>2. IsWinner(b)'  BY <2>1, IsWinnerAtNext DEF CustodyInv
  <2> QED BY <2>2 DEF Winners
<1> DEFINE held == [b \in Bidders |-> pot[b].amount]
           paid == {b \in Bidders : pot[b].emptied}
           Quiet == held' = held /\ wallet' = wallet /\ proceeds' = proceeds /\ paid' = paid
<1>3. pot \in [Bidders -> BidderPot] /\ wallet \in [Bidders -> Nat]
  BY DEF CustodyInv, AuctionInv, TypeOK
<1>4. \A b \in Bidders : pot[b].amount \in Nat  BY <1>3 DEF BidderPot
<1>5. ASSUME NEW b \in Bidders, NEW amount \in Amounts, PlaceBid(b, amount)
      PROVE  Quiet \/ Custody!Deposit(b)
  <2>1. PICK price : price = BidPrice(amount)  OBVIOUS
  <2>2. price \in Nat
    BY <1>5, <2>1, AuctionAssumption, BidPriceType DEF PlaceBid, CustodyInv, AuctionInv
  <2>3. /\ ~Ended /\ MayBid(b) /\ state = "Started" /\ wallet[b] >= price
        /\ wallet' = [wallet EXCEPT ![b] = @ - price]
        /\ pot' = [pot EXCEPT ![b].exists = TRUE, ![b].amount = @ + price]
        /\ proceeds' = proceeds
    BY <1>5, <2>1 DEF PlaceBid
  <2>4. pot[b].amount = 0  BY <2>3 DEF MayBid, CustodyInv, AuctionInv, DeadPotsEmpty
  <2>5. ~pot[b].emptied
    <3> SUFFICES ASSUME pot[b].emptied PROVE FALSE  OBVIOUS
    <3>1. PICK i \in DOMAIN bids : bids[i].bidder = b
      BY DEF CustodyInv, PaidWon, WonAt
    <3>2. meta[b] # None /\ ~meta[b].cancelled
      BY <2>3, <3>1 DEF CustodyInv, AuctionInv, BidsBacked
    <3> QED BY <2>3, <3>2 DEF MayBid
  <2>6. paid' = paid  BY <1>3, <2>3 DEF BidderPot
  <2>7. held' = [held EXCEPT ![b] = price]
    <3>1. pot'[b].amount = price  BY <1>3, <2>2, <2>3, <2>4 DEF BidderPot
    <3>2. \A c \in Bidders \ {b} : pot'[c] = pot[c]  BY <1>3, <2>3
    <3> QED BY <3>1, <3>2
  <2>8. CASE price = 0
    <3>1. wallet' = wallet  BY <1>3, <2>3, <2>8
    <3>2. held' = held  BY <2>4, <2>7, <2>8
    <3> QED BY <2>3, <2>6, <3>1, <3>2
  <2>9. CASE price # 0
    <3>1. price \in 1 .. wallet[b]  BY <1>3, <2>2, <2>3, <2>9
    <3>2. held[b] = 0 /\ b \notin paid  BY <2>4, <2>5
    <3> QED BY <2>3, <2>6, <2>7, <3>1, <3>2 DEF Custody!Deposit
  <2> QED BY <2>8, <2>9
<1>6. ASSUME NEW b \in Bidders, CancelBid(b)
      PROVE  Custody!Refund(b)
  <2>1. /\ ~CancelRefused(b) /\ proceeds' = proceeds
        /\ wallet' = [wallet EXCEPT ![b] = @ + pot[b].amount]
        /\ pot' = [pot EXCEPT ![b].amount = 0]
    BY <1>6 DEF CancelBid
  <2>2. ~Ended \/ b \notin Winners  BY <2>1 DEF CancelRefused, Winners
  <2>3. b \notin paid  BY <2>1, PaidRefused
  <2>4. paid' = paid  BY <1>3, <2>1 DEF BidderPot
  <2>5. held' = [held EXCEPT ![b] = 0]
    <3>1. pot'[b].amount = 0 /\ \A c \in Bidders \ {b} : pot'[c] = pot[c]
      BY <1>3, <2>1 DEF BidderPot
    <3> QED BY <3>1
  <2> QED BY <2>1, <2>2, <2>3, <2>4, <2>5 DEF Custody!Refund
<1>7. ASSUME NEW s \in Authorities, NEW b \in Bidders, NEW extended \in BOOLEAN,
             ClaimBid(s, b, extended)
      PROVE  Custody!Settle(b)
  <2>1. /\ IsWinner(b) /\ proceeds' = proceeds + pot[b].amount /\ wallet' = wallet
        /\ pot' = [pot EXCEPT ![b].amount = 0, ![b].emptied = TRUE]
    BY <1>7 DEF ClaimBid
  <2>2. /\ pot'[b].amount = 0 /\ pot'[b].emptied
        /\ \A c \in Bidders \ {b} : pot'[c] = pot[c]
    BY <1>3, <2>1 DEF BidderPot
  <2>3. held' = [held EXCEPT ![b] = 0]  BY <2>2
  <2>4. paid' = paid \cup {b}  BY <2>2
  <2> QED BY <2>1, <2>3, <2>4 DEF Custody!Settle, Winners
<1>8. ASSUME ~ \E b \in Bidders, amount \in Amounts : PlaceBid(b, amount),
             ~ \E b \in Bidders : CancelBid(b),
             ~ \E s \in Authorities, b \in Bidders, extended \in BOOLEAN :
                 ClaimBid(s, b, extended)
      PROVE  Quiet
  <2>1. pot' = pot /\ wallet' = wallet /\ proceeds' = proceeds
    BY <1>8 DEF Next, vars, bidderVars, CreateAuction, StartAuction, EndAuction,
                SetAuthority, PlaceBidTooLate, Tick
  <2> QED BY <2>1
<1>9. (\E b \in Bidders : Custody!Deposit(b) \/ Custody!Refund(b) \/ Custody!Settle(b)) \/ Quiet
  <2> HIDE DEF Quiet
  <2> QED BY <1>5, <1>6, <1>7, <1>8
<1>10. paid' \subseteq Winners'  BY <1>2
<1> QED BY <1>1, <1>9, <1>10 DEF Custody!Next

(* Whatever the rules of bidding do, the program keeps the custody promise *)
(* of EscrowCustody: money enters while bidding is open, and leaves to its *)
(* bidder or, for winners who stay winners, to the seller.                 *)
THEOREM KeepsCustody == ASSUME FloorsWithinReach PROVE Spec => CustodySpec
<1>1. CustodyInv /\ [Next]_vars => CustodyInv'  BY CustodyInvStep
<1>2. CustodyInv /\ CustodyInv' /\ [Next]_vars => [Custody!Next]_(Custody!custodyVars)
  BY CustodyStepMaps
<1> QED BY <1>1, <1>2, CustodyInvInit, CustodyInitMaps, PTL
    DEF Spec, CustodySpec, Custody!Spec
----------------------------------------------------------------------------
(***************************************************************************)
(* The auction manager.  First the lists of amount ranges: their merge     *)
(* stays a list of ranges.                                                 *)
(***************************************************************************)
Ranges == Seq(AmountRange)
CutState == [mine : Ranges, theirs : Ranges, cut : Ranges]

LEMMA RangeTypes ==
  ASSUME NEW r \in Ranges
  PROVE  /\ Len(r) \in Nat /\ DOMAIN r = 1 .. Len(r)
         /\ \A k \in DOMAIN r : /\ r[k] \in AmountRange
                                /\ r[k].amount \in Nat /\ r[k].length \in Nat
<1>1. Len(r) \in Nat /\ DOMAIN r = 1 .. Len(r)  BY LenProperties DEF Ranges
<1>2. \A k \in DOMAIN r : r[k] \in AmountRange  BY <1>1, ElementOfSeq DEF Ranges
<1> QED BY <1>1, <1>2 DEF AmountRange

LEMMA CutHeadType ==
  ASSUME NEW r \in Ranges, r # << >>, NEW n \in Nat, n <= Head(r).length
  PROVE  CutHead(r, n) \in Ranges
<1>1. Tail(r) \in Ranges /\ Head(r) \in AmountRange  BY HeadTailProperties DEF Ranges
<1>2. Head(r).length \in Nat  BY <1>1 DEF AmountRange
<1>3. [Head(r) EXCEPT !.length = @ - n] \in AmountRange
  <2> DEFINE left == Head(r).length - n
  <2>1. left \in Nat  BY <1>2
  <2> HIDE DEF left
  <2>2. [Head(r) EXCEPT !.length = left] \in AmountRange  BY <1>1, <2>1 DEF AmountRange
  <2> QED BY <2>2 DEF left
<1> DEFINE one == [Head(r) EXCEPT !.length = @ - n]
<1>4. one \in AmountRange  BY <1>3
<1> HIDE DEF one
<1>5. <<one>> \in Ranges  BY <1>4 DEF Ranges
<1>6. <<one>> \o Tail(r) \in Ranges  BY <1>1, <1>5, ConcatProperties DEF Ranges
<1> QED BY <1>1, <1>6 DEF CutHead, one

LEMMA OneIfAnyType == ASSUME NEW t PROVE OneIfAny(t) \in Nat
  BY DEF OneIfAny

LEMMA CutType ==
  ASSUME NEW c \in CutState
  PROVE  Cut(c) \in CutState
<1>1. c.mine \in Ranges /\ c.theirs \in Ranges /\ c.cut \in Ranges  BY DEF CutState
<1>2. CASE c.mine = << >> \/ c.theirs = << >>  BY <1>2 DEF Cut
<1>3. CASE c.mine # << >> /\ c.theirs # << >>
  <2> DEFINE m == Head(c.mine)
             t == Head(c.theirs)
             length == IF m.length < t.length THEN m.length ELSE t.length
             new == [amount |-> m.amount + OneIfAny(t), length |-> length]
  <2>1. m \in AmountRange /\ t \in AmountRange
    BY <1>1, <1>3, HeadTailProperties DEF Ranges
  <2>2. m.length \in Nat /\ t.length \in Nat /\ m.amount \in Nat  BY <2>1 DEF AmountRange
  <2>3. length \in Nat /\ length <= m.length /\ length <= t.length  BY <2>2
  <2>4. new \in AmountRange  BY <2>2, <2>3, OneIfAnyType DEF AmountRange
  <2>5. Cut(c) = [ mine |-> CutHead(c.mine, length), theirs |-> CutHead(c.theirs, length),
                   cut |-> Append(c.cut, new) ]
    BY <1>3 DEF Cut
  <2> HIDE DEF length, new
  <2>6. Append(c.cut, new) \in Ranges  BY <1>1, <2>4, AppendProperties DEF Ranges
  <2>7. CutHead(c.mine, length) \in Ranges /\ CutHead(c.theirs, length) \in Ranges
    BY <1>1, <1>3, <2>3, CutHeadType
  <2> QED BY <2>5, <2>6, <2>7 DEF CutState
<1> QED BY <1>2, <1>3

(* The cuts of a merge, numbered from the lists that it starts with.        *)
AreCuts(f, c, n) == f = [k \in 0 .. n |-> IF k = 0 THEN c ELSE Cut(f[k - 1])]

LEMMA CutsExist ==
  ASSUME NEW c, NEW n \in Nat
  PROVE  \E f : AreCuts(f, c, n)
<1> DEFINE Bad == {k \in Nat : ~ \E f : AreCuts(f, c, k)}
<1>1. ASSUME Bad # {} PROVE FALSE
  <2>1. PICK k \in Bad : \A j \in Bad : k <= j  BY <1>1, SmallestNat
  <2>2. CASE k = 0
    <3> DEFINE f == [j \in 0 .. 0 |-> c]
    <3>1. AreCuts(f, c, 0)  BY DEF AreCuts
    <3> QED BY <2>1, <2>2, <3>1
  <2>3. CASE k > 0
    <3>0. k \in Nat  OBVIOUS
    <3>1. k - 1 \in Nat /\ k - 1 \notin Bad  BY <2>1, <2>3
    <3>2. PICK f : AreCuts(f, c, k - 1)  BY <3>1
    <3> DEFINE g == [j \in 0 .. k |-> IF j = 0 THEN c ELSE Cut(f[j - 1])]
    <3>3. f = [j \in 0 .. k - 1 |-> IF j = 0 THEN c ELSE Cut(f[j - 1])]  BY <3>2 DEF AreCuts
    <3>4. \A j \in 0 .. k - 1 : g[j] = f[j]  BY <3>0, <2>3, <3>3
    <3>5. \A j \in 0 .. k : j # 0 => j - 1 \in 0 .. k - 1  BY <3>0
    <3>6. g = [j \in 0 .. k |-> IF j = 0 THEN c ELSE Cut(g[j - 1])]  BY <3>4, <3>5
    <3>7. AreCuts(g, c, k)  BY <3>6 DEF AreCuts
    <3> QED BY <2>1, <3>7
  <2> QED BY <2>1, <2>2, <2>3
<1> QED BY <1>1

LEMMA CutsType ==
  ASSUME NEW c \in CutState, NEW n \in Nat, NEW f, AreCuts(f, c, n)
  PROVE  f[n] \in CutState
<1> DEFINE Bad == {k \in 0 .. n : f[k] \notin CutState}
<1>0. f = [k \in 0 .. n |-> IF k = 0 THEN c ELSE Cut(f[k - 1])]  BY DEF AreCuts
<1>1. ASSUME Bad # {} PROVE FALSE
  <2>0. Bad \in SUBSET Nat  OBVIOUS
  <2>1. PICK k \in Bad : \A j \in Bad : k <= j  BY <1>1, <2>0, SmallestNat
  <2>2. k \in 0 .. n /\ f[k] \notin CutState  OBVIOUS
  <2>3. CASE k = 0
    <3>1. f[0] = c  BY <1>0
    <3> QED BY <2>2, <2>3, <3>1
  <2>4. CASE k # 0
    <3>1. k - 1 \in 0 .. n /\ k - 1 < k  BY <2>2, <2>4
    <3>2. f[k - 1] \in CutState  BY <2>1, <2>2, <3>1
    <3>3. f[k] = Cut(f[k - 1])  BY <1>0, <2>2, <2>4
    <3> QED BY <2>2, <3>2, <3>3, CutType
  <2> QED BY <2>3, <2>4
<1> QED BY <1>1

LEMMA MergeType ==
  ASSUME NEW mine \in Ranges, NEW theirs \in Ranges
  PROVE  Merge(mine, theirs) \in Ranges
<1> DEFINE n == Len(mine) + Len(theirs)
           start == [mine |-> mine, theirs |-> theirs, cut |-> << >>]
           after == CHOOSE f : AreCuts(f, start, n)
           last == after[n]
           counted == [k \in DOMAIN last.theirs |->
                         [last.theirs[k] EXCEPT !.amount = OneIfAny(last.theirs[k])]]
<1>1. n \in Nat  BY RangeTypes
<1>2. start \in CutState  BY DEF CutState, Ranges
<1> HIDE DEF n
<1>3. AreCuts(after, start, n)
  <2>1. \E f : AreCuts(f, start, n)  BY <1>1, CutsExist
  <2> HIDE DEF start
  <2> QED BY <2>1
<1>4. Merge(mine, theirs) = last.cut \o last.mine \o counted
  BY DEF Merge, AreCuts, n
<1> HIDE DEF start, after
<1>5. last \in CutState  BY <1>1, <1>2, <1>3, CutsType
<1> HIDE DEF last
<1>6. last.cut \in Ranges /\ last.mine \in Ranges /\ last.theirs \in Ranges
  BY <1>5 DEF CutState
<1>7. counted \in Ranges
  <2>1. Len(last.theirs) \in Nat /\ DOMAIN last.theirs = 1 .. Len(last.theirs)
    BY <1>6, RangeTypes
  <2>2. ASSUME NEW k \in 1 .. Len(last.theirs)
        PROVE  [last.theirs[k] EXCEPT !.amount = OneIfAny(last.theirs[k])] \in AmountRange
    <3>1. last.theirs[k] \in AmountRange  BY <1>6, <2>1, RangeTypes
    <3>2. OneIfAny(last.theirs[k]) \in Nat  BY OneIfAnyType
    <3> QED BY <3>1, <3>2 DEF AmountRange
  <2>3. counted \in [1 .. Len(last.theirs) -> AmountRange]  BY <2>1, <2>2
  <2> HIDE DEF counted
  <2>4. PICK size \in Nat : size = Len(last.theirs)  BY <2>1
  <2>5. counted \in [1 .. size -> AmountRange]  BY <2>3, <2>4
  <2>6. counted \in Seq(AmountRange)  BY <2>5
  <2> QED BY <2>6 DEF Ranges
<1> HIDE DEF counted
<1>8. last.cut \o last.mine \in Ranges  BY <1>6, ConcatProperties DEF Ranges
<1>9. (last.cut \o last.mine) \o counted \in Ranges  BY <1>7, <1>8, ConcatProperties DEF Ranges
<1> QED BY <1>4, <1>9
----------------------------------------------------------------------------
(***************************************************************************)
(* Types of the manager, and the auction it works on: every instruction of *)
(* the manager is one of the auction, or moves only wallets and proceeds.  *)
(***************************************************************************)
ManagerTypes == AuctionInv /\ ManagerTypeOK /\ args = plan.args

LEMMA PlanFacts ==
  ASSUME plan \in Plans
  PROVE  /\ plan.args \in AuctionArgs /\ plan.args # None
         /\ plan.args.max \in Nat /\ plan.args.max <= LastPlace + 1
         /\ \A k \in plan.payouts :
              /\ k[1] \in Nat \cup {None} /\ k[3] \in Nat \cup {None} /\ k[4] \in Boxes
              /\ k = <<k[1], k[2], k[3], k[4]>>
         /\ \A x \in Boxes : Prizes[x] \in Prize
<1>1. plan \in PlanType /\ plan.args.max <= LastPlace + 1  BY ManagerAssumption
<1>2. /\ plan.args \in AuctionArgs /\ Prizes \in [Boxes -> Prize]
      /\ plan.payouts \in SUBSET ((Nat \cup {None}) \X Nat \X (Nat \cup {None}) \X Boxes)
  BY <1>1 DEF PlanType, Prizes
<1>3. plan.args \in AuctionArgsType /\ plan.args # None  BY <1>2, AuctionAssumption
<1>4. plan.args.max \in Nat  BY <1>3 DEF AuctionArgsType
<1> QED BY <1>1, <1>2, <1>3, <1>4

LEMMA PrizeFacts ==
  ASSUME plan \in Plans, NEW x \in Boxes
  PROVE  /\ Prizes[x].ranges \in Ranges /\ Prizes[x].type \in Kinds
         /\ Prizes[x].tokens \in Nat /\ Prizes[x].supply \in Nat
         /\ Prizes[x].max_supply \in Nat \cup {None}
         /\ Prizes[x].creators \in Seq(Creator) \cup {None}
         /\ Prizes[x].fee \in 0 .. Basis
         /\ Prizes[x].fixed_price \in Nat \cup {None}
<1>1. Prizes[x] \in Prize  BY PlanFacts
<1>2. /\ Prizes[x].ranges \in Ranges /\ Prizes[x].type \in Kinds
      /\ Prizes[x].tokens \in Nat /\ Prizes[x].supply \in Nat
  BY <1>1 DEF Prize, Ranges
<1>3. /\ Prizes[x].max_supply \in Nat \cup {None}
      /\ Prizes[x].creators \in Seq(Creator) \cup {None}
  BY <1>1 DEF Prize
<1>4. Prizes[x].fee \in 0 .. Basis /\ Prizes[x].fixed_price \in Nat \cup {None}
  BY <1>1 DEF Prize
<1> QED BY <1>2, <1>3, <1>4

LEMMA AuctionKept ==
  ASSUME AuctionInv, UNCHANGED auctionState, wallet' \in [Bidders -> Nat], proceeds' \in Nat
  PROVE  AuctionInv'
BY DEF auctionState, AuctionInv, TypeOK, Phases, ListedKnown, BidTimesPast, IsEnglish,
       OneBidPerBidder, PriceTimePriority, DeadPotsEmpty, BidsBacked

LEMMA AuctionUntouched ==
  ASSUME AuctionInv, UNCHANGED <<auctionState, wallet, proceeds>>
  PROVE  AuctionInv'
<1>1. wallet' \in [Bidders -> Nat] /\ proceeds' \in Nat  BY DEF AuctionInv, TypeOK
<1> QED BY <1>1, AuctionKept

LEMMA ManagerUntouched ==
  ASSUME ManagerTypeOK, UNCHANGED managerVars
  PROVE  ManagerTypeOK'
BY DEF managerVars, contentVars, setupVars, moneyVars, historyVars, ManagerTypeOK

LEMMA NumWinnersType ==
  ASSUME ManagerTypes
  PROVE  /\ NumWinners \in Nat /\ NumWinners <= Len(bids) /\ NumWinners <= args.max
         /\ NumWinners <= LastPlace + 1
         /\ Len(bids) \in Nat /\ args.max \in Nat /\ DOMAIN bids = 1 .. Len(bids)
         /\ \A i \in 0 .. NumWinners - 1 :
              /\ i \in Places /\ WinnerAt(i) = bids[Len(bids) - i].bidder
              /\ WinnerAt(i) \in Bidders /\ WinnerAt(i) # None
<1>1. args.max \in Nat /\ args.max <= LastPlace + 1 /\ LastPlace \in Nat
  BY PlanFacts, ManagerAssumption DEF ManagerTypes, ManagerTypeOK
<1>2. Len(bids) \in Nat /\ DOMAIN bids = 1 .. Len(bids)
  BY ListBasics DEF ManagerTypes, AuctionInv
<1>3. /\ NumWinners \in Nat /\ NumWinners <= Len(bids) /\ NumWinners <= args.max
      /\ NumWinners <= LastPlace + 1
  BY <1>1, <1>2 DEF NumWinners
<1>4. ASSUME NEW i \in 0 .. NumWinners - 1
      PROVE  /\ i \in Places /\ WinnerAt(i) = bids[Len(bids) - i].bidder
             /\ WinnerAt(i) \in Bidders /\ WinnerAt(i) # None
  <2>1. i \in Nat /\ i < NumWinners /\ Len(bids) - i \in DOMAIN bids  BY <1>2, <1>3
  <2>2. WinnerAt(i) = bids[Len(bids) - i].bidder  BY <2>1 DEF WinnerAt
  <2>3. bids[Len(bids) - i].bidder \in Bidders  BY <2>1, ListBasics DEF ManagerTypes, AuctionInv
  <2>4. i \in Places  BY <1>1, <1>3, <2>1 DEF Places
  <2> QED BY <2>2, <2>3, <2>4, ManagerAssumption
<1> QED BY <1>1, <1>2, <1>3, <1>4

LEMMA WinIndexType ==
  ASSUME ManagerTypes, NEW b \in Bidders
  PROVE  /\ IndexesOf(b) \subseteq 0 .. NumWinners - 1
         /\ IndexesOf(b) \subseteq Places
         /\ WinIndex(b) # None => WinIndex(b) \in IndexesOf(b)
         /\ WinIndex(b) = None => IndexesOf(b) = {}
<1>1. IndexesOf(b) \subseteq 0 .. NumWinners - 1  BY DEF IndexesOf
<1>2. IndexesOf(b) \subseteq Places  BY <1>1, NumWinnersType
<1>3. IndexesOf(b) \in SUBSET Nat  BY <1>1, NumWinnersType
<1>4. IndexesOf(b) # {} => Min(IndexesOf(b)) \in IndexesOf(b)  BY <1>3, MinOfNat
<1> HIDE DEF IndexesOf
<1>5. \A i \in Nat : i # None  BY AuctionAssumption
<1> QED BY <1>1, <1>2, <1>3, <1>4, <1>5 DEF WinIndex

LEMMA AmountType ==
  ASSUME NEW r \in Ranges, NEW i, RangesAt(r, i) # {}
  PROVE  AmountAt(r, i) \in Nat
<1>1. PICK k : k = CHOOSE n \in RangesAt(r, i) : TRUE  OBVIOUS
<1>2. k \in RangesAt(r, i) /\ AmountAt(r, i) = r[k].amount  BY <1>1 DEF AmountAt
<1>3. k \in DOMAIN r  BY <1>2 DEF RangesAt
<1> QED BY <1>2, <1>3, RangeTypes

(* Steps of the manager that leave the auction's accounts.                  *)
LEMMA InitTypes == ManagerInit => ManagerTypes
<1> SUFFICES ASSUME ManagerInit PROVE ManagerTypes  OBVIOUS
<1> USE DEF ManagerInit
<1>1. plan.args \in AuctionArgs /\ plan.args \in AuctionArgsType /\ plan.args # None
  BY PlanFacts, AuctionAssumption
<1>2. bids = << >> /\ bids \in Seq(Bid) /\ DOMAIN bids = {}  OBVIOUS
<1>3. price_floor \in [kind : {"None", "Minimum", "Blinded"}, price : Nat]
  BY <1>1 DEF AuctionArgsType
<1>4. meta \in [Bidders -> BidderMetadata \cup {None}] /\ pot \in [Bidders -> BidderPot]
      /\ wallet \in [Bidders -> Nat]
  BY AuctionAssumption DEF BidderPot
<1>5. TypeOK  BY <1>1, <1>2, <1>3, <1>4, ManagerAssumption DEF TypeOK
<1>6. Phases /\ ListedKnown /\ OneBidPerBidder /\ PriceTimePriority /\ BidsBacked
  BY <1>2 DEF Phases, ListedKnown, OneBidPerBidder, PriceTimePriority, BidsBacked
<1>7. BidTimesPast /\ DeadPotsEmpty  BY DEF BidTimesPast, DeadPotsEmpty
<1>8. tokens \in [Boxes -> Nat] /\ supply \in [Boxes -> Nat]
  <2>1. ASSUME NEW x \in Boxes PROVE Prizes[x].tokens \in Nat /\ Prizes[x].supply \in Nat
    BY PrizeFacts
  <2> QED BY <2>1
<1>9. takes \in [Boxes \X Places -> 0 .. MaxTakes] /\ collected \in [Boxes -> Nat]
  BY ManagerAssumption
<1>10. ticket \in [Bidders -> BidRedemptionTicket]  BY DEF BidRedemptionTicket
<1>11. tracker \in Seq(AmountRange) /\ DOMAIN payouts = {}  OBVIOUS
<1>12. ManagerTypeOK  BY <1>8, <1>9, <1>10, <1>11 DEF ManagerTypeOK
<1> QED BY <1>5, <1>6, <1>7, <1>12 DEF AuctionInv, ManagerTypes
----------------------------------------------------------------------------
LEMMA DisbursingType ==
  ASSUME ManagerTypeOK, manager # None
  PROVE  Disbursing \in AuctionManagerV2 /\ manager \in AuctionManagerV2
<1>1. manager \in AuctionManagerV2  BY DEF ManagerTypeOK
<1> QED BY <1>1 DEF Disbursing, AuctionManagerV2

LEMMA SavedType ==
  ASSUME ManagerTypeOK, NEW b \in Bidders, NEW x \in Boxes, NEW i
  PROVE  [ticket EXCEPT ![b] = Saved(b, x, i)] \in [Bidders -> BidRedemptionTicket]
<1>1. ticket[b] \in BidRedemptionTicket  BY DEF ManagerTypeOK
<1>2. ticket[b].low \in SUBSET Nat /\ ticket[b].high \in SUBSET Nat  BY <1>1 DEF BidRedemptionTicket
<1>3. Order[x] \in Nat /\ KeyBits \in SUBSET Nat  BY ManagerAssumption
<1>4. Saved(b, x, i) \in BidRedemptionTicket  BY <1>2, <1>3 DEF Saved, BidRedemptionTicket
<1> QED BY <1>4 DEF ManagerTypeOK

(* Setting up.                                                              *)
LEMMA InitManagerTyped ==
  ASSUME ManagerTypes, InitAuctionManagerV2
  PROVE  ManagerTypeOK'
<1>1. manager' \in AuctionManagerV2  BY DEF InitAuctionManagerV2, AuctionManagerV2
<1> QED BY <1>1 DEF InitAuctionManagerV2, ManagerTypes, ManagerTypeOK, contentVars, setupVars,
           moneyVars, historyVars

LEMMA ValidateTyped ==
  ASSUME ManagerTypes, NEW x \in Boxes, ValidateSafetyDepositBoxV2(x)
  PROVE  ManagerTypeOK'
<1> DEFINE n == manager.validated + 1
           has == manager.has_participation \/ Prizes[x].type = "Participation"
           s == IF n = Cardinality({y \in Boxes : tokens[y] > 0}) THEN "Validated"
                ELSE manager.status
<1>1. manager \in AuctionManagerV2
  BY DEF ValidateSafetyDepositBoxV2, ManagerTypes, ManagerTypeOK
<1>2. /\ manager.status \in {"Initialized", "Validated", "Running", "Disbursing", "Finished"}
      /\ manager.validated \in Nat /\ manager.has_participation \in BOOLEAN
  BY <1>1 DEF AuctionManagerV2
<1>3. manager' = [manager EXCEPT !.validated = n, !.has_participation = has, !.status = s]
  BY DEF ValidateSafetyDepositBoxV2
<1>4. n \in Nat /\ has \in BOOLEAN
      /\ s \in {"Initialized", "Validated", "Running", "Disbursing", "Finished"}
  BY <1>2
<1> HIDE DEF n, has, s
<1>5. manager' \in AuctionManagerV2  BY <1>1, <1>3, <1>4 DEF AuctionManagerV2
<1>6. tracker' \in Seq(AmountRange)
  <2>1. tracker \in Ranges /\ Prizes[x].ranges \in Ranges
    BY PrizeFacts DEF ManagerTypes, ManagerTypeOK, Ranges
  <2>2. Merge(tracker, Prizes[x].ranges) \in Ranges  BY <2>1, MergeType
  <2>3. tracker' = tracker \/ tracker' = Merge(tracker, Prizes[x].ranges)
    BY DEF ValidateSafetyDepositBoxV2, Merged
  <2> QED BY <2>1, <2>2, <2>3 DEF Ranges
<1>7. update_authority' \in [Boxes -> {Seller, Manager} \cup Bidders]
  BY DEF ValidateSafetyDepositBoxV2, ManagerTypes, ManagerTypeOK
<1>8. configured' \subseteq Boxes  BY DEF ValidateSafetyDepositBoxV2, ManagerTypes, ManagerTypeOK
<1>9. UNCHANGED <<plan, vault_authority, tokens, supply, sold, ticket, prize, collected, payouts,
                  takes, printed, misstated, withdrawn>>
  BY DEF ValidateSafetyDepositBoxV2, moneyVars, historyVars
<1> QED BY <1>5, <1>6, <1>7, <1>8, <1>9 DEF ManagerTypes, ManagerTypeOK

(* Calls of the auction program by the manager.                             *)
LEMMA AuctionCallsTyped ==
  ASSUME ManagerTypes,
         \/ ManagerStartAuction \/ ManagerEndAuction
         \/ \E vault_back \in BOOLEAN : DecommissionAuctionManager(vault_back)
         \/ \E b \in Bidders, extended \in BOOLEAN : ManagerClaimBid(b, extended)
  PROVE  ManagerTypeOK'
<1> DEFINE Status == {"Initialized", "Validated", "Running", "Disbursing", "Finished"}
<1>1. manager \in AuctionManagerV2
  BY DEF ManagerStartAuction, ManagerEndAuction, DecommissionAuctionManager, ManagerClaimBid,
         ManagerTypes, ManagerTypeOK
<1>2. manager.status \in Status /\ manager.pushed \in Nat  BY <1>1 DEF AuctionManagerV2
<1>3. \A s \in Status : [manager EXCEPT !.status = s] \in AuctionManagerV2
  BY <1>1 DEF AuctionManagerV2
<1>4. CASE ManagerStartAuction
  <2>1. manager' \in AuctionManagerV2  BY <1>3, <1>4 DEF ManagerStartAuction
  <2> QED BY <1>4, <2>1 DEF ManagerStartAuction, ManagerTypes, ManagerTypeOK, contentVars,
             setupVars, moneyVars, historyVars
<1>5. CASE ManagerEndAuction
  <2>1. manager' \in AuctionManagerV2  BY <1>3, <1>5 DEF ManagerEndAuction
  <2> QED BY <1>5, <2>1 DEF ManagerEndAuction, ManagerTypes, ManagerTypeOK, contentVars,
             setupVars, moneyVars, historyVars
<1>6. CASE \E vault_back \in BOOLEAN : DecommissionAuctionManager(vault_back)
  <2>1. manager' \in AuctionManagerV2  BY <1>3, <1>6 DEF DecommissionAuctionManager
  <2>2. vault_authority' \in {Seller, Manager}  BY <1>6 DEF DecommissionAuctionManager
  <2> QED BY <1>6, <2>1, <2>2 DEF DecommissionAuctionManager, ManagerTypes, ManagerTypeOK,
             setupVars, moneyVars, historyVars
<1>7. ASSUME NEW b \in Bidders, NEW extended \in BOOLEAN, ManagerClaimBid(b, extended)
      PROVE  ManagerTypeOK'
  <2> DEFINE n == PushedWith(b)
             s == IF manager.status \in {"Disbursing", "Finished"} THEN manager.status
                  ELSE "Disbursing"
  <2>1. n \in Nat  BY <1>2 DEF PushedWith
  <2>2. s \in Status  BY <1>2
  <2>3. manager' = [manager EXCEPT !.pushed = n, !.status = s]  BY <1>7 DEF ManagerClaimBid
  <2> HIDE DEF n, s
  <2>4. manager' \in AuctionManagerV2  BY <1>1, <2>1, <2>2, <2>3 DEF AuctionManagerV2
  <2> QED BY <1>7, <2>4 DEF ManagerClaimBid, ManagerTypes, ManagerTypeOK, contentVars,
             setupVars, moneyVars, historyVars
<1> QED BY <1>4, <1>5, <1>6, <1>7

(* Handing over the prizes.                                                 *)
LEMMA WithdrawTyped ==
  ASSUME ManagerTypeOK, NEW x \in Boxes, NEW n \in Nat, Withdraw(x, n)
  PROVE  tokens' \in [Boxes -> Nat]
<1>1. tokens[x] - n \in Nat /\ tokens' = [tokens EXCEPT ![x] = tokens[x] - n]
  BY DEF Withdraw, ManagerTypeOK
<1> QED BY <1>1 DEF ManagerTypeOK

LEMMA TakenTyped ==
  ASSUME ManagerTypeOK, NEW x \in Boxes, NEW i \in Places, Taken(x, i)
  PROVE  takes' \in [Boxes \X Places -> 0 .. MaxTakes]
<1>1. takes[<<x, i>>] \in 0 .. MaxTakes /\ MaxTakes \in Nat
  BY ManagerAssumption DEF ManagerTypeOK
<1>2. /\ takes[<<x, i>>] + 1 \in 0 .. MaxTakes
      /\ takes' = [takes EXCEPT ![<<x, i>>] = takes[<<x, i>>] + 1]
  BY <1>1 DEF Taken
<1> QED BY <1>2 DEF ManagerTypeOK

LEMMA GiveTyped ==
  ASSUME ManagerTypeOK, NEW x \in Boxes, NEW i \in Places, NEW w \in {Seller, Manager} \cup Bidders,
         Give(x, i, w)
  PROVE  /\ tokens' \in [Boxes -> Nat] /\ takes' \in [Boxes \X Places -> 0 .. MaxTakes]
         /\ update_authority' \in [Boxes -> {Seller, Manager} \cup Bidders]
<1>1. plan \in Plans  BY DEF ManagerTypeOK
<1>2. CASE GiveTokens(x, i)
  <2>1. RangesAt(Prizes[x].ranges, i) # {} /\ Prizes[x].ranges \in Ranges
    BY <1>1, <1>2, PrizeFacts DEF GiveTokens
  <2>2. AmountAt(Prizes[x].ranges, i) \in Nat  BY <2>1, AmountType
  <2>3. tokens' \in [Boxes -> Nat]  BY <1>2, <2>2, WithdrawTyped DEF GiveTokens
  <2>4. takes' \in [Boxes \X Places -> 0 .. MaxTakes]  BY <1>2, TakenTyped DEF GiveTokens
  <2> QED BY <1>2, <2>3, <2>4 DEF GiveTokens, ManagerTypeOK
<1>3. CASE GiveFullRights(x, i, w)
  <2>1. tokens' \in [Boxes -> Nat]  BY <1>3, WithdrawTyped DEF GiveFullRights
  <2>2. takes' \in [Boxes \X Places -> 0 .. MaxTakes]  BY <1>3, TakenTyped DEF GiveFullRights
  <2> QED BY <1>3, <2>1, <2>2 DEF GiveFullRights, ManagerTypeOK
<1> QED BY <1>2, <1>3 DEF Give

LEMMA RedeemTyped ==
  ASSUME ManagerTypes, NEW b \in Bidders, NEW x \in Boxes, RedeemBid(b, x)
  PROVE  ManagerTypeOK'
<1>0. ManagerTypeOK /\ manager # None  BY DEF ManagerTypes, RedeemBid, CommonRedeemChecks
<1>1. ticket' \in [Bidders -> BidRedemptionTicket]  BY <1>0, SavedType DEF RedeemBid
<1>2. UNCHANGED <<plan, vault_authority, supply, sold, configured, tracker, prize, collected,
                  payouts, printed, misstated, withdrawn>>
  BY DEF RedeemBid, setupVars, moneyVars
<1>3. CASE WinIndex(b) # None /\ ~meta[b].cancelled
  <2>1. Give(x, WinIndex(b), b) /\ manager' = Disbursing  BY <1>3 DEF RedeemBid
  <2>2. WinIndex(b) \in Places  BY <1>3, WinIndexType
  <2>3. /\ tokens' \in [Boxes -> Nat] /\ takes' \in [Boxes \X Places -> 0 .. MaxTakes]
        /\ update_authority' \in [Boxes -> {Seller, Manager} \cup Bidders]
    BY <1>0, <2>1, <2>2, GiveTyped
  <2>4. manager' \in AuctionManagerV2  BY <1>0, <2>1, DisbursingType
  <2> QED BY <1>0, <1>1, <1>2, <2>3, <2>4 DEF ManagerTypeOK
<1>4. CASE ~(WinIndex(b) # None /\ ~meta[b].cancelled)
  <2>1. UNCHANGED <<tokens, update_authority, takes, manager>>  BY <1>4 DEF RedeemBid
  <2> QED BY <1>0, <1>1, <1>2, <2>1 DEF ManagerTypeOK
<1> QED BY <1>3, <1>4

LEMMA UnusedTyped ==
  ASSUME ManagerTypes, NEW b \in Bidders, NEW x \in Boxes, NEW i \in Places, RedeemUnused(b, x, i)
  PROVE  ManagerTypeOK'
<1>0. ManagerTypeOK /\ manager # None /\ Give(x, i, Seller)  BY DEF ManagerTypes, RedeemUnused
<1>1. UNCHANGED <<plan, vault_authority, supply, sold, configured, tracker, ticket, prize,
                  collected, payouts, printed, misstated, withdrawn>>
  BY DEF RedeemUnused, setupVars, moneyVars
<1>2. /\ tokens' \in [Boxes -> Nat] /\ takes' \in [Boxes \X Places -> 0 .. MaxTakes]
      /\ update_authority' \in [Boxes -> {Seller, Manager} \cup Bidders]
  BY <1>0, GiveTyped
<1>3. manager' \in AuctionManagerV2  BY <1>0, DisbursingType DEF RedeemUnused
<1> QED BY <1>0, <1>1, <1>2, <1>3 DEF ManagerTypeOK

LEMMA WithdrawMasterTyped ==
  ASSUME ManagerTypes, NEW x \in Boxes, WithdrawMasterEdition(x)
  PROVE  ManagerTypeOK'
<1>1. tokens' \in [Boxes -> Nat]
  BY WithdrawTyped DEF ManagerTypes, WithdrawMasterEdition
<1> QED BY <1>1 DEF WithdrawMasterEdition, ManagerTypes, ManagerTypeOK, setupVars, moneyVars,
           historyVars
----------------------------------------------------------------------------
(***************************************************************************)
(* What the ranges of a box promise, place by place.                       *)
(***************************************************************************)
LEMMA Interval ==
  ASSUME NEW a \in Int, NEW b \in Int
  PROVE  IsFiniteSet(a .. b)
BY FS_Interval

LEMMA SumBelow ==
  ASSUME NEW f, NEW g, NEW S, IsFiniteSet(S),
         \A x \in S : f[x] \in Nat /\ g[x] \in Nat /\ f[x] <= g[x]
  PROVE  SumFunctionOnSet(f, S) <= SumFunctionOnSet(g, S)
<1>0. PICK one \in Int : one = 1  OBVIOUS
<1>1. \A x \in S : f[x] \in Int /\ g[x] \in Int /\ one * f[x] <= one * g[x]  BY <1>0
<1>2. one * SumFunctionOnSet(f, S) <= one * SumFunctionOnSet(g, S)  BY <1>1, SumScaled
<1>3. SumFunctionOnSet(f, S) \in Int /\ SumFunctionOnSet(g, S) \in Int  BY <1>1, SumInt
<1> QED BY <1>0, <1>2, <1>3

LEMMA SumOfZeros ==
  ASSUME NEW f, NEW S, IsFiniteSet(S), \A x \in S : f[x] = 0
  PROVE  SumFunctionOnSet(f, S) = 0
<1>0. PICK one \in Int, two \in Int : one = 1 /\ two = 2  OBVIOUS
<1>1. \A x \in S : f[x] \in Int /\ two * f[x] <= one * f[x]  BY <1>0
<1>2. two * SumFunctionOnSet(f, S) <= one * SumFunctionOnSet(f, S)  BY <1>1, SumScaled
<1>3. SumFunctionOnSet(f, S) \in Nat  BY SumNat
<1> QED BY <1>0, <1>2, <1>3

LEMMA TimesNat ==
  ASSUME NEW a \in Nat, NEW b \in Nat
  PROVE  a * b \in Nat
OBVIOUS

LEMMA TimesMonotone ==
  ASSUME NEW a \in Nat, NEW b \in Nat, NEW c \in Nat, b <= c
  PROVE  a * b <= a * c
<1>1. a * c = a * b + a * (c - b)  OBVIOUS
<1>2. c - b \in Nat  OBVIOUS
<1> DEFINE d == c - b
<1>3. d \in Nat /\ a * c = a * b + a * d  BY <1>1, <1>2
<1> HIDE DEF d
<1>4. a * d \in Nat /\ a * b \in Nat  BY <1>3, TimesNat
<1> QED BY <1>3, <1>4

LEMMA StartNext ==
  ASSUME NEW r \in Ranges, NEW k \in DOMAIN r
  PROVE  /\ Start(r, k) \in Nat
         /\ Start(r, k + 1) = Start(r, k) + r[k].length
<1> DEFINE f == [j \in 1 .. k - 1 |-> r[j].length]
           g == [j \in 1 .. k |-> r[j].length]
<1>1. k \in 1 .. Len(r) /\ Len(r) \in Nat /\ \A j \in 1 .. Len(r) : r[j].length \in Nat
  BY RangeTypes
<1>2. IsFiniteSet(1 .. k - 1) /\ IsFiniteSet(1 .. k)  BY <1>1, Interval
<1>3. \A j \in 1 .. k - 1 : f[j] \in Nat /\ f[j] = g[j]  BY <1>1
<1>4. \A j \in 1 .. k : g[j] \in Int  BY <1>1
<1>5. k \in 1 .. k /\ (1 .. k) \ {k} = 1 .. k - 1 /\ g[k] = r[k].length  BY <1>1
<1>6. (k + 1) - 1 = k  BY <1>1
<1>7. Start(r, k) = SumFunctionOnSet(f, 1 .. k - 1)  BY DEF Start, SumFunction
<1>8. Start(r, k + 1) = SumFunctionOnSet(g, 1 .. k)  BY <1>6 DEF Start, SumFunction
<1> HIDE DEF f, g
<1>9. SumFunctionOnSet(f, 1 .. k - 1) \in Nat  BY <1>2, <1>3, SumNat
<1>10. SumFunctionOnSet(g, 1 .. k) = g[k] + SumFunctionOnSet(g, (1 .. k) \ {k})
  BY <1>2, <1>4, <1>5, SumSplit
<1>11. SumFunctionOnSet(g, 1 .. k - 1) = SumFunctionOnSet(f, 1 .. k - 1)
  BY <1>2, <1>3, SumSame
<1>12. SumFunctionOnSet(g, (1 .. k) \ {k}) = SumFunctionOnSet(f, 1 .. k - 1)  BY <1>5, <1>11
<1>13. Start(r, k + 1) = r[k].length + Start(r, k)  BY <1>5, <1>7, <1>8, <1>10, <1>12
<1>14. r[k].length \in Nat /\ Start(r, k) \in Nat  BY <1>1, <1>7, <1>9
<1> QED BY <1>13, <1>14

LEMMA StartsApart ==
  ASSUME NEW r \in Ranges, NEW k \in DOMAIN r, NEW m \in DOMAIN r, k < m
  PROVE  Start(r, k) + r[k].length <= Start(r, m)
<1> DEFINE Bad == {j \in DOMAIN r : k < j /\ ~(Start(r, k) + r[k].length <= Start(r, j))}
<1>1. DOMAIN r = 1 .. Len(r) /\ Len(r) \in Nat /\ \A j \in DOMAIN r : r[j].length \in Nat
  BY RangeTypes
<1>2. ASSUME Bad # {} PROVE FALSE
  <2>0. Bad \in SUBSET Nat  BY <1>1
  <2>1. PICK j \in Bad : \A n \in Bad : j <= n  BY <1>2, <2>0, SmallestNat
  <2>2. /\ j \in DOMAIN r /\ k < j /\ ~(Start(r, k) + r[k].length <= Start(r, j))
        /\ j \in Nat /\ k \in Nat
    BY <1>1
  <2>3. CASE j = k + 1  BY <2>2, <2>3, StartNext, <1>1
  <2>4. CASE j # k + 1
    <3>1. j - 1 \in DOMAIN r /\ k < j - 1 /\ (j - 1) + 1 = j  BY <1>1, <2>2, <2>4
    <3>2. j - 1 \notin Bad  BY <2>1, <2>2
    <3>3. Start(r, k) + r[k].length <= Start(r, j - 1)  BY <3>1, <3>2
    <3>4. Start(r, j - 1) \in Nat /\ Start(r, j) = Start(r, j - 1) + r[j - 1].length
      BY <3>1, StartNext
    <3>5. Start(r, k) \in Nat /\ r[k].length \in Nat /\ r[j - 1].length \in Nat
      BY <1>1, <3>1, StartNext
    <3> QED BY <2>2, <3>3, <3>4, <3>5
  <2> QED BY <2>3, <2>4
<1> QED BY <1>2

(* A place lies in one range at most. *)
LEMMA OneRange ==
  ASSUME NEW r \in Ranges, NEW i \in Int, NEW k \in RangesAt(r, i)
  PROVE  /\ k \in DOMAIN r /\ \A m \in RangesAt(r, i) : m = k
         /\ Due(r, i) = r[k].amount
<1>1. ASSUME NEW m \in RangesAt(r, i), NEW n \in RangesAt(r, i), m < n PROVE FALSE
  <2>1. m \in DOMAIN r /\ n \in DOMAIN r  BY DEF RangesAt
  <2>2. i < Start(r, m) + r[m].length /\ Start(r, n) <= i
    <3>1. /\ Start(r, m) \in Nat /\ Start(r, n) \in Nat
          /\ r[m].length \in Nat /\ r[n].length \in Nat
      BY <2>1, StartNext, RangeTypes
    <3> QED BY <3>1 DEF RangesAt
  <2>3. Start(r, m) + r[m].length <= Start(r, n)  BY <1>1, <2>1, StartsApart
  <2>4. /\ Start(r, m) \in Nat /\ Start(r, n) \in Nat /\ r[m].length \in Nat
    BY <2>1, StartNext, RangeTypes
  <2> QED BY <2>2, <2>3, <2>4
<1>2. k \in DOMAIN r  BY DEF RangesAt
<1>3. \A m \in RangesAt(r, i) : m \in Nat
  <2>1. DOMAIN r \subseteq Nat  BY RangeTypes
  <2> QED BY <2>1 DEF RangesAt
<1>4. ASSUME NEW m \in RangesAt(r, i) PROVE m = k
  <2>1. m \in Nat /\ k \in Nat  BY <1>3
  <2> QED BY <1>1, <2>1
<1>5. Due(r, i) = r[k].amount  BY <1>4 DEF Due, AmountAt
<1> QED BY <1>2, <1>4, <1>5

LEMMA FirstOfNext ==
  ASSUME NEW r \in Ranges, NEW k \in DOMAIN r, NEW n \in Nat
  PROVE  /\ FirstOf(r, k, n) \in Nat /\ FirstOf(r, k, n) <= r[k].length
         /\ FirstOf(r, k, 0) = 0
         /\ k \in RangesAt(r, n) => FirstOf(r, k, n + 1) = FirstOf(r, k, n) + 1
         /\ k \notin RangesAt(r, n) => FirstOf(r, k, n + 1) = FirstOf(r, k, n)
<1>1. Start(r, k) \in Nat /\ r[k].length \in Nat  BY StartNext, RangeTypes
<1>2. k \in RangesAt(r, n) <=> Start(r, k) <= n /\ n < Start(r, k) + r[k].length
  BY <1>1 DEF RangesAt
<1> QED BY <1>1, <1>2 DEF FirstOf

LEMMA CumulativeNext ==
  ASSUME NEW r \in Ranges, NEW n \in Nat
  PROVE  /\ Cumulative(r, n) \in Nat /\ Due(r, n) \in Nat
         /\ Cumulative(r, 0) = 0
         /\ Cumulative(r, n + 1) = Cumulative(r, n) + Due(r, n)
         /\ Cumulative(r, n) <= TotalRequested(r)
<1> DEFINE D == DOMAIN r
           f == [k \in D |-> r[k].amount * FirstOf(r, k, n)]
           g == [k \in D |-> r[k].amount * FirstOf(r, k, n + 1)]
           z == [k \in D |-> r[k].amount * FirstOf(r, k, 0)]
           t == [k \in D |-> r[k].amount * r[k].length]
<1>1. IsFiniteSet(D) /\ \A k \in D : r[k].amount \in Nat /\ r[k].length \in Nat
  BY RangeTypes, Interval
<1>2. /\ Cumulative(r, n) = SumFunctionOnSet(f, D)
      /\ Cumulative(r, n + 1) = SumFunctionOnSet(g, D)
      /\ Cumulative(r, 0) = SumFunctionOnSet(z, D)
      /\ TotalRequested(r) = SumFunctionOnSet(t, D)
  BY DEF Cumulative, TotalRequested, SumFunction
<1>3. ASSUME NEW k \in D
      PROVE  /\ f[k] \in Nat /\ g[k] \in Nat /\ t[k] \in Nat /\ f[k] <= t[k] /\ z[k] = 0
             /\ k \in RangesAt(r, n) => g[k] = f[k] + r[k].amount
             /\ k \notin RangesAt(r, n) => g[k] = f[k]
  <2> DEFINE a == r[k].amount
             b == FirstOf(r, k, n)
             c == FirstOf(r, k, n + 1)
             l == r[k].length
  <2>1. /\ a \in Nat /\ b \in Nat /\ b <= l /\ l \in Nat /\ c \in Nat /\ FirstOf(r, k, 0) = 0
        /\ k \in RangesAt(r, n) => c = b + 1
        /\ k \notin RangesAt(r, n) => c = b
    BY <1>1, FirstOfNext
  <2>2. f[k] = a * b /\ g[k] = a * c /\ t[k] = a * l /\ z[k] = a * 0  BY <2>1
  <2> HIDE DEF a, b, c, l, f, g, t, z
  <2>3. a * b \in Nat /\ a * c \in Nat /\ a * l \in Nat /\ a * b <= a * l
    BY <2>1, TimesNat, TimesMonotone
  <2>4. a * (b + 1) = a * b + a /\ a * 0 = 0  BY <2>1
  <2> QED BY <2>1, <2>2, <2>3, <2>4 DEF a
<1> HIDE DEF D, f, g, z, t
<1>4. SumFunctionOnSet(f, D) \in Nat  BY <1>1, <1>3, SumNat
<1>5. SumFunctionOnSet(z, D) = 0  BY <1>1, <1>3, SumOfZeros
<1>6. SumFunctionOnSet(f, D) <= SumFunctionOnSet(t, D)  BY <1>1, <1>3, SumBelow
<1>7. CASE RangesAt(r, n) = {}
  <2>1. SumFunctionOnSet(f, D) = SumFunctionOnSet(g, D)  BY <1>1, <1>3, <1>7, SumSame
  <2>2. Due(r, n) = 0  BY <1>7 DEF Due
  <2> QED BY <1>2, <1>4, <1>5, <1>6, <2>1, <2>2
<1>8. CASE RangesAt(r, n) # {}
  <2>1. PICK y : y \in RangesAt(r, n)  BY <1>8
  <2>2. y \in D /\ Due(r, n) = r[y].amount /\ \A m \in RangesAt(r, n) : m = y
    BY <2>1, OneRange DEF D
  <2>3. IsFiniteSet(D \ {y})  BY <1>1, FS_Subset
  <2>4. \A k \in D \ {y} : f[k] = g[k]  BY <1>3, <2>2
  <2>5. SumFunctionOnSet(f, D \ {y}) = SumFunctionOnSet(g, D \ {y})  BY <2>3, <2>4, SumSame
  <2>6. SumFunctionOnSet(f, D) = f[y] + SumFunctionOnSet(f, D \ {y})
    BY <1>1, <1>3, <2>2, SumSplit
  <2>7. SumFunctionOnSet(g, D) = g[y] + SumFunctionOnSet(g, D \ {y})
    BY <1>1, <1>3, <2>2, SumSplit
  <2>8. g[y] = f[y] + Due(r, n) /\ f[y] \in Nat /\ Due(r, n) \in Nat  BY <1>1, <1>3, <2>1, <2>2
  <2>9. SumFunctionOnSet(f, D \ {y}) \in Nat  BY <1>3, <2>3, SumNat
  <2> QED BY <1>2, <1>4, <1>5, <1>6, <2>5, <2>6, <2>7, <2>8, <2>9
<1> QED BY <1>7, <1>8

(* So the winners before a place get together what each of them is due.     *)
LEMMA DueBefore ==
  ASSUME NEW r \in Ranges, NEW n \in Nat
  PROVE  SumFunctionOnSet([m \in 0 .. n - 1 |-> Due(r, m)], 0 .. n - 1) = Cumulative(r, n)
<1> DEFINE d(m) == [i \in 0 .. m - 1 |-> Due(r, i)]
           Bad == {m \in Nat : SumFunctionOnSet(d(m), 0 .. m - 1) # Cumulative(r, m)}
<1>1. ASSUME Bad # {} PROVE FALSE
  <2>1. PICK m \in Bad : \A j \in Bad : m <= j  BY <1>1, SmallestNat
  <2>2. m \in Nat /\ SumFunctionOnSet(d(m), 0 .. m - 1) # Cumulative(r, m)  OBVIOUS
  <2>3. CASE m = 0
    <3>1. 0 .. m - 1 = {}  BY <2>3
    <3>2. SumFunctionOnSet(d(m), 0 .. m - 1) = 0  BY <3>1, SumEmpty
    <3> QED BY <2>2, <2>3, <3>2, CumulativeNext
  <2>4. CASE m # 0
    <3> DEFINE k == m - 1
    <3>1. k \in Nat /\ k < m /\ k \notin Bad /\ m = k + 1  BY <2>1, <2>2, <2>4
    <3>2. SumFunctionOnSet(d(k), 0 .. k - 1) = Cumulative(r, k)  BY <3>1
    <3> DEFINE f == d(k)
               g == d(m)
    <3> HIDE DEF k, Bad
    <3>3. 0 .. m - 1 = 0 .. k /\ (0 .. k) \ {k} = 0 .. k - 1 /\ k \in 0 .. k  BY <3>1
    <3>4. \A i \in 0 .. k : g[i] = Due(r, i)  BY <3>3
    <3>5. \A i \in 0 .. k - 1 : f[i] = g[i]  BY <3>1, <3>4
    <3>12. SumFunctionOnSet(f, 0 .. k - 1) = Cumulative(r, k)  BY <3>2
    <3> HIDE DEF f, g, d
    <3>6. \A i \in 0 .. k : g[i] \in Int
      <4>1. ASSUME NEW i \in 0 .. k PROVE g[i] \in Int
        <5>1. i \in Nat  BY <3>1
        <5>2. Due(r, i) \in Nat  BY <5>1, CumulativeNext
        <5> QED BY <3>4, <5>2
      <4> QED BY <4>1
    <3>7. IsFiniteSet(0 .. k) /\ IsFiniteSet(0 .. k - 1)  BY <3>1, Interval
    <3>8. SumFunctionOnSet(g, 0 .. k) = g[k] + SumFunctionOnSet(g, (0 .. k) \ {k})
      BY <3>3, <3>6, <3>7, SumSplit
    <3>9. SumFunctionOnSet(f, 0 .. k - 1) = SumFunctionOnSet(g, 0 .. k - 1)
      BY <3>5, <3>7, SumSame
    <3>10. Cumulative(r, k + 1) = Cumulative(r, k) + Due(r, k) /\ Cumulative(r, k) \in Nat
           /\ Due(r, k) \in Nat
      BY <3>1, CumulativeNext
    <3>11. SumFunctionOnSet(g, 0 .. m - 1) = Cumulative(r, m)
      <4>1. SumFunctionOnSet(g, (0 .. k) \ {k}) = Cumulative(r, k)  BY <3>3, <3>9, <3>12
      <4>2. g[k] = Due(r, k)  BY <3>3, <3>4
      <4>3. SumFunctionOnSet(g, 0 .. k) = Due(r, k) + Cumulative(r, k)  BY <3>8, <4>1, <4>2
      <4>4. Cumulative(r, k + 1) = SumFunctionOnSet(g, 0 .. k)  BY <3>10, <4>3
      <4> QED BY <3>1, <3>3, <4>4
    <3> QED BY <2>2, <3>11 DEF g
  <2> QED BY <2>3, <2>4
<1> QED BY <1>1
----------------------------------------------------------------------------
LEMMA MaxOfTwo ==
  ASSUME NEW m \in Nat, NEW n \in Nat
  PROVE  /\ Max({m, n}) \in {m, n} /\ Max({m, n}) >= m /\ Max({m, n}) >= n
         /\ Max({m, n}) \in Nat
<1>1. \E z \in {m, n} : \A y \in {m, n} : z >= y  OBVIOUS
<1> QED BY <1>1 DEF Max

LEMMA TrackedType ==
  ASSUME ManagerTypeOK, NEW x \in Boxes, NEW n \in Nat
  PROVE  Tracked(x, n) \in PrizeTrackingTicket
<1>1. supply[x] \in Nat /\ prize[x] \in PrizeTrackingTicket \cup {None}  BY DEF ManagerTypeOK
<1>2. CASE prize[x] = None  BY <1>1, <1>2 DEF Tracked, PrizeTrackingTicket
<1>3. CASE prize[x] # None
  <2> DEFINE more == prize[x].redemptions + 1
  <2>1. more \in Nat  BY <1>1, <1>3 DEF PrizeTrackingTicket
  <2>2. Tracked(x, n) = [prize[x] EXCEPT !.redemptions = more]  BY <1>3 DEF Tracked
  <2> HIDE DEF more
  <2> QED BY <1>1, <1>3, <2>1, <2>2 DEF PrizeTrackingTicket
<1> QED BY <1>2, <1>3

LEMMA MintTyped ==
  ASSUME ManagerTypeOK, NEW x \in Boxes, NEW n \in Nat, NEW b \in Bidders, MintEdition(x, n, b)
  PROVE  /\ supply' \in [Boxes -> Nat]
         /\ printed' \subseteq [box : Boxes, edition : Nat, bidder : Bidders]
<1>1. supply[x] \in Nat  BY DEF ManagerTypeOK
<1>2. PICK m : m = Max({supply[x], n})  OBVIOUS
<1>3. m \in Nat  BY <1>1, <1>2, MaxOfTwo
<1>4. supply' = [supply EXCEPT ![x] = m]  BY <1>2 DEF MintEdition
<1> QED BY <1>3, <1>4 DEF MintEdition, ManagerTypeOK

LEMMA PrintTyped ==
  ASSUME ManagerTypes, NEW b \in Bidders, NEW x \in Boxes, NEW i \in Places,
         RedeemPrintingV2Bid(b, x, i)
  PROVE  ManagerTypeOK'
<1> DEFINE r == Prizes[x].ranges
<1>0. ManagerTypeOK /\ manager # None /\ plan \in Plans /\ RangesAt(r, i) # {}
  BY DEF ManagerTypes, ManagerTypeOK, RedeemPrintingV2Bid, CommonRedeemChecks
<1>1. r \in Ranges  BY <1>0, PrizeFacts
<1>2. i \in Nat /\ NumWinners \in Nat  BY NumWinnersType DEF Places
<1>3. /\ prize' = [prize EXCEPT ![x] = Tracked(x, Cumulative(r, NumWinners))]
      /\ \E offset \in OffsetsOf(r, i) : MintEdition(x, offset + prize'[x].snapshot, b)
  BY DEF RedeemPrintingV2Bid
<1> HIDE DEF r
<1>4. AmountAt(r, i) \in Nat /\ Cumulative(r, i) \in Nat /\ Cumulative(r, NumWinners) \in Nat
  BY <1>0, <1>1, <1>2, AmountType, CumulativeNext
<1>5. prize' \in [Boxes -> PrizeTrackingTicket \cup {None}] /\ prize'[x] \in PrizeTrackingTicket
  <2>1. Tracked(x, Cumulative(r, NumWinners)) \in PrizeTrackingTicket
    BY <1>0, <1>4, TrackedType
  <2> QED BY <1>0, <1>3, <2>1 DEF ManagerTypeOK
<1>6. PICK offset \in OffsetsOf(r, i) : MintEdition(x, offset + prize'[x].snapshot, b)  BY <1>3
<1>7. offset \in Nat /\ prize'[x].snapshot \in Nat
  BY <1>4, <1>5 DEF OffsetsOf, PrizeTrackingTicket
<1>8. /\ supply' \in [Boxes -> Nat]
      /\ printed' \subseteq [box : Boxes, edition : Nat, bidder : Bidders]
  BY <1>0, <1>6, <1>7, MintTyped
<1>9. ticket' \in [Bidders -> BidRedemptionTicket] /\ manager' \in AuctionManagerV2
  BY <1>0, SavedType, DisbursingType DEF RedeemPrintingV2Bid
<1>10. UNCHANGED <<plan, vault_authority, tokens, sold, update_authority, configured, tracker,
                   collected, payouts, takes, misstated, withdrawn>>
  BY DEF RedeemPrintingV2Bid, setupVars, moneyVars
<1> QED BY <1>0, <1>5, <1>8, <1>9, <1>10 DEF ManagerTypeOK

LEMMA PrintCancelledTyped ==
  ASSUME ManagerTypes, NEW b \in Bidders, NEW x \in Boxes, NEW i, RedeemPrintingCancelled(b, x, i)
  PROVE  ManagerTypeOK'
<1>1. ticket' \in [Bidders -> BidRedemptionTicket]
  BY SavedType DEF ManagerTypes, RedeemPrintingCancelled
<1> QED BY <1>1 DEF RedeemPrintingCancelled, ManagerTypes, ManagerTypeOK, contentVars, setupVars,
           moneyVars, historyVars

LEMMA PriceType ==
  ASSUME ManagerTypes, NEW b \in Bidders, NEW x \in Boxes, meta[b] # None, NEW i
  PROVE  Price(b, Prizes[x], i) \in Nat
<1>1. meta[b].last_bid \in Nat  BY DEF ManagerTypes, AuctionInv, TypeOK, BidderMetadata
<1>2. Prizes[x].fixed_price \in Nat \cup {None}  BY PrizeFacts DEF ManagerTypes, ManagerTypeOK
<1> QED BY <1>1, <1>2 DEF Price

LEMMA ParticipationTyped ==
  ASSUME ManagerTypes, NEW b \in Bidders, NEW x \in Boxes, NEW i, RedeemParticipationBid(b, x, i)
  PROVE  /\ ManagerTypeOK'
         /\ wallet' \in [Bidders -> Nat] /\ proceeds' \in Nat /\ UNCHANGED auctionState
<1>0. ManagerTypeOK /\ manager # None /\ meta[b] # None
  BY DEF ManagerTypes, RedeemParticipationBid, CommonRedeemChecks
<1> DEFINE price == Price(b, Prizes[x], i)
           n == AmountToMint(Prizes[x])
<1>1. price \in Nat  BY <1>0, PriceType
<1>2. n \in Nat
  <2>1. NumWinners \in Nat /\ total_uncancelled_bids \in Nat
    BY NumWinnersType DEF ManagerTypes, AuctionInv, TypeOK
  <2>2. n \in Int  BY <2>1 DEF AmountToMint
  <2> QED BY <2>2 DEF RedeemParticipationBid
<1>3. /\ prize' = [prize EXCEPT ![x] = Tracked(x, n)]
      /\ MintEdition(x, supply[x] + 1, b)
      /\ price <= wallet[b]
      /\ wallet' = [wallet EXCEPT ![b] = @ - price]
      /\ proceeds' = proceeds + price
      /\ collected' = [collected EXCEPT ![x] = @ + price]
      /\ ticket' = [ticket EXCEPT ![b] = Saved(b, x, i)]
      /\ manager' = IF i # None THEN Disbursing ELSE manager
      /\ misstated' = IF i = None /\ WinIndex(b) # None THEN misstated \cup {b} ELSE misstated
      /\ UNCHANGED <<plan, vault_authority, tokens, sold, update_authority, configured, tracker,
                     payouts, takes, withdrawn, auctionState>>
  BY DEF RedeemParticipationBid, setupVars
<1> HIDE DEF price, n
<1>4. prize' \in [Boxes -> PrizeTrackingTicket \cup {None}]
  <2>1. Tracked(x, n) \in PrizeTrackingTicket  BY <1>0, <1>2, TrackedType
  <2> QED BY <1>0, <1>3, <2>1 DEF ManagerTypeOK
<1>5. /\ supply' \in [Boxes -> Nat]
      /\ printed' \subseteq [box : Boxes, edition : Nat, bidder : Bidders]
  <2>1. supply[x] + 1 \in Nat  BY <1>0 DEF ManagerTypeOK
  <2> QED BY <1>0, <1>3, <2>1, MintTyped
<1>6. ticket' \in [Bidders -> BidRedemptionTicket]  BY <1>0, <1>3, SavedType
<1>7. manager' \in AuctionManagerV2  BY <1>0, <1>3, DisbursingType
<1>8. wallet' \in [Bidders -> Nat] /\ proceeds' \in Nat
  <2>1. wallet \in [Bidders -> Nat] /\ proceeds \in Nat  BY DEF ManagerTypes, AuctionInv, TypeOK
  <2>2. wallet[b] - price \in Nat /\ proceeds + price \in Nat  BY <1>1, <1>3, <2>1
  <2> QED BY <1>3, <2>1, <2>2
<1>9. collected' \in [Boxes -> Nat]
  <2>1. collected \in [Boxes -> Nat]  BY <1>0 DEF ManagerTypeOK
  <2>2. collected[x] + price \in Nat  BY <1>1, <2>1
  <2> QED BY <1>3, <2>1, <2>2
<1>10. misstated' \subseteq Bidders  BY <1>0, <1>3 DEF ManagerTypeOK
<1>11. ManagerTypeOK'
  BY <1>0, <1>3, <1>4, <1>5, <1>6, <1>7, <1>9, <1>10 DEF ManagerTypeOK
<1> QED BY <1>3, <1>8, <1>11

(* What is owed is a number: shares, fees and a number of token types.      *)
LEMMA OwedType ==
  ASSUME ManagerTypes, NEW i \in Nat \cup {None}, NEW c \in Nat \cup {None}, NEW x \in Boxes,
         HasPayee(c, x),
         i = None \/ ToSplit(i, c, x) = 0 \/ (RangesAt(tracker, i) # {} /\ TokenTypes(i) > 0)
  PROVE  Owed(i, c, x) \in Int
<1>0. ManagerTypeOK /\ plan \in Plans  BY DEF ManagerTypes, ManagerTypeOK
<1>1. Available(i, x) \in Int
  <2>1. collected[x] \in Nat  BY <1>0 DEF ManagerTypeOK
  <2>2. i # None => BidAmount(i) \in Int
    <3>1. Len(bids) \in Nat /\ DOMAIN bids = 1 .. Len(bids)
          /\ \A k \in DOMAIN bids : bids[k].amount \in Nat
      BY ListBasics DEF ManagerTypes, AuctionInv
    <3> QED BY <3>1 DEF BidAmount
  <2> QED BY <2>1, <2>2 DEF Available
<1>2. Numerator(Prizes[x], c, sold[x]) \in Int
  <2>1. Prizes[x].fee \in 0 .. Basis  BY <1>0, PrizeFacts
  <2>2. Basis \in Nat  BY DEF Basis
  <2> QED BY <2>1, <2>2 DEF Numerator
<1>3. Multiplier(Prizes[x], c) \in Int
  <2>1. CASE c = None  BY <2>1 DEF Multiplier, Basis
  <2>2. CASE c # None
    <3>1. Prizes[x].creators \in Seq(Creator)
      BY <1>0, <2>2, PrizeFacts DEF HasPayee
    <3>2. c + 1 \in 1 .. Len(Prizes[x].creators)
      BY <2>2, <3>1, LenProperties DEF HasPayee
    <3>3. Prizes[x].creators[c + 1] \in Creator  BY <3>1, <3>2, ElementOfSeq
    <3>4. Prizes[x].creators[c + 1].share \in Int  BY <3>3 DEF Creator
    <3> QED BY <2>2, <3>4 DEF Multiplier
  <2> QED BY <2>1, <2>2
<1>4. ToSplit(i, c, x) \in Int
  <2> DEFINE a == Available(i, x)
             n == Numerator(Prizes[x], c, sold[x])
             m == Multiplier(Prizes[x], c)
  <2>1. a \in Int /\ n \in Int /\ m \in Int  BY <1>1, <1>2, <1>3
  <2>2. ToSplit(i, c, x) = (a * n) * m  BY DEF ToSplit
  <2> HIDE DEF a, n, m
  <2> QED BY <2>1, <2>2
<1>5. CASE ToSplit(i, c, x) = 0  BY <1>5 DEF Owed
<1>6. CASE ToSplit(i, c, x) # 0
  <2> DEFINE s == ToSplit(i, c, x)
             t == TokenTypes(i)
             u == s \div t
             q == Basis * Basis
  <2>1. t \in Int /\ t > 0
    <3>1. CASE i = None  BY <3>1 DEF TokenTypes
    <3>2. CASE i # None
      <4>1. tracker \in Ranges  BY <1>0 DEF ManagerTypeOK, Ranges
      <4>2. RangesAt(tracker, i) # {} /\ TokenTypes(i) > 0  BY <1>6, <3>2
      <4>3. AmountAt(tracker, i) \in Nat  BY <4>1, <4>2, AmountType
      <4> QED BY <3>2, <4>2, <4>3 DEF TokenTypes
    <3> QED BY <3>1, <3>2
  <2>2. q \in Int /\ q > 0  BY DEF Basis
  <2>3. Owed(i, c, x) = u \div q  BY <1>6 DEF Owed
  <2>4. s \in Int  BY <1>4
  <2> HIDE DEF s, t, q
  <2>5. u \in Int  BY <2>1, <2>4, SMTT(30)
  <2> HIDE DEF u
  <2>6. u \div q \in Int  BY <2>2, <2>5, SMTT(30)
  <2> QED BY <2>3, <2>6
<1> QED BY <1>5, <1>6

LEMMA PayoutTyped ==
  ASSUME ManagerTypes, NEW k \in plan.payouts, EmptyPaymentAccount(k[1], k[2], k[3], k[4])
  PROVE  /\ ManagerTypeOK'
         /\ wallet' \in [Bidders -> Nat] /\ proceeds' \in Nat /\ UNCHANGED auctionState
<1>0. ManagerTypeOK /\ plan \in Plans  BY DEF ManagerTypes, ManagerTypeOK
<1> DEFINE i == k[1]
           c == k[3]
           x == k[4]
           owed == Owed(i, c, x)
           paid == Paid(k)
           made == [paid |-> owed, sold |-> sold[x], shared |-> SharedBy(i)]
<1>1. /\ i \in Nat \cup {None} /\ c \in Nat \cup {None} /\ x \in Boxes
      /\ k = <<k[1], k[2], k[3], k[4]>>
  BY <1>0, PlanFacts
<1>2. /\ HasPayee(c, x)
      /\ IF i = None \/ ToSplit(i, c, x) = 0 THEN TRUE
         ELSE RangesAt(tracker, i) # {} /\ TokenTypes(i) > 0
      /\ owed >= paid /\ owed - paid <= proceeds
      /\ proceeds' = proceeds - (owed - paid)
      /\ payouts' = [l \in {k} \cup DOMAIN payouts |-> IF l = k THEN made ELSE payouts[l]]
  BY <1>1 DEF EmptyPaymentAccount
<1>3. UNCHANGED <<auctionState, wallet, plan, contentVars, manager, setupVars, ticket, prize,
                  collected, historyVars>>
  BY DEF EmptyPaymentAccount
<1>4. owed \in Int  BY <1>1, <1>2, OwedType
<1>5. paid \in Nat  BY <1>0 DEF Paid, ManagerTypeOK, PayoutTicket
<1>6. sold[x] \in BOOLEAN /\ SharedBy(i) \in Nat
  <2>1. tracker \in Ranges  BY <1>0 DEF ManagerTypeOK, Ranges
  <2>2. SharedBy(i) \in Nat  BY <1>1, <2>1, CumulativeNext DEF SharedBy
  <2> QED BY <1>0, <1>1, <2>2 DEF ManagerTypeOK
<1> HIDE DEF owed, paid
<1>7. owed \in Nat  BY <1>2, <1>4, <1>5
<1>8. proceeds' \in Nat
  <2>1. proceeds \in Nat  BY DEF ManagerTypes, AuctionInv, TypeOK
  <2> QED BY <1>2, <1>4, <1>5, <2>1
<1>9. made \in PayoutTicket  BY <1>6, <1>7 DEF PayoutTicket
<1> HIDE DEF made
<1>10. \A l \in DOMAIN payouts' : payouts'[l] \in PayoutTicket
  BY <1>0, <1>2, <1>9 DEF ManagerTypeOK
<1>11. wallet' \in [Bidders -> Nat]  BY <1>3 DEF ManagerTypes, AuctionInv, TypeOK
<1>12. ManagerTypeOK'
  BY <1>0, <1>3, <1>10 DEF ManagerTypeOK, contentVars, setupVars, historyVars
<1> QED BY <1>3, <1>8, <1>11, <1>12
----------------------------------------------------------------------------
(* What a step does to the auction, and to the manager's own accounts.      *)
CallOfOthers ==
  \/ \E b \in Bidders, amount \in Amounts : BidOnAuction(b, amount)
  \/ BidTooLate
  \/ \E b \in Bidders : CancelOnAuction(b)
  \/ HandOverAuction \/ StartOnAuction \/ TickOnAuction

CallOfManager ==
  \/ ManagerStartAuction \/ ManagerEndAuction
  \/ \E vault_back \in BOOLEAN : DecommissionAuctionManager(vault_back)
  \/ \E b \in Bidders, extended \in BOOLEAN : ManagerClaimBid(b, extended)

(* Steps that move the money of the auction's bidders.                      *)
MoneyMoves ==
  \/ \E b \in Bidders, x \in Boxes, i \in Places \cup {None} : RedeemParticipationBid(b, x, i)
  \/ \E k \in plan.payouts : EmptyPaymentAccount(k[1], k[2], k[3], k[4])

(* Steps that leave the auction alone.                                      *)
OwnStep ==
  \/ HandOverVault
  \/ \E x \in Boxes : UpdatePrimarySaleHappened(x)
  \/ \E x \in Boxes : \E n \in 1 .. tokens[x] : SellerWithdraws(x, n)
  \/ InitAuctionManagerV2
  \/ \E x \in Boxes : ValidateSafetyDepositBoxV2(x)
  \/ \E b \in Bidders, x \in Boxes : RedeemBid(b, x)
  \/ \E b \in Bidders, x \in Boxes, i \in Places : RedeemUnused(b, x, i)
  \/ \E b \in Bidders, x \in Boxes, i \in Places :
       WinnerAt(i) = b /\ (RedeemPrintingCancelled(b, x, i) \/ RedeemPrintingV2Bid(b, x, i))
  \/ \E x \in Boxes : WithdrawMasterEdition(x)

LEMMA StepKinds ==
  ManagerNext <=> (CallOfOthers \/ CallOfManager \/ MoneyMoves \/ OwnStep)
BY DEF ManagerNext, CallOfOthers, CallOfManager, MoneyMoves, OwnStep

LEMMA OthersCall ==
  ASSUME CallOfOthers
  PROVE  /\ UNCHANGED managerVars /\ Next
         /\ \/ \E b \in Bidders, amount \in Amounts : PlaceBid(b, amount)
            \/ PlaceBidTooLate
            \/ \E b \in Bidders : CancelBid(b)
            \/ \E s, new \in Authorities : SetAuthority(s, new)
            \/ \E s \in Authorities : StartAuction(s)
            \/ Tick
<1>1. Seller \in Authorities /\ Manager \in Authorities  BY ManagerAssumption
<1> QED BY <1>1 DEF CallOfOthers, BidOnAuction, BidTooLate, CancelOnAuction, HandOverAuction,
           StartOnAuction, TickOnAuction, Next

LEMMA ManagerCall ==
  ASSUME CallOfManager
  PROVE  /\ manager # None /\ Next /\ UNCHANGED plan
         /\ \/ StartAuction(Manager) \/ EndAuction(Manager)
            \/ \E b \in Bidders, extended \in BOOLEAN : ClaimBid(Manager, b, extended)
<1>1. Manager \in Authorities  BY ManagerAssumption
<1> QED BY <1>1 DEF CallOfManager, ManagerStartAuction, ManagerEndAuction,
           DecommissionAuctionManager, ManagerClaimBid, Next

LEMMA OwnStepKeeps ==
  ASSUME OwnStep
  PROVE  UNCHANGED <<auctionState, wallet, proceeds, plan>>
BY DEF OwnStep, HandOverVault, SellerWithdraws, UpdatePrimarySaleHappened, InitAuctionManagerV2,
       ValidateSafetyDepositBoxV2, RedeemBid, RedeemUnused, RedeemPrintingCancelled,
       RedeemPrintingV2Bid, WithdrawMasterEdition

LEMMA MoneyMovesKeep ==
  ASSUME ManagerTypes, MoneyMoves
  PROVE  /\ ManagerTypeOK' /\ UNCHANGED <<auctionState, plan>>
         /\ wallet' \in [Bidders -> Nat] /\ proceeds' \in Nat
<1>1. ASSUME NEW b \in Bidders, NEW x \in Boxes, NEW i \in Places \cup {None},
             RedeemParticipationBid(b, x, i)
      PROVE  /\ ManagerTypeOK' /\ UNCHANGED <<auctionState, plan>>
             /\ wallet' \in [Bidders -> Nat] /\ proceeds' \in Nat
  BY <1>1, ParticipationTyped DEF RedeemParticipationBid
<1>2. ASSUME NEW k \in plan.payouts, EmptyPaymentAccount(k[1], k[2], k[3], k[4])
      PROVE  /\ ManagerTypeOK' /\ UNCHANGED <<auctionState, plan>>
             /\ wallet' \in [Bidders -> Nat] /\ proceeds' \in Nat
  BY <1>2, PayoutTyped DEF EmptyPaymentAccount
<1> QED BY <1>1, <1>2 DEF MoneyMoves

LEMMA OwnStepTyped ==
  ASSUME ManagerTypes, OwnStep
  PROVE  ManagerTypeOK'
<1>0. ManagerTypeOK  BY DEF ManagerTypes
<1>1. CASE HandOverVault
  BY <1>0, <1>1 DEF HandOverVault, ManagerTypeOK, setupVars, moneyVars, historyVars
<1>2. ASSUME NEW x \in Boxes, UpdatePrimarySaleHappened(x) PROVE ManagerTypeOK'
  BY <1>0, <1>2 DEF UpdatePrimarySaleHappened, ManagerTypeOK, setupVars, moneyVars, historyVars
<1>3. CASE InitAuctionManagerV2  BY <1>3, InitManagerTyped
<1>4. ASSUME NEW x \in Boxes, ValidateSafetyDepositBoxV2(x) PROVE ManagerTypeOK'
  BY <1>4, ValidateTyped
<1>5. ASSUME NEW b \in Bidders, NEW x \in Boxes, RedeemBid(b, x) PROVE ManagerTypeOK'
  BY <1>5, RedeemTyped
<1>6. ASSUME NEW b \in Bidders, NEW x \in Boxes, NEW i \in Places, RedeemUnused(b, x, i)
      PROVE  ManagerTypeOK'
  BY <1>6, UnusedTyped
<1>7. ASSUME NEW b \in Bidders, NEW x \in Boxes, NEW i \in Places, RedeemPrintingCancelled(b, x, i)
      PROVE  ManagerTypeOK'
  BY <1>7, PrintCancelledTyped
<1>8. ASSUME NEW b \in Bidders, NEW x \in Boxes, NEW i \in Places, RedeemPrintingV2Bid(b, x, i)
      PROVE  ManagerTypeOK'
  BY <1>8, PrintTyped
<1>9. ASSUME NEW x \in Boxes, WithdrawMasterEdition(x) PROVE ManagerTypeOK'
  BY <1>9, WithdrawMasterTyped
<1>10. ASSUME NEW x \in Boxes, NEW n \in 1 .. tokens[x], SellerWithdraws(x, n)
       PROVE  ManagerTypeOK'
  <2>1. tokens[x] \in Nat /\ tokens[x] - n \in Nat  BY <1>0 DEF ManagerTypeOK
  <2>2. tokens' \in [Boxes -> Nat] /\ withdrawn' \subseteq Boxes
    BY <1>0, <1>10, <2>1 DEF SellerWithdraws, ManagerTypeOK
  <2> QED BY <1>0, <1>10, <2>2 DEF SellerWithdraws, ManagerTypeOK, setupVars, moneyVars
<1> QED BY <1>1, <1>2, <1>3, <1>4, <1>5, <1>6, <1>7, <1>8, <1>9, <1>10 DEF OwnStep

LEMMA ArgsStay ==
  ASSUME ManagerTypes, Next
  PROVE  args' = args
<1>1. state # "Missing"  BY PlanFacts DEF ManagerTypes, ManagerTypeOK, AuctionInv, TypeOK
<1> QED BY <1>1 DEF Next, CreateAuction, StartAuction, EndAuction, SetAuthority, PlaceBidTooLate,
           PlaceBid, CancelBid, ClaimBid, Tick, auctionVars

LEMMA ManagerTypesStep == ManagerTypes /\ [ManagerNext]_allVars => ManagerTypes'
<1> SUFFICES ASSUME ManagerTypes, [ManagerNext]_allVars PROVE ManagerTypes'  OBVIOUS
<1>0. AuctionInv /\ ManagerTypeOK /\ args = plan.args  BY DEF ManagerTypes
<1>1. CASE CallOfOthers
  <2>1. UNCHANGED managerVars /\ Next  BY <1>1, OthersCall
  <2>2. AuctionInv' /\ args' = args  BY <1>0, <2>1, AuctionInvStep, ArgsStay
  <2>3. ManagerTypeOK'  BY <1>0, <2>1, ManagerUntouched
  <2>4. plan' = plan  BY <2>1 DEF managerVars
  <2> QED BY <1>0, <2>2, <2>3, <2>4 DEF ManagerTypes
<1>2. CASE CallOfManager
  <2>1. UNCHANGED plan /\ Next  BY <1>2, ManagerCall
  <2>2. AuctionInv' /\ args' = args  BY <1>0, <2>1, AuctionInvStep, ArgsStay
  <2>3. ManagerTypeOK'  BY <1>2, AuctionCallsTyped DEF CallOfManager
  <2> QED BY <1>0, <2>1, <2>2, <2>3 DEF ManagerTypes
<1>3. CASE MoneyMoves
  <2>1. /\ ManagerTypeOK' /\ UNCHANGED <<auctionState, plan>>
        /\ wallet' \in [Bidders -> Nat] /\ proceeds' \in Nat
    BY <1>3, MoneyMovesKeep
  <2>2. AuctionInv'  BY <1>0, <2>1, AuctionKept
  <2>3. args' = args  BY <2>1 DEF auctionState
  <2> QED BY <1>0, <2>1, <2>2, <2>3 DEF ManagerTypes
<1>4. CASE OwnStep
  <2>1. UNCHANGED <<auctionState, wallet, proceeds, plan>>  BY <1>4, OwnStepKeeps
  <2>2. AuctionInv'  BY <1>0, <2>1, AuctionUntouched
  <2>3. ManagerTypeOK'  BY <1>4, OwnStepTyped
  <2>4. args' = args  BY <2>1 DEF auctionState
  <2> QED BY <1>0, <2>1, <2>2, <2>3, <2>4 DEF ManagerTypes
<1>5. CASE UNCHANGED allVars
  <2>1. UNCHANGED <<auctionState, wallet, proceeds>> /\ UNCHANGED managerVars
    BY <1>5 DEF allVars, managerVars
  <2>2. AuctionInv' /\ ManagerTypeOK'  BY <1>0, <2>1, AuctionUntouched, ManagerUntouched
  <2> QED BY <1>0, <2>1, <2>2 DEF ManagerTypes, auctionState, managerVars
<1> QED BY <1>1, <1>2, <1>3, <1>4, <1>5, StepKinds

LEMMA ManagerTypesHold == ManagerSpec => []ManagerTypes
  BY InitTypes, ManagerTypesStep, PTL DEF ManagerSpec

(* The accounts of the auction manager keep their types through every       *)
(* instruction: the ranges of the tracker stay a list of ranges through      *)
(* every merge, and no payment account is overdrawn.                        *)
THEOREM ManagerTypeCorrect == ManagerSpec => []ManagerTypeOK
<1>1. ManagerTypes => ManagerTypeOK  BY DEF ManagerTypes
<1> QED BY <1>1, ManagerTypesHold, PTL
----------------------------------------------------------------------------
(***************************************************************************)
(* A place that is fixed: the bid d places below the top is one of bidder  *)
(* b, within the places that win, and nothing can move it any more.        *)
(***************************************************************************)
FixedAt(b, d) ==
  \E i \in DOMAIN bids :
    /\ bids[i].bidder = b /\ Len(bids) - i = d /\ d < args.max
    /\ state = "Ended" \/ (bids[i].amount >= Minimum /\ (Ended \/ PaidInstant(i)))

(* The same of the bid itself.                                              *)
BidFixed(v, d) ==
  \E i \in DOMAIN bids :
    /\ bids[i] = v /\ Len(bids) - i = d /\ d < args.max
    /\ state = "Ended" \/ (bids[i].amount >= Minimum /\ (Ended \/ PaidInstant(i)))

LEMMA RefusedAt ==
  ASSUME AuctionInv, state # "Missing", IsEnglish, NEW p \in DOMAIN bids, NEW b \in Bidders,
         bids[p].bidder = b, bids[p].amount >= Minimum, Len(bids) - p < args.max,
         Ended \/ PaidInstant(p)
  PROVE  CancelRefused(b)
<1>1. IsWinner(b)
  <2>1. WonAt(bids, Minimum, args.max, b, p)  BY DEF WonAt
  <2> QED BY <2>1, IsWinnerAt DEF WonPlace
<1>2. CASE Ended  BY <1>1, <1>2 DEF CancelRefused
<1>3. CASE PaidInstant(p)
  <2>1. p \in PlacesOf(b)  BY DEF PlacesOf
  <2>2. PlacesOf(b) \in SUBSET Nat  BY ListBasics DEF AuctionInv, PlacesOf
  <2>3. Min(PlacesOf(b)) \in PlacesOf(b)  BY <2>1, <2>2, MinOfNat
  <2>4. Min(PlacesOf(b)) = p  BY <2>1, <2>3 DEF PlacesOf, AuctionInv, OneBidPerBidder
  <2> QED BY <1>1, <1>3, <2>4 DEF CancelRefused, PaysInstantPrice, WinningAmount, PaidInstant
<1> QED BY <1>2, <1>3

(* Who stands at a fixed place before the end, or above it, is refused.     *)
LEMMA FixedRefused ==
  ASSUME AuctionInv, state \notin {"Missing", "Ended"}, NEW i \in DOMAIN bids,
         Len(bids) - i < args.max, bids[i].amount >= Minimum, Ended \/ PaidInstant(i),
         NEW p \in DOMAIN bids, i <= p, NEW c \in Bidders, bids[p].bidder = c
  PROVE  CancelRefused(c)
<1>1. /\ Len(bids) \in Nat /\ DOMAIN bids = 1 .. Len(bids)
      /\ \A k \in DOMAIN bids : bids[k].amount \in Nat
  BY ListBasics DEF AuctionInv
<1>2. IsEnglish  BY <1>1 DEF AuctionInv, Phases
<1>3. args.max \in Nat /\ args.instant_sale_price \in Nat \cup {None}
  BY ArgsTypes DEF AuctionInv
<1>4. bids[i].amount <= bids[p].amount
  <2>1. PriceSorted  BY PriorityIsSorted DEF AuctionInv
  <2>2. CASE i = p  BY <1>1, <2>2
  <2>3. CASE i < p  BY <2>1, <2>3 DEF PriceSorted
  <2> QED BY <1>1, <2>2, <2>3
<1>5. Minimum \in Nat  BY DEF AuctionInv, TypeOK, Minimum
<1>6. bids[p].amount >= Minimum /\ Len(bids) - p < args.max
  BY <1>1, <1>3, <1>4, <1>5
<1>7. PaidInstant(i) => PaidInstant(p)  BY <1>1, <1>3, <1>4 DEF PaidInstant
<1> QED BY <1>2, <1>6, <1>7, RefusedAt

LEMMA CancelKeepsBid ==
  ASSUME AuctionInv, AuctionInv', state # "Missing", args' = args, NEW c \in Bidders, CancelBid(c),
         NEW v, NEW d, BidFixed(v, d), Ended => Ended'
  PROVE  BidFixed(v, d)'
<1>1. PICK i \in DOMAIN bids :
        /\ bids[i] = v /\ Len(bids) - i = d /\ d < args.max
        /\ state = "Ended" \/ (bids[i].amount >= Minimum /\ (Ended \/ PaidInstant(i)))
  BY DEF BidFixed
<1>2. state' = state /\ price_floor' = price_floor /\ ~CancelRefused(c)  BY DEF CancelBid
<1>3. Minimum' = Minimum  BY <1>2 DEF Minimum
<1>4. CASE bids' = bids
  <2>1. PaidInstant(i) => PaidInstant(i)'  BY <1>4 DEF PaidInstant
  <2>2. i \in DOMAIN bids' /\ bids'[i] = bids[i] /\ Len(bids') = Len(bids)  BY <1>4
  <2> QED BY <1>1, <1>2, <1>3, <2>1, <2>2 DEF BidFixed
<1>5. CASE bids' # bids
  <2>1. state # "Ended" /\ bids' = WithoutBidder(c)  BY <1>5 DEF CancelBid
  <2>8. IsEnglish /\ \E p \in DOMAIN bids : bids[p].bidder = c
    BY <1>5, <2>1, WithoutUnlisted
  <2>2. PICK p \in DOMAIN bids : bids[p].bidder = c  BY <2>8
  <2>3. /\ Len(bids) \in Nat /\ DOMAIN bids = 1 .. Len(bids)
    BY ListBasics DEF AuctionInv
  <2>4. ~(i <= p)  BY <1>1, <1>2, <2>1, <2>2, FixedRefused
  <2>5. /\ Len(bids') = Len(bids) - 1 /\ DOMAIN bids' = 1 .. Len(bids) - 1
        /\ \A k \in p .. Len(bids) - 1 : bids'[k] = bids[k + 1]
    BY <2>1, <2>2, <2>8, WithoutListed
  <2>6. /\ i - 1 \in DOMAIN bids' /\ bids'[i - 1] = bids[i] /\ Len(bids') - (i - 1) = Len(bids) - i
    <3>1. i - 1 \in p .. Len(bids) - 1 /\ (i - 1) + 1 = i  BY <2>3, <2>4
    <3>2. bids'[i - 1] = bids[(i - 1) + 1]  BY <2>5, <3>1
    <3>3. Len(bids') - (i - 1) = Len(bids) - i  BY <2>3, <2>5
    <3>4. i - 1 \in 1 .. Len(bids) - 1  BY <2>3, <3>1
    <3> QED BY <2>5, <3>1, <3>2, <3>3, <3>4
  <2>7. PaidInstant(i) => PaidInstant(i - 1)'  BY <2>6 DEF PaidInstant
  <2> QED BY <1>1, <1>2, <1>3, <2>1, <2>6, <2>7 DEF BidFixed
<1> QED BY <1>4, <1>5

LEMMA PlaceKeepsBid ==
  ASSUME AuctionInv, AuctionInv', state # "Missing", args' = args, NEW c \in Bidders,
         NEW amount \in Amounts, PlaceBid(c, amount), NEW v, NEW d, BidFixed(v, d)
  PROVE  BidFixed(v, d)'
<1>1. PICK i \in DOMAIN bids :
        /\ bids[i] = v /\ Len(bids) - i = d /\ d < args.max
        /\ state = "Ended" \/ (bids[i].amount >= Minimum /\ (Ended \/ PaidInstant(i)))
  BY DEF BidFixed
<1>2. state = "Started" /\ ~Ended /\ price_floor' = price_floor  BY DEF PlaceBid
<1>3. bids[i].amount >= Minimum /\ PaidInstant(i)  BY <1>1, <1>2
<1>4. /\ Len(bids) \in Nat /\ DOMAIN bids = 1 .. Len(bids)
      /\ \A k \in DOMAIN bids : bids[k].amount \in Nat
  BY ListBasics DEF AuctionInv
<1>5. IsEnglish  BY <1>2, <1>4 DEF AuctionInv, Phases
<1>6. args.instant_sale_price \in Nat  BY <1>3, ArgsTypes DEF AuctionInv, PaidInstant
<1>7. PICK price : price = BidPrice(amount)  OBVIOUS
<1>8. price \in Nat  BY <1>7, AuctionAssumption, BidPriceType DEF AuctionInv
<1>9. PICK bid : bid = [bidder |-> c, amount |-> price]  OBVIOUS
<1>10. bid \in Bid /\ bid.amount = price  BY <1>8, <1>9 DEF Bid
<1>11. bids' = WithBid(bid)  BY <1>7, <1>9 DEF PlaceBid
<1>12. price <= args.instant_sale_price
  BY <1>3, <1>6, <1>7, AuctionAssumption DEF BidPrice, PaidInstant
<1>13. bids[i].amount >= bid.amount  BY <1>3, <1>4, <1>6, <1>8, <1>10, <1>12 DEF PaidInstant
<1>14. PICK j \in DOMAIN bids' : bids'[j] = bids[i] /\ Len(bids') - j = Len(bids) - i
  BY <1>5, <1>10, <1>11, <1>13, PlacedBelow
<1>15. Minimum' = Minimum  BY <1>2 DEF Minimum
<1>16. PaidInstant(j)'  BY <1>3, <1>14 DEF PaidInstant
<1> QED BY <1>1, <1>3, <1>14, <1>15, <1>16 DEF BidFixed

LEMMA FixedBidStays ==
  ASSUME AuctionInv, AuctionInv', state # "Missing", args' = args, Next,
         NEW v, NEW d, BidFixed(v, d)
  PROVE  BidFixed(v, d)'
<1>1. Ended => Ended'  BY EndedStays
<1>2. ASSUME NEW c \in Bidders, CancelBid(c) PROVE BidFixed(v, d)'
  BY <1>1, <1>2, CancelKeepsBid
<1>3. ASSUME NEW c \in Bidders, NEW amount \in Amounts, PlaceBid(c, amount) PROVE BidFixed(v, d)'
  BY <1>3, PlaceKeepsBid
<1>4. ASSUME bids' = bids, state' = "Ended" PROVE BidFixed(v, d)'
  BY <1>4 DEF BidFixed
<1>5. ASSUME bids' = bids, state = "Ended" => state' = "Ended", price_floor' = price_floor
      PROVE  BidFixed(v, d)'
  <2>1. Minimum' = Minimum  BY <1>5 DEF Minimum
  <2>2. \A i : PaidInstant(i) => PaidInstant(i)'  BY <1>5 DEF PaidInstant
  <2> QED BY <1>1, <1>5, <2>1, <2>2 DEF BidFixed
<1>6. CASE \/ PlaceBidTooLate \/ \E s \in Authorities : EndAuction(s)
  BY <1>4, <1>6 DEF PlaceBidTooLate, EndAuction
<1>7. CASE \/ \E s \in Authorities : StartAuction(s)
           \/ \E s, new \in Authorities : SetAuthority(s, new)
           \/ \E s \in Authorities, c \in Bidders, extended \in BOOLEAN : ClaimBid(s, c, extended)
           \/ Tick
  BY <1>5, <1>7 DEF StartAuction, SetAuthority, ClaimBid, Tick, auctionVars
<1>8. CASE \E a \in AuctionArgs, s \in Authorities : CreateAuction(a, s)
  BY <1>8 DEF CreateAuction
<1> QED BY <1>2, <1>3, <1>6, <1>7, <1>8 DEF Next
LEMMA FixedStays ==
  ASSUME AuctionInv, AuctionInv', state # "Missing", args' = args, Next,
         NEW b \in Bidders, NEW d, FixedAt(b, d)
  PROVE  FixedAt(b, d)'
<1>1. PICK v : v.bidder = b /\ BidFixed(v, d)  BY DEF FixedAt, BidFixed
<1>2. BidFixed(v, d)'  BY <1>1, FixedBidStays
<1> QED BY <1>1, <1>2 DEF FixedAt, BidFixed
----------------------------------------------------------------------------
(***************************************************************************)
(* Claims.  A pot that the manager emptied belongs to a fixed place, and   *)
(* the manager has counted as many claims as there are emptied pots.       *)
(***************************************************************************)
Emptied == {b \in Bidders : pot[b].emptied}
PaidTop == \A b \in Bidders : pot[b].emptied => manager # None /\ \E d \in Nat : FixedAt(b, d)
PushedCounted == manager # None => manager.pushed = Cardinality(Emptied)
ClaimsInv == ManagerTypes /\ PaidTop /\ PushedCounted

LEMMA EmptiedFinite == IsFiniteSet(Emptied)
  BY FS_Subset, AuctionAssumption DEF Emptied

(* Only init_auction_manager_v2 and claim_bid touch the count.              *)
KeepsPushed ==
  /\ manager' # None <=> manager # None
  /\ manager # None => manager'.pushed = manager.pushed

Status == {"Initialized", "Validated", "Running", "Disbursing", "Finished"}

LEMMA SamePushed ==
  ASSUME manager \in AuctionManagerV2,
         \/ \E s \in Status : manager' = [manager EXCEPT !.status = s]
         \/ \E v \in Nat, h \in BOOLEAN, s \in Status :
              manager' = [manager EXCEPT !.validated = v, !.has_participation = h, !.status = s]
  PROVE  KeepsPushed
<1>1. manager # None  BY ManagerAssumption
<1>2. CASE \E s \in Status : manager' = [manager EXCEPT !.status = s]
  <2>1. manager' \in AuctionManagerV2 /\ manager'.pushed = manager.pushed
    BY <1>2 DEF AuctionManagerV2, Status
  <2> QED BY <1>1, <2>1, ManagerAssumption DEF KeepsPushed
<1>3. CASE \E v \in Nat, h \in BOOLEAN, s \in Status :
             manager' = [manager EXCEPT !.validated = v, !.has_participation = h, !.status = s]
  <2>1. manager' \in AuctionManagerV2 /\ manager'.pushed = manager.pushed
    BY <1>3 DEF AuctionManagerV2, Status
  <2> QED BY <1>1, <2>1, ManagerAssumption DEF KeepsPushed
<1> QED BY <1>2, <1>3

LEMMA DisbursingPushed ==
  ASSUME ManagerTypeOK, manager # None, manager' = Disbursing
  PROVE  KeepsPushed
<1>1. manager \in AuctionManagerV2  BY DEF ManagerTypeOK
<1>2. \E s \in Status : manager' = [manager EXCEPT !.status = s]  BY DEF Disbursing, Status
<1> QED BY <1>1, <1>2, SamePushed

LEMMA ValidatePushed ==
  ASSUME ManagerTypeOK, NEW x \in Boxes, ValidateSafetyDepositBoxV2(x)
  PROVE  KeepsPushed
<1> DEFINE n == manager.validated + 1
           has == manager.has_participation \/ Prizes[x].type = "Participation"
           s == IF n = Cardinality({y \in Boxes : tokens[y] > 0}) THEN "Validated"
                ELSE manager.status
<1>1. manager \in AuctionManagerV2  BY DEF ValidateSafetyDepositBoxV2, ManagerTypeOK
<1>2. manager' = [manager EXCEPT !.validated = n, !.has_participation = has, !.status = s]
  BY DEF ValidateSafetyDepositBoxV2
<1>3. n \in Nat /\ has \in BOOLEAN /\ s \in Status  BY <1>1 DEF AuctionManagerV2, Status
<1> HIDE DEF n, has, s
<1> QED BY <1>1, <1>2, <1>3, SamePushed

LEMMA OwnStepPushed ==
  ASSUME ManagerTypeOK, OwnStep \/ MoneyMoves, ~InitAuctionManagerV2
  PROVE  KeepsPushed
<1>1. ASSUME UNCHANGED manager PROVE KeepsPushed  BY <1>1 DEF KeepsPushed
<1>2. CASE \/ HandOverVault
           \/ \E x \in Boxes : UpdatePrimarySaleHappened(x)
           \/ \E x \in Boxes : \E n \in 1 .. tokens[x] : SellerWithdraws(x, n)
           \/ \E b \in Bidders, x \in Boxes, i \in Places : RedeemPrintingCancelled(b, x, i)
           \/ \E x \in Boxes : WithdrawMasterEdition(x)
           \/ \E k \in plan.payouts : EmptyPaymentAccount(k[1], k[2], k[3], k[4])
  BY <1>1, <1>2 DEF HandOverVault, SellerWithdraws, UpdatePrimarySaleHappened,
                    RedeemPrintingCancelled, WithdrawMasterEdition, EmptyPaymentAccount
<1>3. ASSUME NEW x \in Boxes, ValidateSafetyDepositBoxV2(x) PROVE KeepsPushed
  BY <1>3, ValidatePushed
<1>4. ASSUME NEW b \in Bidders, NEW x \in Boxes, RedeemBid(b, x) PROVE KeepsPushed
  <2>1. manager # None /\ (UNCHANGED manager \/ manager' = Disbursing)
    BY <1>4 DEF RedeemBid, CommonRedeemChecks
  <2> QED BY <1>1, <2>1, DisbursingPushed
<1>5. ASSUME NEW b \in Bidders, NEW x \in Boxes, NEW i \in Places, RedeemUnused(b, x, i)
      PROVE  KeepsPushed
  BY <1>5, DisbursingPushed DEF RedeemUnused
<1>6. ASSUME NEW b \in Bidders, NEW x \in Boxes, NEW i \in Places, RedeemPrintingV2Bid(b, x, i)
      PROVE  KeepsPushed
  BY <1>6, DisbursingPushed DEF RedeemPrintingV2Bid, CommonRedeemChecks
<1>7. ASSUME NEW b \in Bidders, NEW x \in Boxes, NEW i \in Places \cup {None},
             RedeemParticipationBid(b, x, i)
      PROVE  KeepsPushed
  <2>1. manager # None /\ (UNCHANGED manager \/ manager' = Disbursing)
    BY <1>7 DEF RedeemParticipationBid, CommonRedeemChecks
  <2> QED BY <1>1, <2>1, DisbursingPushed
<1> QED BY <1>2, <1>3, <1>4, <1>5, <1>6, <1>7 DEF OwnStep, MoneyMoves

(* Claims are made of the winners, at the end or for the instant price.     *)
LEMMA ClaimedIsFixed ==
  ASSUME AuctionInv, AuctionInv', NEW b \in Bidders, NEW extended \in BOOLEAN,
         ClaimBid(Manager, b, extended)
  PROVE  \E d \in Nat : FixedAt(b, d)'
<1>1. IsWinner(b) /\ Claimable(b, extended) /\ UNCHANGED <<now, auctionVars>>
  BY DEF ClaimBid
<1>2. PlacesOf(b) # {} /\ Len(bids) - Min(PlacesOf(b)) < args.max  BY <1>1 DEF IsWinner
<1>3. PlacesOf(b) \in SUBSET Nat  BY ListBasics DEF AuctionInv, PlacesOf
<1>4. Min(PlacesOf(b)) \in PlacesOf(b)  BY <1>2, <1>3, MinOfNat
<1>5. PICK i \in DOMAIN bids : i = Min(PlacesOf(b))  BY <1>4 DEF PlacesOf
<1>6. bids[i].bidder = b /\ bids[i].amount >= Minimum /\ Len(bids) - i < args.max
  BY <1>2, <1>4, <1>5 DEF PlacesOf
<1>7. Ended \/ PaidInstant(i)
  BY <1>1, <1>5 DEF Claimable, PaysInstantPrice, WinningAmount, PaidInstant
<1>8. /\ bids' = bids /\ args' = args /\ Minimum' = Minimum /\ Ended' = Ended
      /\ PaidInstant(i)' <=> PaidInstant(i)
  BY <1>1 DEF auctionVars, Minimum, Ended, PaidInstant
<1>9. Len(bids) \in Nat /\ DOMAIN bids = 1 .. Len(bids)  BY ListBasics DEF AuctionInv
<1>10. PICK d \in Nat : d = Len(bids) - i  BY <1>9
<1>11. FixedAt(b, d)'  BY <1>6, <1>7, <1>8, <1>10 DEF FixedAt
<1> QED BY <1>10, <1>11

LEMMA NotMissing ==
  ASSUME ManagerTypes
  PROVE  state # "Missing"
BY PlanFacts DEF ManagerTypes, ManagerTypeOK, AuctionInv, TypeOK

(* What is fixed stays fixed through every step of the manager.             *)
LEMMA StepKeepsBid ==
  ASSUME ManagerTypes, ManagerTypes', [ManagerNext]_allVars,
         NEW v, NEW d, BidFixed(v, d)
  PROVE  BidFixed(v, d)'
<1>1. ASSUME Next PROVE BidFixed(v, d)'
  <2>1. args' = args /\ state # "Missing"  BY <1>1, ArgsStay, NotMissing
  <2> QED BY <1>1, <2>1, FixedBidStays DEF ManagerTypes
<1>2. ASSUME UNCHANGED auctionState PROVE BidFixed(v, d)'
  BY <1>2 DEF auctionState, BidFixed, Minimum, Ended, PaidInstant
<1>3. CASE CallOfOthers  BY <1>1, <1>3, OthersCall
<1>4. CASE CallOfManager  BY <1>1, <1>4, ManagerCall
<1>5. CASE MoneyMoves  BY <1>2, <1>5, MoneyMovesKeep
<1>6. CASE OwnStep  BY <1>2, <1>6, OwnStepKeeps
<1>7. CASE UNCHANGED allVars  BY <1>2, <1>7 DEF allVars
<1> QED BY <1>3, <1>4, <1>5, <1>6, <1>7, StepKinds

LEMMA StepKeepsFixed ==
  ASSUME ManagerTypes, ManagerTypes', [ManagerNext]_allVars,
         NEW b \in Bidders, NEW d, FixedAt(b, d)
  PROVE  FixedAt(b, d)'
<1>1. PICK v : v.bidder = b /\ BidFixed(v, d)  BY DEF FixedAt, BidFixed
<1>2. BidFixed(v, d)'  BY <1>1, StepKeepsBid
<1> QED BY <1>1, <1>2 DEF FixedAt, BidFixed

LEMMA ClaimsKept ==
  ASSUME ClaimsInv, ManagerTypes', [ManagerNext]_allVars, KeepsPushed,
         \A b \in Bidders : pot'[b].emptied <=> pot[b].emptied
  PROVE  ClaimsInv'
<1>1. PaidTop'
  <2> SUFFICES ASSUME NEW b \in Bidders, pot'[b].emptied
               PROVE  manager' # None /\ \E d \in Nat : FixedAt(b, d)'
    BY DEF PaidTop
  <2>1. manager # None /\ \E d \in Nat : FixedAt(b, d)  BY DEF ClaimsInv, PaidTop
  <2>2. PICK d \in Nat : FixedAt(b, d)  BY <2>1
  <2>3. FixedAt(b, d)'  BY <2>2, StepKeepsFixed DEF ClaimsInv
  <2> QED BY <2>1, <2>3 DEF KeepsPushed
<1>2. Emptied' = Emptied  BY DEF Emptied
<1>3. PushedCounted'  BY <1>2 DEF PushedCounted, KeepsPushed, ClaimsInv
<1> QED BY <1>1, <1>3 DEF ClaimsInv

LEMMA SameEmptied ==
  ASSUME ManagerTypes, \/ \E b \in Bidders, amount \in Amounts : PlaceBid(b, amount)
                       \/ \E b \in Bidders : CancelBid(b)
                       \/ UNCHANGED pot
  PROVE  \A b \in Bidders : pot'[b].emptied <=> pot[b].emptied
<1>1. pot \in [Bidders -> BidderPot]  BY DEF ManagerTypes, AuctionInv, TypeOK
<1>2. ASSUME NEW b \in Bidders, NEW amount \in Amounts, PlaceBid(b, amount), NEW c \in Bidders
      PROVE  pot'[c].emptied <=> pot[c].emptied
  <2>1. pot' = [pot EXCEPT ![b].exists = TRUE, ![b].amount = @ + BidPrice(amount)]
    BY <1>2 DEF PlaceBid
  <2> QED BY <1>1, <2>1 DEF BidderPot
<1>3. ASSUME NEW b \in Bidders, CancelBid(b), NEW c \in Bidders
      PROVE  pot'[c].emptied <=> pot[c].emptied
  BY <1>1, <1>3 DEF CancelBid, BidderPot
<1> QED BY <1>2, <1>3

LEMMA ClaimCounted ==
  ASSUME ClaimsInv, ManagerTypes', ManagerNext, NEW b \in Bidders, NEW extended \in BOOLEAN,
         ManagerClaimBid(b, extended)
  PROVE  ClaimsInv'
<1>0. /\ ManagerTypes /\ AuctionInv /\ AuctionInv' /\ ManagerTypeOK
      /\ pot \in [Bidders -> BidderPot]
  BY DEF ClaimsInv, ManagerTypes, AuctionInv, TypeOK
<1>1. /\ manager # None /\ ClaimBid(Manager, b, extended) /\ IsWinner(b)
      /\ pot' = [pot EXCEPT ![b].amount = 0, ![b].emptied = TRUE]
  BY DEF ManagerClaimBid, ClaimBid
<1>2. /\ pot'[b].emptied
      /\ \A c \in Bidders \ {b} : pot'[c].emptied <=> pot[c].emptied
  BY <1>0, <1>1 DEF BidderPot
<1>3. manager \in AuctionManagerV2  BY <1>0, <1>1 DEF ManagerTypeOK
<1>4. manager' \in AuctionManagerV2 /\ manager'.pushed = PushedWith(b)
  <2> DEFINE n == PushedWith(b)
             s == IF manager.status \in {"Disbursing", "Finished"} THEN manager.status
                  ELSE "Disbursing"
  <2>1. n \in Nat /\ s \in Status  BY <1>3 DEF PushedWith, AuctionManagerV2, Status
  <2>2. manager' = [manager EXCEPT !.pushed = n, !.status = s]  BY DEF ManagerClaimBid
  <2> HIDE DEF n, s
  <2>3. manager' \in AuctionManagerV2 /\ manager'.pushed = n
    BY <1>3, <2>1, <2>2 DEF AuctionManagerV2, Status
  <2> QED BY <2>3 DEF n
<1>5. manager' # None  BY <1>4, ManagerAssumption
<1>6. PaidTop'
  <2> SUFFICES ASSUME NEW c \in Bidders, pot'[c].emptied
               PROVE  manager' # None /\ \E d \in Nat : FixedAt(c, d)'
    BY DEF PaidTop
  <2>1. CASE c = b  BY <1>0, <1>1, <1>5, <2>1, ClaimedIsFixed
  <2>2. CASE c # b
    <3>1. \E d \in Nat : FixedAt(c, d)  BY <1>2, <2>2 DEF ClaimsInv, PaidTop
    <3>2. PICK d \in Nat : FixedAt(c, d)  BY <3>1
    <3>3. FixedAt(c, d)'  BY <1>0, <3>2, StepKeepsFixed
    <3> QED BY <1>5, <3>3
  <2> QED BY <2>1, <2>2
<1>7. Emptied' = Emptied \cup {b}  BY <1>2 DEF Emptied
<1>8. PushedCounted'
  <2>1. manager.pushed = Cardinality(Emptied) /\ Cardinality(Emptied) \in Nat
    BY <1>1, EmptiedFinite, FS_CardinalityType DEF ClaimsInv, PushedCounted
  <2>2. Cardinality(Emptied') = IF b \in Emptied THEN Cardinality(Emptied)
                                ELSE Cardinality(Emptied) + 1
    BY <1>7, EmptiedFinite, FS_AddElement
  <2>3. PushedWith(b) = IF b \in Emptied THEN manager.pushed ELSE manager.pushed + 1
    BY <1>1 DEF PushedWith, Emptied
  <2> QED BY <1>4, <2>1, <2>2, <2>3 DEF PushedCounted
<1> QED BY <1>6, <1>8 DEF ClaimsInv

LEMMA ClaimsInit == ManagerInit => ClaimsInv
<1> SUFFICES ASSUME ManagerInit PROVE ClaimsInv  OBVIOUS
<1>1. PaidTop /\ PushedCounted  BY DEF ManagerInit, PaidTop, PushedCounted
<1> QED BY <1>1, InitTypes DEF ClaimsInv

LEMMA ClaimsStep == ClaimsInv /\ [ManagerNext]_allVars => ClaimsInv'
<1> SUFFICES ASSUME ClaimsInv, [ManagerNext]_allVars PROVE ClaimsInv'  OBVIOUS
<1>0. ManagerTypes /\ ManagerTypes' /\ ManagerTypeOK
  BY ManagerTypesStep DEF ClaimsInv, ManagerTypes
<1>1. CASE CallOfOthers
  <2>1. \A b \in Bidders : pot'[b].emptied <=> pot[b].emptied
    <3>1. \/ \E b \in Bidders, amount \in Amounts : PlaceBid(b, amount)
          \/ \E b \in Bidders : CancelBid(b)
          \/ UNCHANGED pot
      BY <1>1, OthersCall DEF PlaceBidTooLate, SetAuthority, StartAuction, Tick, bidderVars
    <3> QED BY <1>0, <3>1, SameEmptied
  <2>2. KeepsPushed  BY <1>1, OthersCall DEF managerVars, KeepsPushed
  <2> QED BY <1>0, <2>1, <2>2, ClaimsKept
<1>2. CASE \/ ManagerStartAuction \/ ManagerEndAuction
           \/ \E vault_back \in BOOLEAN : DecommissionAuctionManager(vault_back)
  <2>1. UNCHANGED pot
    BY <1>2 DEF ManagerStartAuction, ManagerEndAuction, DecommissionAuctionManager,
                StartAuction, EndAuction, bidderVars
  <2>2. manager # None /\ \E s \in Status : manager' = [manager EXCEPT !.status = s]
    BY <1>2 DEF ManagerStartAuction, ManagerEndAuction, DecommissionAuctionManager, Status
  <2>3. manager \in AuctionManagerV2  BY <1>0, <2>2 DEF ManagerTypeOK
  <2>4. KeepsPushed  BY <2>2, <2>3, SamePushed
  <2> QED BY <1>0, <2>1, <2>4, ClaimsKept
<1>3. ASSUME NEW b \in Bidders, NEW extended \in BOOLEAN, ManagerClaimBid(b, extended)
      PROVE  ClaimsInv'
  <2>1. ManagerNext  BY <1>3 DEF ManagerNext
  <2> QED BY <1>0, <1>3, <2>1, ClaimCounted
<1>4. CASE InitAuctionManagerV2
  <2>1. manager = None /\ UNCHANGED pot /\ manager'.pushed = 0
    BY <1>4 DEF InitAuctionManagerV2, auctionState
  <2>2. \A b \in Bidders : ~pot[b].emptied  BY <2>1 DEF ClaimsInv, PaidTop
  <2>3. Emptied' = {}  BY <2>1, <2>2 DEF Emptied
  <2>4. PaidTop' /\ PushedCounted'
    BY <2>1, <2>2, <2>3, FS_EmptySet DEF PaidTop, PushedCounted
  <2> QED BY <1>0, <2>4 DEF ClaimsInv
<1>5. CASE (OwnStep \/ MoneyMoves) /\ ~InitAuctionManagerV2
  <2>1. UNCHANGED pot  BY <1>0, <1>5, OwnStepKeeps, MoneyMovesKeep DEF auctionState
  <2>2. KeepsPushed  BY <1>0, <1>5, OwnStepPushed
  <2> QED BY <1>0, <2>1, <2>2, ClaimsKept
<1>6. CASE UNCHANGED allVars
  <2>1. UNCHANGED pot /\ KeepsPushed  BY <1>6 DEF allVars, auctionState, KeepsPushed
  <2> QED BY <1>0, <2>1, ClaimsKept
<1> QED BY <1>1, <1>2, <1>3, <1>4, <1>5, <1>6, StepKinds DEF CallOfManager

LEMMA ClaimsInvariant == ManagerSpec => []ClaimsInv
  BY ClaimsInit, ClaimsStep, PTL DEF ManagerSpec
----------------------------------------------------------------------------
(* The places that win belong to different bidders.                         *)
LEMMA TopPlaces ==
  ASSUME ManagerTypes
  PROVE  LET T == {WinnerAt(i) : i \in 0 .. NumWinners - 1}
         IN IsFiniteSet(T) /\ Cardinality(T) = NumWinners
<1> DEFINE S == 0 .. NumWinners - 1
           T == {WinnerAt(i) : i \in S}
           f == [i \in S |-> WinnerAt(i)]
<1>1. /\ NumWinners \in Nat /\ NumWinners <= Len(bids) /\ Len(bids) \in Nat
      /\ DOMAIN bids = 1 .. Len(bids)
      /\ \A i \in S : WinnerAt(i) = bids[Len(bids) - i].bidder
  BY NumWinnersType
<1>2. IsFiniteSet(S) /\ Cardinality(S) = NumWinners
  <2>1. PICK last \in Int, zero \in Int : last = NumWinners - 1 /\ zero = 0  BY <1>1
  <2>2. /\ IsFiniteSet(zero .. last)
        /\ Cardinality(zero .. last) = IF zero > last THEN 0 ELSE last - zero + 1
    BY FS_Interval
  <2> QED BY <1>1, <2>1, <2>2
<1>3. f \in Surjection(S, T)  BY DEF Surjection
<1>4. f \in Injection(S, T)
  <2>1. ASSUME NEW i \in S, NEW j \in S, f[i] = f[j] PROVE i = j
    <3>1. Len(bids) - i \in DOMAIN bids /\ Len(bids) - j \in DOMAIN bids  BY <1>1
    <3>2. bids[Len(bids) - i].bidder = bids[Len(bids) - j].bidder  BY <1>1, <2>1
    <3>3. Len(bids) - i = Len(bids) - j
      BY <3>1, <3>2 DEF ManagerTypes, AuctionInv, OneBidPerBidder
    <3> QED BY <1>1, <3>3
  <2> QED BY <2>1 DEF Injection, IsInjective
<1> HIDE DEF S, T, f
<1>5. IsFiniteSet(T) /\ Cardinality(T) = Cardinality(S)
  BY <1>2, <1>3, <1>4, FS_Surjection
<1> QED BY <1>2, <1>5 DEF T, S

(* All that win are emptied when as many are emptied as there are.          *)
LEMMA ClaimsOpen ==
  ASSUME ClaimsInv
  PROVE  PayoutsOpen
<1> DEFINE T == {WinnerAt(i) : i \in 0 .. NumWinners - 1}
<1> SUFFICES ASSUME manager # None
             PROVE  AllBidsClaimed <=> \A i \in 0 .. NumWinners - 1 : pot[WinnerAt(i)].emptied
  BY DEF PayoutsOpen
<1>0. ManagerTypes  BY DEF ClaimsInv
<1>1. IsFiniteSet(T) /\ Cardinality(T) = NumWinners  BY <1>0, TopPlaces
<1>2. Emptied \subseteq T
  <2> SUFFICES ASSUME NEW b \in Bidders, pot[b].emptied PROVE b \in T  BY DEF Emptied
  <2>1. PICK d \in Nat : FixedAt(b, d)  BY DEF ClaimsInv, PaidTop
  <2>2. PICK i \in DOMAIN bids : bids[i].bidder = b /\ Len(bids) - i = d /\ d < args.max
    BY <2>1 DEF FixedAt
  <2>3. Len(bids) \in Nat /\ DOMAIN bids = 1 .. Len(bids) /\ args.max \in Nat
    BY <1>0, NumWinnersType
  <2>4. args.kind = "EnglishAuction"
    BY <1>0, <2>2, <2>3 DEF ManagerTypes, AuctionInv, Phases, IsEnglish
  <2>5. d < NumWinners /\ d \in 0 .. NumWinners - 1 /\ Len(bids) - d = i
    BY <2>2, <2>3, <2>4 DEF NumWinners
  <2>6. WinnerAt(d) = b  BY <2>2, <2>5 DEF WinnerAt
  <2> QED BY <2>5, <2>6
<1>3. manager.pushed = Cardinality(Emptied)  BY DEF ClaimsInv, PushedCounted
<1>4. AllBidsClaimed <=> Emptied = T
  BY <1>1, <1>2, <1>3, FS_Subset DEF AllBidsClaimed
<1>5. (\A i \in 0 .. NumWinners - 1 : pot[WinnerAt(i)].emptied) <=> T \subseteq Emptied
  BY <1>0, NumWinnersType DEF Emptied
<1> QED BY <1>2, <1>4, <1>5

(* Payouts open exactly when every place that wins is paid: mark_bid_as_claimed *)
(* counts each winner once, before the end or after it, whatever bids are   *)
(* placed, cancelled and claimed in between.                                *)
THEOREM PayoutsOpenWhenAllClaimed == ManagerSpec => []PayoutsOpen
<1>1. ClaimsInv => PayoutsOpen  BY ClaimsOpen
<1> QED BY <1>1, ClaimsInvariant, PTL
----------------------------------------------------------------------------
(***************************************************************************)
(* What left a box is what was taken for the places, and a configured box  *)
(* held all that its ranges promise when nothing had left; this is so where *)
(* the seller took nothing itself.                                         *)
(***************************************************************************)
Movable == {"TokenOnlyTransfer", "FullRightsTransfer"}
Given(x, i) == IF Prizes[x].type = "TokenOnlyTransfer" THEN DueAt(x, i) ELSE 1
TakenFrom(x) == [i \in Places |-> takes[<<x, i>>] * Given(x, i)]
BoxAccounts ==
  \A x \in Boxes \ withdrawn : Prizes[x].type \in Movable =>
    /\ tokens[x] + SumFunctionOnSet(TakenFrom(x), Places) = Prizes[x].tokens
    /\ x \in configured => TotalRequested(Prizes[x].ranges) <= Prizes[x].tokens
PrizeInv == ManagerTypes /\ BoxAccounts

LEMMA PlacesFinite == IsFiniteSet(Places) /\ Places \subseteq Nat
<1>1. LastPlace \in Nat  BY ManagerAssumption
<1> QED BY <1>1, Interval DEF Places

LEMMA GivenType ==
  ASSUME ManagerTypeOK, NEW x \in Boxes, NEW i \in Places
  PROVE  /\ DueAt(x, i) \in Nat /\ Given(x, i) \in Nat
         /\ takes[<<x, i>>] \in Nat /\ TakenFrom(x)[i] \in Nat
<1>1. Prizes[x].ranges \in Ranges  BY PrizeFacts DEF ManagerTypeOK
<1>2. DueAt(x, i) \in Nat  BY <1>1, PlacesFinite, CumulativeNext DEF DueAt
<1>3. Given(x, i) \in Nat  BY <1>2 DEF Given
<1>4. takes[<<x, i>>] \in Nat  BY ManagerAssumption DEF ManagerTypeOK
<1>5. takes[<<x, i>>] * Given(x, i) \in Nat  BY <1>3, <1>4, TimesNat
<1> QED BY <1>2, <1>3, <1>4, <1>5 DEF TakenFrom

LEMMA TakenType ==
  ASSUME ManagerTypeOK, NEW x \in Boxes
  PROVE  SumFunctionOnSet(TakenFrom(x), Places) \in Nat
<1>1. \A i \in Places : TakenFrom(x)[i] \in Nat  BY GivenType
<1> QED BY <1>1, PlacesFinite, SumNat

LEMMA BoxesInit == ManagerInit => BoxAccounts
<1> SUFFICES ASSUME ManagerInit, NEW x \in Boxes
             PROVE  /\ tokens[x] + SumFunctionOnSet(TakenFrom(x), Places) = Prizes[x].tokens
                    /\ x \notin configured
  BY DEF BoxAccounts
<1>1. ManagerTypeOK  BY InitTypes DEF ManagerTypes
<1>2. \A i \in Places : TakenFrom(x)[i] = 0
  <2>1. ASSUME NEW i \in Places PROVE TakenFrom(x)[i] = 0
    <3>1. Given(x, i) \in Nat /\ takes[<<x, i>>] = 0  BY <1>1, GivenType DEF ManagerInit
    <3>2. 0 * Given(x, i) = 0  BY <3>1
    <3> QED BY <3>1, <3>2 DEF TakenFrom
  <2> QED BY <2>1
<1>3. SumFunctionOnSet(TakenFrom(x), Places) = 0  BY <1>2, PlacesFinite, SumOfZeros
<1>4. tokens[x] = Prizes[x].tokens /\ Prizes[x].tokens \in Nat /\ configured = {}
  BY <1>1, PrizeFacts DEF ManagerInit, ManagerTypeOK
<1> QED BY <1>3, <1>4

(* A prize given is one more for its place, and so much less in the box.    *)
LEMMA GiveTakes ==
  ASSUME ManagerTypeOK, NEW x \in Boxes, NEW i \in Places, NEW w, Give(x, i, w)
  PROVE  /\ Prizes[x].type \in Movable /\ Given(x, i) <= tokens[x]
         /\ tokens' = [tokens EXCEPT ![x] = tokens[x] - Given(x, i)]
         /\ takes' = [takes EXCEPT ![<<x, i>>] = takes[<<x, i>>] + 1]
<1>1. CASE GiveTokens(x, i)
  <2>1. Given(x, i) = AmountAt(Prizes[x].ranges, i)  BY <1>1 DEF GiveTokens, Given, DueAt, Due
  <2>2. Withdraw(x, Given(x, i)) /\ Taken(x, i) /\ Prizes[x].type = "TokenOnlyTransfer"
    BY <1>1, <2>1 DEF GiveTokens
  <2> QED BY <2>2 DEF Withdraw, Taken, Movable
<1>2. CASE GiveFullRights(x, i, w)
  <2>1. Given(x, i) = 1  BY <1>2 DEF GiveFullRights, Given
  <2>2. Withdraw(x, Given(x, i)) /\ Taken(x, i) /\ Prizes[x].type = "FullRightsTransfer"
    BY <1>2, <2>1 DEF GiveFullRights
  <2> QED BY <2>2 DEF Withdraw, Taken, Movable
<1> QED BY <1>1, <1>2 DEF Give

LEMMA GiveBalances ==
  ASSUME ManagerTypeOK, ManagerTypeOK', BoxAccounts, NEW x \in Boxes, NEW i \in Places, NEW w,
         Give(x, i, w),
         UNCHANGED <<plan, configured, withdrawn>>
  PROVE  BoxAccounts'
<1>0. /\ Prizes[x].type \in Movable /\ Given(x, i) <= tokens[x]
      /\ tokens' = [tokens EXCEPT ![x] = tokens[x] - Given(x, i)]
      /\ takes' = [takes EXCEPT ![<<x, i>>] = takes[<<x, i>>] + 1]
  BY GiveTakes
<1>1. tokens \in [Boxes -> Nat] /\ takes \in [Boxes \X Places -> 0 .. MaxTakes]
  BY DEF ManagerTypeOK
<1>2. /\ Given(x, i) \in Nat /\ takes[<<x, i>>] \in Nat
      /\ \A z \in Boxes, p \in Places : /\ Given(z, p) \in Nat /\ TakenFrom(z)[p] \in Nat
  BY GivenType
<1>3. Prizes' = Prizes /\ \A z, p : Given(z, p)' = Given(z, p)
  BY DEF Prizes, Given, DueAt
<1>4. ASSUME NEW z \in Boxes, z # x
      PROVE  tokens'[z] = tokens[z] /\ TakenFrom(z)' = TakenFrom(z)
  BY <1>0, <1>1, <1>3, <1>4 DEF TakenFrom
<1>5. SumFunctionOnSet(TakenFrom(x), Places)'
        = SumFunctionOnSet(TakenFrom(x), Places) + Given(x, i)
  <2> DEFINE f == TakenFrom(x)
             g == TakenFrom(x)'
             t == takes[<<x, i>>]
             n == Given(x, i)
  <2>1. \A p \in Places \ {i} : f[p] = g[p]  BY <1>0, <1>1, <1>3 DEF TakenFrom
  <2>2. f[i] = t * n /\ g[i] = (t + 1) * n
    <3>1. takes'[<<x, i>>] = t + 1  BY <1>0, <1>1
    <3> QED BY <1>3, <3>1 DEF TakenFrom
  <2>4. t \in Nat /\ n \in Nat  BY <1>2
  <2>12. \A p \in Places : f[p] \in Int  BY <1>2
  <2>5. IsFiniteSet(Places \ {i}) /\ IsFiniteSet(Places)  BY PlacesFinite, FS_Subset
  <2> HIDE DEF f, g, t, n
  <2>3. \A p \in Places : f[p] \in Int /\ g[p] \in Int
    <3>1. (t + 1) * n \in Int  BY <2>4
    <3> QED BY <2>1, <2>2, <2>12, <3>1
  <2>6. SumFunctionOnSet(f, Places \ {i}) = SumFunctionOnSet(g, Places \ {i})
    BY <2>1, <2>5, SumSame
  <2>7. SumFunctionOnSet(f, Places) = f[i] + SumFunctionOnSet(f, Places \ {i})
    BY <2>3, <2>5, SumSplit
  <2>8. SumFunctionOnSet(g, Places) = g[i] + SumFunctionOnSet(g, Places \ {i})
    BY <2>3, <2>5, SumSplit
  <2>9. SumFunctionOnSet(f, Places \ {i}) \in Int  BY <2>3, <2>5, SumInt
  <2>10. (t + 1) * n = t * n + n /\ t * n \in Nat  BY <2>4, TimesNat
  <2>11. SumFunctionOnSet(g, Places) = SumFunctionOnSet(f, Places) + n
    BY <2>2, <2>4, <2>6, <2>7, <2>8, <2>9, <2>10
  <2> QED BY <2>11 DEF f, g, n
<1>6. tokens'[x] = tokens[x] - Given(x, i) /\ tokens[x] \in Nat  BY <1>0, <1>1
<1>7. SumFunctionOnSet(TakenFrom(x), Places) \in Nat  BY TakenType
<1>8. ASSUME NEW z \in Boxes \ withdrawn, Prizes[z].type \in Movable
      PROVE  /\ tokens'[z] + SumFunctionOnSet(TakenFrom(z), Places)' = Prizes[z].tokens
             /\ z \in configured => TotalRequested(Prizes[z].ranges) <= Prizes[z].tokens
  <2>1. /\ tokens[z] + SumFunctionOnSet(TakenFrom(z), Places) = Prizes[z].tokens
        /\ z \in configured => TotalRequested(Prizes[z].ranges) <= Prizes[z].tokens
    BY <1>8 DEF BoxAccounts
  <2>2. CASE z = x  BY <1>2, <1>5, <1>6, <1>7, <2>1, <2>2
  <2>3. CASE z # x
    <3>1. SumFunctionOnSet(TakenFrom(z), Places)' = SumFunctionOnSet(TakenFrom(z), Places)
      BY <1>4, <2>3
    <3> QED BY <1>4, <2>1, <2>3, <3>1
  <2> QED BY <2>2, <2>3
<1> QED BY <1>3, <1>8 DEF BoxAccounts

LEMMA TotalType ==
  ASSUME NEW r \in Ranges
  PROVE  TotalRequested(r) \in Nat
<1> DEFINE t == [k \in DOMAIN r |-> r[k].amount * r[k].length]
<1>1. IsFiniteSet(DOMAIN r) /\ \A k \in DOMAIN r : r[k].amount \in Nat /\ r[k].length \in Nat
  BY RangeTypes, Interval
<1>2. \A k \in DOMAIN r : t[k] \in Nat  BY <1>1, TimesNat
<1>3. TotalRequested(r) = SumFunctionOnSet(t, DOMAIN r)  BY DEF TotalRequested, SumFunction
<1> QED BY <1>1, <1>2, <1>3, SumNat

LEMMA BoxesUntouched ==
  ASSUME BoxAccounts, UNCHANGED <<plan, tokens, takes, configured, withdrawn>>
  PROVE  BoxAccounts'
BY DEF BoxAccounts, TakenFrom, Given, DueAt, Prizes

LEMMA ValidateBalances ==
  ASSUME ManagerTypeOK, BoxAccounts, NEW x \in Boxes, ValidateSafetyDepositBoxV2(x)
  PROVE  BoxAccounts'
<1>1. /\ UNCHANGED <<plan, tokens, takes, withdrawn>> /\ configured' = configured \cup {x}
      /\ SuppliesWinners(x)
  BY DEF ValidateSafetyDepositBoxV2, historyVars
<1>2. Prizes' = Prizes /\ \A z \in Boxes : TakenFrom(z)' = TakenFrom(z)
  BY <1>1 DEF Prizes, TakenFrom, Given, DueAt
<1>3. ASSUME NEW z \in Boxes \ withdrawn, Prizes[z].type \in Movable
      PROVE  /\ tokens[z] + SumFunctionOnSet(TakenFrom(z), Places) = Prizes[z].tokens
             /\ z \in configured' => TotalRequested(Prizes[z].ranges) <= Prizes[z].tokens
  <2>1. /\ tokens[z] + SumFunctionOnSet(TakenFrom(z), Places) = Prizes[z].tokens
        /\ z \in configured => TotalRequested(Prizes[z].ranges) <= Prizes[z].tokens
    BY <1>3 DEF BoxAccounts
  <2>2. CASE z # x  BY <1>1, <2>1, <2>2
  <2>3. CASE z = x
    <3>1. tokens[x] \in Nat /\ SumFunctionOnSet(TakenFrom(x), Places) \in Nat
      BY TakenType DEF ManagerTypeOK
    <3>2. tokens[x] <= Prizes[x].tokens  BY <2>1, <2>3, <3>1
    <3>3. Prizes[x].tokens \in Nat /\ Prizes[x].ranges \in Ranges
      BY PrizeFacts DEF ManagerTypeOK
    <3>4. PICK total : total = TotalRequested(Prizes[x].ranges)  OBVIOUS
    <3>5. total \in Nat  BY <3>3, <3>4, TotalType
    <3>6. total <= tokens[x]
      BY <1>1, <1>3, <2>3, <3>1, <3>4, <3>5 DEF SuppliesWinners, Movable
    <3>7. total <= Prizes[x].tokens  BY <3>1, <3>2, <3>3, <3>5, <3>6
    <3> QED BY <2>1, <2>3, <3>4, <3>7
  <2> QED BY <2>2, <2>3
<1>4. \A z \in Boxes : SumFunctionOnSet(TakenFrom(z), Places)'
                          = SumFunctionOnSet(TakenFrom(z), Places)
  BY <1>2
<1> QED BY <1>1, <1>2, <1>3, <1>4 DEF BoxAccounts

LEMMA MasterBalances ==
  ASSUME BoxAccounts, NEW x \in Boxes, WithdrawMasterEdition(x)
  PROVE  BoxAccounts'
<1>1. /\ UNCHANGED <<plan, takes, configured, withdrawn>> /\ Prizes[x].type \notin Movable
      /\ \E n : tokens' = [tokens EXCEPT ![x] = n]
  BY DEF WithdrawMasterEdition, HoldsMasterEdition, Withdraw, Movable, historyVars, setupVars
<1>2. \A z \in Boxes \ {x} : tokens'[z] = tokens[z]  BY <1>1
<1>3. Prizes' = Prizes /\ \A z \in Boxes : TakenFrom(z)' = TakenFrom(z)
  BY <1>1 DEF Prizes, TakenFrom, Given, DueAt
<1>4. \A z \in Boxes : SumFunctionOnSet(TakenFrom(z), Places)'
                          = SumFunctionOnSet(TakenFrom(z), Places)
  BY <1>3
<1>5. ASSUME NEW z \in Boxes \ withdrawn, Prizes[z].type \in Movable
      PROVE  /\ tokens'[z] + SumFunctionOnSet(TakenFrom(z), Places) = Prizes[z].tokens
             /\ z \in configured => TotalRequested(Prizes[z].ranges) <= Prizes[z].tokens
  BY <1>1, <1>2, <1>5 DEF BoxAccounts
<1> QED BY <1>1, <1>3, <1>4, <1>5 DEF BoxAccounts

(* What the seller takes itself leaves the other boxes as they are. *)
LEMMA SellerBalances ==
  ASSUME ManagerTypeOK, BoxAccounts, NEW x \in Boxes, NEW n, SellerWithdraws(x, n)
  PROVE  BoxAccounts'
<1>1. /\ UNCHANGED <<plan, takes, configured>> /\ withdrawn' = withdrawn \cup {x}
      /\ tokens' = [tokens EXCEPT ![x] = tokens[x] - n] /\ tokens \in [Boxes -> Nat]
  BY DEF SellerWithdraws, setupVars, ManagerTypeOK
<1>2. \A z \in Boxes \ withdrawn' : z \notin withdrawn /\ tokens'[z] = tokens[z]  BY <1>1
<1>3. Prizes' = Prizes /\ \A z \in Boxes : TakenFrom(z)' = TakenFrom(z)
  BY <1>1 DEF Prizes, TakenFrom, Given, DueAt
<1>4. \A z \in Boxes : SumFunctionOnSet(TakenFrom(z), Places)'
                          = SumFunctionOnSet(TakenFrom(z), Places)
  BY <1>3
<1>5. ASSUME NEW z \in Boxes \ withdrawn', Prizes[z].type \in Movable
      PROVE  /\ tokens'[z] + SumFunctionOnSet(TakenFrom(z), Places) = Prizes[z].tokens
             /\ z \in configured => TotalRequested(Prizes[z].ranges) <= Prizes[z].tokens
  BY <1>2, <1>5 DEF BoxAccounts
<1> QED BY <1>1, <1>3, <1>4, <1>5 DEF BoxAccounts

LEMMA BoxesStep == PrizeInv /\ ManagerTypes' /\ [ManagerNext]_allVars => BoxAccounts'
<1> SUFFICES ASSUME PrizeInv, ManagerTypes', [ManagerNext]_allVars PROVE BoxAccounts'
  OBVIOUS
<1>0. ManagerTypes /\ ManagerTypeOK /\ ManagerTypeOK' /\ BoxAccounts
  BY DEF PrizeInv, ManagerTypes
<1>1. ASSUME UNCHANGED <<plan, tokens, takes, configured, withdrawn>> PROVE BoxAccounts'
  BY <1>0, <1>1, BoxesUntouched
<1>2. CASE CallOfOthers
  <2>1. UNCHANGED managerVars  BY <1>2, OthersCall
  <2> QED BY <1>1, <2>1 DEF managerVars, contentVars, setupVars, historyVars
<1>3. CASE CallOfManager
  BY <1>1, <1>3 DEF CallOfManager, ManagerStartAuction, ManagerEndAuction,
     DecommissionAuctionManager, ManagerClaimBid, contentVars, setupVars, historyVars
<1>4. CASE MoneyMoves
  <2>1. ASSUME NEW b \in Bidders, NEW x \in Boxes, NEW i \in Places \cup {None},
               RedeemParticipationBid(b, x, i)
        PROVE  BoxAccounts'
    BY <1>1, <2>1 DEF RedeemParticipationBid, setupVars
  <2>2. ASSUME NEW k \in plan.payouts, EmptyPaymentAccount(k[1], k[2], k[3], k[4])
        PROVE  BoxAccounts'
    BY <1>1, <2>2 DEF EmptyPaymentAccount, contentVars, setupVars, historyVars
  <2> QED BY <1>4, <2>1, <2>2 DEF MoneyMoves
<1>5. CASE \/ HandOverVault \/ InitAuctionManagerV2
           \/ \E x \in Boxes : UpdatePrimarySaleHappened(x)
  BY <1>1, <1>5 DEF HandOverVault, InitAuctionManagerV2, UpdatePrimarySaleHappened,
     contentVars, setupVars, historyVars
<1>6. ASSUME NEW x \in Boxes, ValidateSafetyDepositBoxV2(x) PROVE BoxAccounts'
  BY <1>0, <1>6, ValidateBalances
<1>7. ASSUME NEW b \in Bidders, NEW x \in Boxes, RedeemBid(b, x) PROVE BoxAccounts'
  <2>1. UNCHANGED <<plan, configured, withdrawn>>  BY <1>7 DEF RedeemBid, setupVars
  <2>2. CASE WinIndex(b) # None /\ ~meta[b].cancelled
    <3>1. WinIndex(b) \in Places  BY <1>0, <2>2, WinIndexType
    <3>2. Give(x, WinIndex(b), b)  BY <1>7, <2>2 DEF RedeemBid
    <3> QED BY <1>0, <2>1, <3>1, <3>2, GiveBalances
  <2>3. CASE ~(WinIndex(b) # None /\ ~meta[b].cancelled)
    BY <1>1, <1>7, <2>1, <2>3 DEF RedeemBid
  <2> QED BY <2>2, <2>3
<1>8. ASSUME NEW b \in Bidders, NEW x \in Boxes, NEW i \in Places, RedeemUnused(b, x, i)
      PROVE  BoxAccounts'
  <2>1. UNCHANGED <<plan, configured, withdrawn>> /\ Give(x, i, Seller)
    BY <1>8 DEF RedeemUnused, setupVars
  <2> QED BY <1>0, <2>1, GiveBalances
<1>9. ASSUME NEW b \in Bidders, NEW x \in Boxes, NEW i \in Places,
             RedeemPrintingCancelled(b, x, i) \/ RedeemPrintingV2Bid(b, x, i)
      PROVE  BoxAccounts'
  BY <1>1, <1>9 DEF RedeemPrintingCancelled, RedeemPrintingV2Bid, contentVars, setupVars, historyVars
<1>10. ASSUME NEW x \in Boxes, WithdrawMasterEdition(x) PROVE BoxAccounts'
  BY <1>0, <1>10, MasterBalances
<1>11. ASSUME NEW x \in Boxes, NEW n, SellerWithdraws(x, n) PROVE BoxAccounts'
  BY <1>0, <1>11, SellerBalances
<1>12. CASE OwnStep
  BY <1>5, <1>6, <1>7, <1>8, <1>9, <1>10, <1>11, <1>12 DEF OwnStep
<1>13. CASE UNCHANGED allVars
  BY <1>1, <1>13 DEF allVars, contentVars, setupVars, historyVars
<1> QED BY <1>2, <1>3, <1>4, <1>12, <1>13, StepKinds

LEMMA PrizeInvHolds == ManagerSpec => []PrizeInv
<1>1. ManagerInit => PrizeInv  BY InitTypes, BoxesInit DEF PrizeInv
<1>2. PrizeInv /\ [ManagerNext]_allVars => PrizeInv'
  BY ManagerTypesStep, BoxesStep DEF PrizeInv
<1> QED BY <1>1, <1>2, PTL DEF ManagerSpec

(* As long as prizes are taken only for places that something is due to and  *)
(* once for each, by winners or by the auctioneer and in any order, a box    *)
(* holds all that is due to the winners who have not redeemed, unless a      *)
(* seller who has the vault back takes from it.                             *)
THEOREM PrizesKeptForWinners == ManagerSpec => []PrizesKept
<1>1. PrizeInv => PrizesKept
  <2> SUFFICES ASSUME PrizeInv, NEW x \in configured \ withdrawn, Prizes[x].type \in Movable,
                      \A i \in Places : takes[<<x, i>>] <= Min({1, DueAt(x, i)})
               PROVE  SumFunction([i \in 0 .. NumWinners - 1 |->
                        IF takes[<<x, i>>] = 0 THEN DueAt(x, i) ELSE 0]) <= tokens[x]
    BY DEF PrizesKept, Movable
  <2> DEFINE R == 0 .. NumWinners - 1
             open == [i \in Places |-> IF takes[<<x, i>>] = 0 THEN DueAt(x, i) ELSE 0]
             winners == [i \in R |-> IF takes[<<x, i>>] = 0 THEN DueAt(x, i) ELSE 0]
             due == [i \in Places |-> DueAt(x, i)]
             given == TakenFrom(x)
  <2>1. /\ ManagerTypes /\ ManagerTypeOK /\ x \in Boxes /\ tokens[x] \in Nat
        /\ tokens[x] + SumFunctionOnSet(given, Places) = Prizes[x].tokens
        /\ TotalRequested(Prizes[x].ranges) <= Prizes[x].tokens
        /\ Prizes[x].ranges \in Ranges /\ Prizes[x].tokens \in Nat
    BY PrizeFacts DEF PrizeInv, BoxAccounts, ManagerTypes, ManagerTypeOK
  <2>2. R \in SUBSET Places  BY <2>1, NumWinnersType
  <2>3. ASSUME NEW i \in Places
        PROVE  /\ open[i] \in Nat /\ given[i] \in Nat /\ due[i] \in Nat
               /\ open[i] + given[i] <= due[i]
    <3> DEFINE t == takes[<<x, i>>]
               d == DueAt(x, i)
               n == Given(x, i)
    <3>1. t \in Nat /\ d \in Nat /\ n \in Nat /\ given[i] \in Nat  BY <2>1, GivenType
    <3>2. given[i] = t * n /\ open[i] = (IF t = 0 THEN d ELSE 0) /\ due[i] = d
      BY DEF TakenFrom
    <3>3. n = d \/ n = 1  BY DEF Given
    <3>4. t <= Min({1, d})  OBVIOUS
    <3> HIDE DEF t, d, n, given, open, due
    <3>5. Min({1, d}) <= 1 /\ Min({1, d}) <= d /\ Min({1, d}) \in Nat
      <4>1. {1, d} \in SUBSET Nat  BY <3>1
      <4> QED BY <4>1, MinOfNat
    <3>6. CASE t = 0
      <4>1. 0 * n = 0  BY <3>1
      <4> QED BY <3>1, <3>2, <3>6, <4>1
    <3>7. CASE t # 0
      <4>1. t = 1 /\ 1 <= d  BY <3>1, <3>4, <3>5, <3>7
      <4>2. 1 * n = n /\ n <= d  BY <3>1, <3>3, <4>1
      <4> QED BY <3>1, <3>2, <3>7, <4>1, <4>2
    <3> QED BY <3>6, <3>7
  <2>4. SumFunctionOnSet(due, Places) <= TotalRequested(Prizes[x].ranges)
    <3>1. PICK n \in Nat : n = LastPlace + 1  BY ManagerAssumption
    <3>2. Places = 0 .. n - 1  BY <3>1, ManagerAssumption DEF Places
    <3>3. due = [m \in 0 .. n - 1 |-> Due(Prizes[x].ranges, m)]  BY <3>2 DEF DueAt
    <3>4. SumFunctionOnSet(due, Places) = Cumulative(Prizes[x].ranges, n)
      BY <2>1, <3>2, <3>3, DueBefore
    <3> QED BY <2>1, <3>4, CumulativeNext
  <2>5. \A i \in R : winners[i] = open[i]  BY <2>2
  <2>6. SumFunction(winners) = SumFunctionOnSet(winners, R)  BY DEF SumFunction
  <2> HIDE DEF open, winners, due, given, R
  <2>7. IsFiniteSet(Places) /\ IsFiniteSet(R)  BY <2>2, PlacesFinite, FS_Subset
  <2>8. SumFunctionOnSet(winners, R) = SumFunctionOnSet(open, R)  BY <2>5, <2>7, SumSame
  <2>9. SumFunctionOnSet(open, R) <= SumFunctionOnSet(open, Places)
    BY <2>2, <2>3, <2>7, SumSubset
  <2>10. SumFunctionOnSet(open, Places) + SumFunctionOnSet(given, Places)
           <= SumFunctionOnSet(due, Places)
    BY <2>3, <2>7, SumBoth
  <2>11. /\ SumFunctionOnSet(open, Places) \in Nat /\ SumFunctionOnSet(given, Places) \in Nat
         /\ SumFunctionOnSet(due, Places) \in Nat /\ SumFunctionOnSet(open, R) \in Nat
    BY <2>2, <2>3, <2>7, SumNat
  <2>12. TotalRequested(Prizes[x].ranges) \in Nat  BY <2>1, TotalType
  <2>13. SumFunction(winners) <= tokens[x]
    BY <2>1, <2>4, <2>6, <2>8, <2>9, <2>10, <2>11, <2>12
  <2> QED BY <2>13 DEF winners, R
<1> QED BY <1>1, PrizeInvHolds, PTL
----------------------------------------------------------------------------
(***************************************************************************)
(* Editions.  Who may redeem stands at a place that is fixed, or the end   *)
(* has come: no listed bid is under the floor while bidding is open, and a *)
(* bid at the instant price wins for as long as the auction is not over.   *)
(***************************************************************************)
FloorHeld == state # "Ended" => \A i \in DOMAIN bids : bids[i].amount >= Minimum
InstantStands ==
  \A b \in Bidders :
    ( /\ IsEnglish /\ state # "Ended"
      /\ meta[b] # None /\ args.instant_sale_price # None
      /\ meta[b].last_bid >= args.instant_sale_price ) => \E d \in Nat : FixedAt(b, d)
StandingInv == ManagerTypes /\ FloorHeld /\ InstantStands

(* The editions of a box: each is one of those reserved to a place that is  *)
(* fixed for who printed it, counted from the supply before all of them.    *)
ReservedTo(x, i) ==
  LET before == Prizes[x].supply + Cumulative(Prizes[x].ranges, i)
  IN before + 1 .. before + DueAt(x, i)
PrintsReserved ==
  \A x \in Boxes : Prizes[x].type = "PrintingV2" =>
    /\ \A e \in printed : e.box = x =>
         \E i \in Nat : FixedAt(e.bidder, i) /\ e.edition \in ReservedTo(x, i)
    /\ IF prize[x] = None THEN supply[x] = Prizes[x].supply
       ELSE x \in configured /\ prize[x].snapshot = Prizes[x].supply
    /\ (x \in configured /\ Prizes[x].max_supply # None) =>
         TotalRequested(Prizes[x].ranges) <= Prizes[x].max_supply - Prizes[x].supply

(* Who printed a participation edition has the bit for it set where the     *)
(* program looks for it: as a winner for good, or as one who never wins.    *)
Done(b, x) ==
  \/ ticket[b].won /\ Order[x] \in ticket[b].high /\ \E d \in Nat : FixedAt(b, d)
  \/ /\ ~ticket[b].won /\ Order[x] \in ticket[b].low
     /\ ~IsEnglish \/ (state = "Ended" /\ WinIndex(b) = None)
OneParticipation ==
  \A x \in Boxes, b \in Bidders \ misstated : Prizes[x].type = "Participation" =>
    \A e \in printed : (e.box = x /\ e.bidder = b) =>
      Done(b, x) /\ \A f \in printed : (f.box = x /\ f.bidder = b) => f = e
EditionInv == StandingInv /\ PrintsReserved /\ OneParticipation
----------------------------------------------------------------------------
(* A bid placed is listed, unless as many bids as the list has room for are *)
(* at least as high.                                                        *)
LEMMA BidListed ==
  ASSUME AuctionInv, state # "Missing", IsEnglish, NEW bid \in Bid, NEW list, list = WithBid(bid)
  PROVE  \/ \E j \in DOMAIN list : list[j] = bid
         \/ Len(list) >= Slots /\ \A j \in DOMAIN list : list[j].amount >= bid.amount
<1> DEFINE p == InsertPlace(bid.amount)
           inserted == InsertAt(bids, p, bid)
<1>1. /\ Len(bids) \in Nat /\ DOMAIN bids = 1 .. Len(bids) /\ bids \in Seq(Bid)
  BY ListBasics DEF AuctionInv, TypeOK
<1>2. bid.amount \in Nat  BY DEF Bid
<1>3. PriceSorted  BY PriorityIsSorted DEF AuctionInv
<1>4. /\ p \in 1 .. Len(bids) + 1
      /\ \A k \in p .. Len(bids) : bids[k].amount >= bid.amount
  BY <1>2, <1>3, PlaceOfBid DEF AuctionInv
<1>5. \/ list = inserted
      \/ list = Tail(inserted) /\ Len(inserted) > Slots
  BY DEF WithBid
<1> HIDE DEF p
<1>6. /\ inserted \in Seq(Bid) /\ Len(inserted) = Len(bids) + 1 /\ inserted[p] = bid
      /\ \A k \in p + 1 .. Len(bids) + 1 : inserted[k] = bids[k - 1]
  <2>1. bids \in Seq(Bid) /\ p \in 1 .. Len(bids) + 1 /\ bid \in Bid  BY <1>1, <1>4
  <2>2. InsertAt(bids, p, bid) \in Seq(Bid)  BY <2>1, InsertAtProperties
  <2>3. Len(InsertAt(bids, p, bid)) = Len(bids) + 1  BY <2>1, InsertAtProperties
  <2>4. InsertAt(bids, p, bid)[p] = bid  BY <2>1, InsertAtProperties
  <2>5. \A k \in p + 1 .. Len(bids) + 1 : InsertAt(bids, p, bid)[k] = bids[k - 1]
    BY <2>1, InsertAtProperties
  <2> QED BY <2>2, <2>3, <2>4, <2>5
<1> HIDE DEF inserted
<1>7. CASE list = inserted
  <2>1. DOMAIN list = 1 .. Len(bids) + 1  BY <1>6, <1>7, LenProperties
  <2> QED BY <1>4, <1>6, <1>7, <2>1
<1>8. CASE list = Tail(inserted) /\ Len(inserted) > Slots
  <2>1. inserted # << >>
    <3>1. Len(inserted) # 0  BY <1>1, <1>6
    <3> QED BY <1>6, <3>1, EmptySeq
  <2>2. /\ list \in Seq(Bid) /\ Len(list) = Len(inserted) - 1
        /\ \A k \in 1 .. Len(list) : list[k] = inserted[k + 1]
    BY <1>6, <1>8, <2>1, HeadTailProperties
  <2>3. DOMAIN list = 1 .. Len(bids) /\ Len(list) = Len(bids)
    BY <1>1, <1>6, <2>2, LenProperties
  <2>4. CASE p = 1
    <3>1. ASSUME NEW j \in DOMAIN list PROVE list[j].amount >= bid.amount
      <4>1. j + 1 \in p + 1 .. Len(bids) + 1 /\ (j + 1) - 1 = j /\ j \in p .. Len(bids)
        BY <1>1, <2>3, <2>4
      <4>2. list[j] = inserted[j + 1]  BY <2>2, <2>3
      <4>3. inserted[j + 1] = bids[j]  BY <1>6, <4>1
      <4> QED BY <1>4, <4>1, <4>2, <4>3
    <3>2. Slots \in Nat
      <4>1. args.max \in Nat  BY ArgsTypes DEF AuctionInv
      <4> QED BY <4>1, AuctionAssumption DEF Slots
    <3>3. Len(list) >= Slots  BY <1>1, <1>6, <1>8, <2>3, <3>2
    <3> QED BY <3>1, <3>3
  <2>5. CASE p # 1
    <3>1. p - 1 \in 1 .. Len(bids) /\ (p - 1) + 1 = p  BY <1>1, <1>4, <2>5
    <3>2. list[p - 1] = inserted[(p - 1) + 1]  BY <2>2, <2>3, <3>1
    <3> QED BY <1>6, <2>3, <3>1, <3>2
  <2> QED BY <2>4, <2>5
<1> QED BY <1>5, <1>7, <1>8

(* At the instant price it wins, or it was the last that was wanted.        *)
LEMMA InstantIsFixed ==
  ASSUME AuctionInv, AuctionInv', state # "Missing", args' = args, IsEnglish,
         NEW b \in Bidders, NEW amount \in Amounts, PlaceBid(b, amount),
         args.instant_sale_price # None, BidPrice(amount) >= args.instant_sale_price,
         state' # "Ended"
  PROVE  \E d \in Nat : FixedAt(b, d)'
<1>1. PICK price : price = BidPrice(amount)  OBVIOUS
<1>2. price \in Nat  BY <1>1, AuctionAssumption, BidPriceType DEF AuctionInv
<1>3. PICK bid : bid = [bidder |-> b, amount |-> price]  OBVIOUS
<1>4. bid \in Bid /\ bid.amount = price /\ bid.bidder = b  BY <1>2, <1>3 DEF Bid
<1>5. PICK list : list = WithBid(bid)  OBVIOUS
<1>6. /\ bids' = list /\ price >= Minimum /\ price_floor' = price_floor /\ ~SoldOut(list)
      /\ args.max > 0
  BY <1>1, <1>3, <1>5 DEF PlaceBid
<1>7. args.max \in Nat /\ args.instant_sale_price \in Nat
  BY ArgsTypes DEF AuctionInv
<1>8. /\ list \in Seq(Bid)
      /\ \A i, j \in DOMAIN list : i < j => InOrder(list, bid, i, j)
  <2>1. PriceSorted  BY PriorityIsSorted DEF AuctionInv
  <2> QED BY <1>4, <1>5, <2>1, WithBidKeepsOrder DEF AuctionInv
<1>9. /\ Len(list) \in Nat /\ DOMAIN list = 1 .. Len(list)
      /\ \A i \in DOMAIN list : list[i].amount \in Nat
  <2>1. Len(list) \in Nat /\ DOMAIN list = 1 .. Len(list)  BY <1>8, LenProperties
  <2>2. \A i \in DOMAIN list : list[i] \in Bid  BY <1>8, <2>1, ElementOfSeq
  <2> QED BY <2>1, <2>2 DEF Bid
<1>10. \A i, j \in DOMAIN list : i < j => list[i].amount <= list[j].amount
  <2>1. PriceTimePriority'  BY DEF AuctionInv
  <2>2. \A i, j \in DOMAIN list : i < j => \/ list[i].amount < list[j].amount
                                          \/ list[i].amount = list[j].amount
    BY <1>6, <2>1 DEF PriceTimePriority
  <2> QED BY <1>9, <2>2
<1>11. ASSUME NEW j \in DOMAIN list, Len(list) - j >= args.max,
              list[j].amount >= args.instant_sale_price
       PROVE  FALSE
  <2>1. PICK q : q = Len(list) - args.max + 1  OBVIOUS
  <2>2. q \in DOMAIN list /\ j < q /\ Len(list) >= args.max  BY <1>6, <1>7, <1>9, <1>11, <2>1
  <2>3. list[j].amount <= list[q].amount  BY <1>10, <2>2
  <2>4. list[q].amount >= args.instant_sale_price  BY <1>7, <1>9, <1>11, <2>2, <2>3
  <2> QED BY <1>6, <2>1, <2>2, <2>4 DEF SoldOut
<1>12. CASE \E j \in DOMAIN list : list[j] = bid
  <2>1. PICK j \in DOMAIN list : list[j] = bid  BY <1>12
  <2>2. list[j].amount >= args.instant_sale_price  BY <1>1, <1>4, <2>1
  <2>3. Len(list) - j < args.max  BY <1>7, <1>9, <1>11, <2>2
  <2>4. PICK d \in Nat : d = Len(list) - j  BY <1>9
  <2>5. PaidInstant(j)' /\ Minimum' = Minimum  BY <1>6, <2>2 DEF PaidInstant, Minimum
  <2>6. FixedAt(b, d)'
    BY <1>4, <1>6, <2>1, <2>3, <2>4, <2>5 DEF FixedAt
  <2> QED BY <2>6
<1>13. CASE Len(list) >= Slots /\ \A j \in DOMAIN list : list[j].amount >= bid.amount
  <2>1. Slots \in Nat /\ Slots >= args.max  BY <1>7, AuctionAssumption DEF Slots
  <2>2. PICK q : q = Len(list) - args.max + 1  OBVIOUS
  <2>3. q \in DOMAIN list /\ Len(list) >= args.max  BY <1>6, <1>7, <1>9, <1>13, <2>1, <2>2
  <2>4. list[q].amount >= args.instant_sale_price
    BY <1>1, <1>2, <1>4, <1>7, <1>9, <1>13, <2>3
  <2> QED BY <1>6, <2>2, <2>3, <2>4 DEF SoldOut
<1> QED BY <1>4, <1>5, <1>12, <1>13, BidListed
----------------------------------------------------------------------------
LEMMA FloorNext ==
  ASSUME AuctionInv, state # "Missing", args' = args, Next, FloorHeld
  PROVE  FloorHeld'
<1>1. ASSUME state' = "Ended" PROVE FloorHeld'  BY <1>1 DEF FloorHeld
<1>2. ASSUME bids' = bids, price_floor' = price_floor, state = "Ended" => state' = "Ended"
      PROVE  FloorHeld'
  BY <1>2 DEF FloorHeld, Minimum
<1>3. ASSUME NEW c \in Bidders, NEW amount \in Amounts, PlaceBid(c, amount) PROVE FloorHeld'
  <2>1. PICK price : price = BidPrice(amount)  OBVIOUS
  <2>2. price \in Nat  BY <2>1, AuctionAssumption, BidPriceType DEF AuctionInv
  <2>3. PICK bid : bid = [bidder |-> c, amount |-> price]  OBVIOUS
  <2>4. bid \in Bid /\ bid.amount = price  BY <2>2, <2>3 DEF Bid
  <2>5. /\ bids' = WithBid(bid) /\ price >= Minimum /\ price_floor' = price_floor
        /\ state # "Ended"
    BY <1>3, <2>1, <2>3 DEF PlaceBid
  <2>6. Minimum' = Minimum  BY <2>5 DEF Minimum
  <2>7. CASE ~IsEnglish
    <3>1. bids' = bids  BY <2>5, <2>7 DEF WithBid
    <3> QED BY <1>2, <2>5, <3>1
  <2>8. CASE IsEnglish
    <3>1. PriceSorted  BY PriorityIsSorted DEF AuctionInv
    <3>2. \A i \in DOMAIN bids' : bids'[i] = bid \/ \E k \in DOMAIN bids : bids'[i] = bids[k]
      BY <2>4, <2>5, <2>8, <3>1, WithBidKeepsOrder DEF AuctionInv
    <3> QED BY <2>4, <2>5, <2>6, <3>2 DEF FloorHeld
  <2> QED BY <2>7, <2>8
<1>4. ASSUME NEW c \in Bidders, CancelBid(c) PROVE FloorHeld'
  <2>1. state' = state /\ price_floor' = price_floor  BY <1>4 DEF CancelBid
  <2>2. CASE state = "Ended"  BY <1>1, <2>1, <2>2
  <2>3. CASE state # "Ended"
    <3>1. bids' = WithoutBidder(c)  BY <1>4, <2>3 DEF CancelBid
    <3>2. ~IsEnglish => bids = << >>  BY DEF AuctionInv, Phases
    <3>3. \A i \in DOMAIN bids' : \E k \in DOMAIN bids : bids'[i] = bids[k]
      BY <3>1, <3>2, WithoutBidderKeepsOrder DEF AuctionInv
    <3> QED BY <2>1, <2>3, <3>3 DEF FloorHeld, Minimum
  <2> QED BY <2>2, <2>3
<1>5. CASE PlaceBidTooLate \/ \E s \in Authorities : EndAuction(s)
  BY <1>1, <1>5 DEF PlaceBidTooLate, EndAuction
<1>6. CASE \/ \E s \in Authorities : StartAuction(s)
           \/ \E s, new \in Authorities : SetAuthority(s, new)
           \/ \E s \in Authorities, c \in Bidders, extended \in BOOLEAN : ClaimBid(s, c, extended)
           \/ Tick
  BY <1>2, <1>6 DEF StartAuction, SetAuthority, ClaimBid, Tick, auctionVars
<1>7. CASE \E a \in AuctionArgs, s \in Authorities : CreateAuction(a, s)
  BY <1>7 DEF CreateAuction
<1> QED BY <1>3, <1>4, <1>5, <1>6, <1>7 DEF Next

LEMMA InstantNext ==
  ASSUME AuctionInv, AuctionInv', state # "Missing", args' = args, Next, InstantStands
  PROVE  InstantStands'
<1> SUFFICES ASSUME NEW b \in Bidders, IsEnglish, state' # "Ended", meta'[b] # None,
                    args.instant_sale_price # None,
                    meta'[b].last_bid >= args.instant_sale_price
             PROVE  \E d \in Nat : FixedAt(b, d)'
  BY DEF InstantStands, IsEnglish
<1>1. ASSUME state # "Ended", meta[b] # None, meta[b].last_bid >= args.instant_sale_price
      PROVE  \E d \in Nat : FixedAt(b, d)'
  <2>1. PICK d \in Nat : FixedAt(b, d)  BY <1>1 DEF InstantStands
  <2>2. FixedAt(b, d)'  BY <2>1, FixedStays
  <2> QED BY <2>2
<1>2. meta \in [Bidders -> BidderMetadata \cup {None}]  BY DEF AuctionInv, TypeOK
<1>3. ASSUME NEW c \in Bidders, NEW amount \in Amounts, PlaceBid(c, amount)
      PROVE  \E d \in Nat : FixedAt(b, d)'
  <2>1. state # "Ended"  BY <1>3 DEF PlaceBid
  <2>2. CASE b = c
    <3>1. meta'[b].last_bid = BidPrice(amount)  BY <1>2, <1>3, <2>2 DEF PlaceBid
    <3> QED BY <1>3, <2>2, <3>1, InstantIsFixed
  <2>3. CASE b # c
    <3>1. meta'[b] = meta[b]  BY <1>2, <1>3, <2>3 DEF PlaceBid
    <3> QED BY <1>1, <2>1, <3>1
  <2> QED BY <2>2, <2>3
<1>4. ASSUME NEW c \in Bidders, CancelBid(c) PROVE \E d \in Nat : FixedAt(b, d)'
  <2>1. state # "Ended" /\ meta[c] # None  BY <1>4 DEF CancelBid
  <2>2. meta[c] \in BidderMetadata  BY <1>2, <2>1
  <2>3. meta'[b] # None => meta[b] # None /\ meta'[b].last_bid = meta[b].last_bid
    BY <1>2, <1>4, <2>1, <2>2 DEF CancelBid, BidderMetadata
  <2> QED BY <1>1, <2>1, <2>3
<1>5. CASE PlaceBidTooLate \/ \E s \in Authorities : EndAuction(s)
  BY <1>5 DEF PlaceBidTooLate, EndAuction
<1>6. CASE \/ \E s \in Authorities : StartAuction(s)
           \/ \E s, new \in Authorities : SetAuthority(s, new)
           \/ \E s \in Authorities, c \in Bidders, extended \in BOOLEAN : ClaimBid(s, c, extended)
           \/ Tick
  <2>1. meta' = meta /\ state # "Ended"
    BY <1>6 DEF StartAuction, SetAuthority, ClaimBid, Tick, auctionVars, bidderVars
  <2> QED BY <1>1, <2>1
<1>7. CASE \E a \in AuctionArgs, s \in Authorities : CreateAuction(a, s)
  BY <1>7 DEF CreateAuction
<1> QED BY <1>3, <1>4, <1>5, <1>6, <1>7 DEF Next

LEMMA StandingStep == StandingInv /\ [ManagerNext]_allVars => StandingInv'
<1> SUFFICES ASSUME StandingInv, [ManagerNext]_allVars PROVE StandingInv'  OBVIOUS
<1>0. ManagerTypes /\ ManagerTypes' /\ AuctionInv /\ AuctionInv' /\ FloorHeld /\ InstantStands
  BY ManagerTypesStep DEF StandingInv, ManagerTypes
<1>1. ASSUME Next PROVE FloorHeld' /\ InstantStands'
  <2>1. args' = args /\ state # "Missing"  BY <1>0, <1>1, ArgsStay, NotMissing
  <2> QED BY <1>0, <1>1, <2>1, FloorNext, InstantNext
<1>2. ASSUME UNCHANGED auctionState PROVE FloorHeld' /\ InstantStands'
  BY <1>0, <1>2 DEF auctionState, FloorHeld, InstantStands, IsEnglish, FixedAt, Minimum, Ended,
     PaidInstant
<1>3. FloorHeld' /\ InstantStands'
  <2>1. CASE CallOfOthers  BY <1>1, <2>1, OthersCall
  <2>2. CASE CallOfManager  BY <1>1, <2>2, ManagerCall
  <2>3. CASE MoneyMoves  BY <1>0, <1>2, <2>3, MoneyMovesKeep
  <2>4. CASE OwnStep  BY <1>2, <2>4, OwnStepKeeps
  <2>5. CASE UNCHANGED allVars  BY <1>2, <2>5 DEF allVars
  <2> QED BY <2>1, <2>2, <2>3, <2>4, <2>5, StepKinds
<1> QED BY <1>0, <1>3 DEF StandingInv

LEMMA StandingInit == ManagerInit => StandingInv
<1> SUFFICES ASSUME ManagerInit PROVE StandingInv  OBVIOUS
<1>1. ManagerTypes  BY InitTypes
<1>2. bids = << >> /\ \A b \in Bidders : meta[b] = None  BY DEF ManagerInit
<1> QED BY <1>1, <1>2 DEF StandingInv, FloorHeld, InstantStands

(* A place that is fixed is a place that wins, and the only one of its bidder. *)
LEMMA FixedWins ==
  ASSUME ManagerTypes, NEW b \in Bidders, NEW d \in Nat, FixedAt(b, d)
  PROVE  /\ IsEnglish /\ d \in 0 .. NumWinners - 1 /\ WinnerAt(d) = b
         /\ d \in IndexesOf(b) /\ WinIndex(b) # None
         /\ \A i \in 0 .. NumWinners - 1 : WinnerAt(i) = b => i = d
<1>1. PICK k \in DOMAIN bids : bids[k].bidder = b /\ Len(bids) - k = d /\ d < args.max
  BY DEF FixedAt
<1>2. /\ Len(bids) \in Nat /\ DOMAIN bids = 1 .. Len(bids) /\ args.max \in Nat
      /\ \A i \in 0 .. NumWinners - 1 : WinnerAt(i) = bids[Len(bids) - i].bidder
      /\ NumWinners \in Nat /\ NumWinners <= Len(bids)
  BY NumWinnersType
<1>3. IsEnglish
  <2>1. bids # << >>  BY <1>1, <1>2
  <2> QED BY <2>1, NotMissing DEF ManagerTypes, AuctionInv, Phases
<1>4. d < Len(bids)  BY <1>1, <1>2
<1>5. d \in 0 .. NumWinners - 1  BY <1>1, <1>2, <1>3, <1>4 DEF NumWinners, IsEnglish
<1>6. WinnerAt(d) = b
  <2>1. Len(bids) - d = k
    <3>1. k \in Int /\ Len(bids) \in Int /\ Len(bids) - k = d  BY <1>1, <1>2
    <3> QED BY <3>1
  <2> QED BY <1>1, <1>2, <1>5, <2>1
<1>7. d \in IndexesOf(b)  BY <1>5, <1>6 DEF IndexesOf
<1>8. WinIndex(b) # None  BY <1>7, WinIndexType
<1>9. ASSUME NEW i \in 0 .. NumWinners - 1, WinnerAt(i) = b PROVE i = d
  <2>1. Len(bids) - i \in DOMAIN bids /\ Len(bids) - d \in DOMAIN bids  BY <1>2, <1>5
  <2>2. bids[Len(bids) - i].bidder = b /\ bids[Len(bids) - d].bidder = b
    BY <1>2, <1>5, <1>6, <1>9
  <2>3. Len(bids) - i = Len(bids) - d
    BY <2>1, <2>2 DEF ManagerTypes, AuctionInv, OneBidPerBidder
  <2> QED BY <1>2, <1>5, <2>3
<1> QED BY <1>3, <1>5, <1>6, <1>7, <1>8, <1>9

(* Who may redeem for a place stands there for good.                        *)
LEMMA EntitledIsFixed ==
  ASSUME StandingInv, NEW b \in Bidders, NEW i \in 0 .. NumWinners - 1,
         WinnerAt(i) = b, EndedOrInstantSale(b, i)
  PROVE  FixedAt(b, i)
<1>1. /\ Len(bids) \in Nat /\ DOMAIN bids = 1 .. Len(bids) /\ args.max \in Nat
      /\ WinnerAt(i) = bids[Len(bids) - i].bidder
      /\ NumWinners \in Nat /\ NumWinners <= Len(bids) /\ NumWinners <= args.max
  BY NumWinnersType DEF StandingInv
<1>2. PICK k : k = Len(bids) - i  OBVIOUS
<1>3. k \in DOMAIN bids /\ Len(bids) - k = i /\ i < args.max /\ bids[k].bidder = b
      /\ i < Len(bids) /\ i \in Nat /\ i < NumWinners
  BY <1>1, <1>2
<1>4. CASE state = "Ended"  BY <1>3, <1>4 DEF FixedAt
<1>5. CASE state # "Ended"
  <2>1. bids[k].amount >= Minimum  BY <1>3, <1>5 DEF StandingInv, FloorHeld
  <2>2. i # None  BY <1>3, AuctionAssumption
  <2>3. args.instant_sale_price # None /\ args.instant_sale_price <= BidAmount(i)
    BY <1>3, <1>5, <2>2 DEF EndedOrInstantSale
  <2>4. args.kind # "OpenEdition"  BY <1>3 DEF NumWinners
  <2>5. BidAmount(i) = bids[k].amount  BY <1>2, <1>3, <2>4 DEF BidAmount
  <2>6. bids[k].amount \in Nat /\ args.instant_sale_price \in Nat
    BY <1>3, <2>3, ListBasics, ArgsTypes, NotMissing DEF StandingInv, ManagerTypes, AuctionInv
  <2>7. PaidInstant(k)  BY <2>3, <2>5, <2>6 DEF PaidInstant
  <2> QED BY <1>3, <2>1, <2>7 DEF FixedAt
<1> QED BY <1>4, <1>5
----------------------------------------------------------------------------
(* The editions of a box are left alone by every step but its printings.    *)
LEMMA PrintsUntouched ==
  ASSUME StandingInv, StandingInv', [ManagerNext]_allVars, PrintsReserved,
         UNCHANGED <<plan, printed, prize, supply, configured>>
  PROVE  PrintsReserved'
<1>0. ManagerTypes /\ ManagerTypes' /\ printed \subseteq [box : Boxes, edition : Nat, bidder : Bidders]
  BY DEF StandingInv, ManagerTypes, ManagerTypeOK
<1>1. Prizes' = Prizes /\ \A x, i : ReservedTo(x, i)' = ReservedTo(x, i)
  BY DEF Prizes, ReservedTo, DueAt
<1>2. ASSUME NEW x \in Boxes, Prizes[x].type = "PrintingV2", NEW e \in printed, e.box = x
      PROVE  \E i \in Nat : FixedAt(e.bidder, i)' /\ e.edition \in ReservedTo(x, i)
  <2>1. PICK i \in Nat : FixedAt(e.bidder, i) /\ e.edition \in ReservedTo(x, i)
    BY <1>2 DEF PrintsReserved
  <2>2. PICK b \in Bidders : b = e.bidder  BY <1>0
  <2>3. FixedAt(b, i)'  BY <1>0, <2>1, <2>2, StepKeepsFixed
  <2>4. FixedAt(e.bidder, i)'  BY <2>2, <2>3
  <2> QED BY <2>1, <2>4
<1>3. ASSUME NEW x \in Boxes, Prizes[x].type = "PrintingV2"
      PROVE  /\ IF prize[x] = None THEN supply[x] = Prizes[x].supply
                ELSE x \in configured /\ prize[x].snapshot = Prizes[x].supply
             /\ (x \in configured /\ Prizes[x].max_supply # None) =>
                  TotalRequested(Prizes[x].ranges) <= Prizes[x].max_supply - Prizes[x].supply
  BY <1>3 DEF PrintsReserved
<1> QED BY <1>1, <1>2, <1>3 DEF PrintsReserved

LEMMA ValidateReserves ==
  ASSUME StandingInv, StandingInv', [ManagerNext]_allVars, PrintsReserved,
         NEW y \in Boxes, ValidateSafetyDepositBoxV2(y)
  PROVE  PrintsReserved'
<1>0. ManagerTypes /\ ManagerTypes' /\ ManagerTypeOK
      /\ printed \subseteq [box : Boxes, edition : Nat, bidder : Bidders]
  BY DEF StandingInv, ManagerTypes, ManagerTypeOK
<1>1. /\ UNCHANGED <<plan, printed, prize, supply>> /\ configured' = configured \cup {y}
      /\ y \notin configured /\ SuppliesWinners(y)
  BY DEF ValidateSafetyDepositBoxV2, historyVars
<1>2. Prizes' = Prizes /\ \A x, i : ReservedTo(x, i)' = ReservedTo(x, i)
  BY <1>1 DEF Prizes, ReservedTo, DueAt
<1>3. ASSUME NEW x \in Boxes, Prizes[x].type = "PrintingV2", NEW e \in printed, e.box = x
      PROVE  \E i \in Nat : FixedAt(e.bidder, i)' /\ e.edition \in ReservedTo(x, i)
  <2>1. PICK i \in Nat : FixedAt(e.bidder, i) /\ e.edition \in ReservedTo(x, i)
    BY <1>3 DEF PrintsReserved
  <2>2. PICK b \in Bidders : b = e.bidder  BY <1>0
  <2>3. FixedAt(b, i)'  BY <1>0, <2>1, <2>2, StepKeepsFixed
  <2>4. FixedAt(e.bidder, i)'  BY <2>2, <2>3
  <2> QED BY <2>1, <2>4
<1>4. ASSUME NEW x \in Boxes, Prizes[x].type = "PrintingV2"
      PROVE  /\ IF prize[x] = None THEN supply[x] = Prizes[x].supply
                ELSE x \in configured' /\ prize[x].snapshot = Prizes[x].supply
             /\ (x \in configured' /\ Prizes[x].max_supply # None) =>
                  TotalRequested(Prizes[x].ranges) <= Prizes[x].max_supply - Prizes[x].supply
  <2>1. /\ IF prize[x] = None THEN supply[x] = Prizes[x].supply
           ELSE x \in configured /\ prize[x].snapshot = Prizes[x].supply
        /\ (x \in configured /\ Prizes[x].max_supply # None) =>
             TotalRequested(Prizes[x].ranges) <= Prizes[x].max_supply - Prizes[x].supply
    BY <1>4 DEF PrintsReserved
  <2>2. CASE x # y  BY <1>1, <2>1, <2>2
  <2>3. CASE x = y
    <3>1. supply[y] = Prizes[y].supply  BY <1>1, <2>1, <2>3
    <3>2. PICK total : total = TotalRequested(Prizes[y].ranges)  OBVIOUS
    <3>3. /\ Prizes[y].ranges \in Ranges /\ Prizes[y].max_supply \in Nat \cup {None}
          /\ Prizes[y].supply \in Nat
      BY <1>0, PrizeFacts DEF ManagerTypeOK
    <3>4. total \in Nat  BY <3>2, <3>3, TotalType
    <3>5. Prizes[y].max_supply # None => Prizes[y].max_supply - supply[y] >= total
      BY <1>1, <1>4, <2>3, <3>2 DEF SuppliesWinners
    <3>6. Prizes[y].max_supply # None => total <= Prizes[y].max_supply - Prizes[y].supply
      BY <3>1, <3>3, <3>4, <3>5
    <3> QED BY <1>1, <2>1, <2>3, <3>2, <3>6
  <2> QED BY <2>2, <2>3
<1> QED BY <1>1, <1>2, <1>3, <1>4 DEF PrintsReserved

LEMMA PrintingReserves ==
  ASSUME StandingInv, StandingInv', [ManagerNext]_allVars, PrintsReserved,
         NEW c \in Bidders, NEW y \in Boxes, NEW n \in Places, WinnerAt(n) = c,
         RedeemPrintingV2Bid(c, y, n)
  PROVE  PrintsReserved'
<1>0. ManagerTypes /\ ManagerTypes' /\ ManagerTypeOK
      /\ printed \subseteq [box : Boxes, edition : Nat, bidder : Bidders]
  BY DEF StandingInv, ManagerTypes, ManagerTypeOK
<1> DEFINE r == Prizes[y].ranges
<1>1. /\ UNCHANGED <<plan, configured, auctionState>> /\ Prizes[y].type = "PrintingV2"
      /\ CommonRedeemChecks(c, y, n) /\ RangesAt(r, n) # {}
      /\ prize' = [prize EXCEPT ![y] = Tracked(y, Cumulative(r, NumWinners))]
      /\ \E offset \in OffsetsOf(r, n) : MintEdition(y, offset + prize'[y].snapshot, c)
  BY DEF RedeemPrintingV2Bid, setupVars
<1>2. Prizes' = Prizes /\ \A x, i : ReservedTo(x, i)' = ReservedTo(x, i)
  BY <1>1 DEF Prizes, ReservedTo, DueAt
<1>3. /\ r \in Ranges /\ Prizes[y].supply \in Nat /\ n \in Nat
  BY <1>0, PrizeFacts, PlacesFinite DEF ManagerTypeOK
<1>4. FixedAt(c, n)'
  <2>1. n \in 0 .. NumWinners - 1
    <3>1. NumWinners \in Nat  BY <1>0, NumWinnersType
    <3>2. c # None  BY ManagerAssumption
    <3> QED BY <1>3, <3>1, <3>2 DEF WinnerAt
  <2>2. EndedOrInstantSale(c, n)  BY <1>1 DEF CommonRedeemChecks
  <2>3. FixedAt(c, n)  BY <2>1, <2>2, EntitledIsFixed
  <2> QED BY <1>0, <2>3, StepKeepsFixed
<1> HIDE DEF r
<1>5. prize'[y] # None /\ prize'[y].snapshot = Prizes[y].supply /\ y \in configured
  <2>1. prize \in [Boxes -> PrizeTrackingTicket \cup {None}]  BY <1>0 DEF ManagerTypeOK
  <2>2. prize'[y] = Tracked(y, Cumulative(r, NumWinners))  BY <1>1, <2>1
  <2>3. Cumulative(r, NumWinners) \in Nat
    BY <1>0, <1>3, NumWinnersType, CumulativeNext
  <2>4. Tracked(y, Cumulative(r, NumWinners)) \in PrizeTrackingTicket
    BY <1>0, <2>3, TrackedType
  <2>5. Tracked(y, Cumulative(r, NumWinners)).snapshot
          = IF prize[y] = None THEN supply[y] ELSE prize[y].snapshot
    <3>1. CASE prize[y] = None  BY <3>1 DEF Tracked
    <3>2. CASE prize[y] # None
      <4>1. prize[y] \in PrizeTrackingTicket  BY <2>1, <3>2
      <4>2. PICK more : more = prize[y].redemptions + 1  OBVIOUS
      <4>3. Tracked(y, Cumulative(r, NumWinners)) = [prize[y] EXCEPT !.redemptions = more]
        BY <3>2, <4>2 DEF Tracked
      <4> QED BY <3>2, <4>1, <4>3 DEF PrizeTrackingTicket
    <3> QED BY <3>1, <3>2
  <2>6. y \in configured  BY <1>1 DEF CommonRedeemChecks
  <2> QED BY <1>1, <2>2, <2>4, <2>5, <2>6, ManagerAssumption DEF PrintsReserved
<1>6. PICK offset \in OffsetsOf(r, n) : MintEdition(y, offset + prize'[y].snapshot, c)
  BY <1>1
<1>7. PICK edition : edition = offset + Prizes[y].supply  OBVIOUS
<1>8. /\ printed' = printed \cup {[box |-> y, edition |-> edition, bidder |-> c]}
      /\ \A x \in Boxes \ {y} : supply'[x] = supply[x] /\ prize'[x] = prize[x]
  BY <1>0, <1>1, <1>5, <1>6, <1>7 DEF MintEdition, ManagerTypeOK
<1>9. edition \in ReservedTo(y, n)
  <2>1. DueAt(y, n) = AmountAt(r, n)  BY <1>1 DEF DueAt, Due, r
  <2>2. Cumulative(r, n) \in Nat /\ AmountAt(r, n) \in Nat
    BY <1>1, <1>3, CumulativeNext, AmountType
  <2>3. offset \in Cumulative(r, n) + 1 .. Cumulative(r, n) + AmountAt(r, n)
    BY <1>6 DEF OffsetsOf
  <2>4. ReservedTo(y, n) = Prizes[y].supply + Cumulative(r, n) + 1
                           .. Prizes[y].supply + Cumulative(r, n) + DueAt(y, n)
    BY DEF ReservedTo, r
  <2> QED BY <1>3, <1>7, <2>1, <2>2, <2>3, <2>4
<1>10. ASSUME NEW x \in Boxes, Prizes[x].type = "PrintingV2", NEW e \in printed', e.box = x
       PROVE  \E i \in Nat : FixedAt(e.bidder, i)' /\ e.edition \in ReservedTo(x, i)
  <2>1. CASE e \in printed
    <3>1. PICK i \in Nat : FixedAt(e.bidder, i) /\ e.edition \in ReservedTo(x, i)
      BY <1>10, <2>1 DEF PrintsReserved
    <3>2. PICK b \in Bidders : b = e.bidder  BY <1>0, <2>1
    <3>3. FixedAt(b, i)'  BY <1>0, <3>1, <3>2, StepKeepsFixed
    <3>4. FixedAt(e.bidder, i)'  BY <3>2, <3>3
    <3> QED BY <3>1, <3>4
  <2>2. CASE e = [box |-> y, edition |-> edition, bidder |-> c]
    <3>1. e.bidder = c /\ e.edition = edition /\ x = y  BY <1>10, <2>2
    <3>2. FixedAt(e.bidder, n)'  BY <1>4, <3>1
    <3> QED BY <1>3, <1>9, <3>1, <3>2
  <2> QED BY <1>8, <2>1, <2>2
<1>11. ASSUME NEW x \in Boxes, Prizes[x].type = "PrintingV2"
       PROVE  /\ IF prize'[x] = None THEN supply'[x] = Prizes[x].supply
                 ELSE x \in configured /\ prize'[x].snapshot = Prizes[x].supply
              /\ (x \in configured /\ Prizes[x].max_supply # None) =>
                   TotalRequested(Prizes[x].ranges) <= Prizes[x].max_supply - Prizes[x].supply
  <2>1. CASE x # y  BY <1>8, <1>11, <2>1 DEF PrintsReserved
  <2>2. CASE x = y  BY <1>5, <1>11, <2>2 DEF PrintsReserved
  <2> QED BY <2>1, <2>2
<1> QED BY <1>1, <1>2, <1>10, <1>11 DEF PrintsReserved

LEMMA ParticipationReserves ==
  ASSUME StandingInv, StandingInv', [ManagerNext]_allVars, PrintsReserved,
         NEW c \in Bidders, NEW y \in Boxes, NEW n, RedeemParticipationBid(c, y, n)
  PROVE  PrintsReserved'
<1>0. ManagerTypes /\ ManagerTypes' /\ ManagerTypeOK
      /\ printed \subseteq [box : Boxes, edition : Nat, bidder : Bidders]
  BY DEF StandingInv, ManagerTypes, ManagerTypeOK
<1>1. /\ UNCHANGED <<plan, configured>> /\ Prizes[y].type = "Participation"
      /\ \E t : prize' = [prize EXCEPT ![y] = t]
      /\ MintEdition(y, supply[y] + 1, c)
  BY DEF RedeemParticipationBid, setupVars
<1>2. Prizes' = Prizes /\ \A x, i : ReservedTo(x, i)' = ReservedTo(x, i)
  BY <1>1 DEF Prizes, ReservedTo, DueAt
<1>3. /\ printed' = printed \cup {[box |-> y, edition |-> supply[y] + 1, bidder |-> c]}
      /\ \A x \in Boxes \ {y} : supply'[x] = supply[x] /\ prize'[x] = prize[x]
  BY <1>0, <1>1 DEF MintEdition, ManagerTypeOK
<1>4. ASSUME NEW x \in Boxes, Prizes[x].type = "PrintingV2", NEW e \in printed', e.box = x
      PROVE  \E i \in Nat : FixedAt(e.bidder, i)' /\ e.edition \in ReservedTo(x, i)
  <2>1. e \in printed  BY <1>1, <1>3, <1>4
  <2>2. PICK i \in Nat : FixedAt(e.bidder, i) /\ e.edition \in ReservedTo(x, i)
    BY <1>4, <2>1 DEF PrintsReserved
  <2>3. PICK b \in Bidders : b = e.bidder  BY <1>0, <2>1
  <2>4. FixedAt(b, i)'  BY <1>0, <2>2, <2>3, StepKeepsFixed
  <2>5. FixedAt(e.bidder, i)'  BY <2>3, <2>4
  <2> QED BY <2>2, <2>5
<1>5. ASSUME NEW x \in Boxes, Prizes[x].type = "PrintingV2"
      PROVE  /\ IF prize'[x] = None THEN supply'[x] = Prizes[x].supply
                ELSE x \in configured /\ prize'[x].snapshot = Prizes[x].supply
             /\ (x \in configured /\ Prizes[x].max_supply # None) =>
                  TotalRequested(Prizes[x].ranges) <= Prizes[x].max_supply - Prizes[x].supply
  BY <1>1, <1>3, <1>5 DEF PrintsReserved
<1> QED BY <1>1, <1>2, <1>4, <1>5 DEF PrintsReserved
----------------------------------------------------------------------------
(* The steps that the editions of the boxes depend on.                      *)
LEMMA PrintingSteps ==
  ASSUME [ManagerNext]_allVars
  PROVE  \/ UNCHANGED <<plan, printed, prize, supply, configured>>
         \/ \E x \in Boxes : ValidateSafetyDepositBoxV2(x)
         \/ \E c \in Bidders, x \in Boxes, n \in Places :
              WinnerAt(n) = c /\ RedeemPrintingV2Bid(c, x, n)
         \/ \E c \in Bidders, x \in Boxes, n \in Places \cup {None} : RedeemParticipationBid(c, x, n)
<1> DEFINE Alone == UNCHANGED <<plan, printed, prize, supply, configured>>
<1>1. CallOfOthers => Alone
  BY OthersCall DEF managerVars, contentVars, setupVars, historyVars
<1>2. CallOfManager => Alone
  BY DEF CallOfManager, ManagerStartAuction, ManagerEndAuction,
     DecommissionAuctionManager, ManagerClaimBid, contentVars, setupVars, historyVars
<1>3. ASSUME NEW k \in plan.payouts, EmptyPaymentAccount(k[1], k[2], k[3], k[4]) PROVE Alone
  BY <1>3 DEF EmptyPaymentAccount, contentVars, setupVars, historyVars
<1>4. (\/ HandOverVault \/ InitAuctionManagerV2
       \/ \E x \in Boxes : \E n \in 1 .. tokens[x] : SellerWithdraws(x, n)
       \/ \E x \in Boxes : UpdatePrimarySaleHappened(x) \/ WithdrawMasterEdition(x)) => Alone
  BY DEF HandOverVault, SellerWithdraws, InitAuctionManagerV2, UpdatePrimarySaleHappened,
     WithdrawMasterEdition, contentVars, setupVars, historyVars
<1>5. ASSUME NEW b \in Bidders, NEW x \in Boxes, RedeemBid(b, x) PROVE Alone
  BY <1>5 DEF RedeemBid, setupVars
<1>6. ASSUME NEW b \in Bidders, NEW x \in Boxes, NEW i \in Places, RedeemUnused(b, x, i) PROVE Alone
  BY <1>6 DEF RedeemUnused, setupVars
<1>7. ASSUME NEW b \in Bidders, NEW x \in Boxes, NEW i \in Places, RedeemPrintingCancelled(b, x, i)
      PROVE  Alone
  BY <1>7 DEF RedeemPrintingCancelled, contentVars, setupVars, historyVars
<1>8. UNCHANGED allVars => Alone  BY DEF allVars, contentVars, setupVars, historyVars
<1> HIDE DEF Alone
<1>9. MoneyMoves => \/ Alone
                    \/ \E c \in Bidders, x \in Boxes, n \in Places \cup {None} :
                         RedeemParticipationBid(c, x, n)
  BY <1>3 DEF MoneyMoves
<1>10. OwnStep => \/ Alone
                  \/ \E x \in Boxes : ValidateSafetyDepositBoxV2(x)
                  \/ \E c \in Bidders, x \in Boxes, n \in Places :
                       WinnerAt(n) = c /\ RedeemPrintingV2Bid(c, x, n)
  BY <1>4, <1>5, <1>6, <1>7 DEF OwnStep
<1> QED BY <1>1, <1>2, <1>8, <1>9, <1>10, StepKinds DEF Alone

LEMMA PrintsStep ==
  ASSUME StandingInv, StandingInv', [ManagerNext]_allVars, PrintsReserved
  PROVE  PrintsReserved'
BY PrintingSteps, PrintsUntouched, ValidateReserves, PrintingReserves, ParticipationReserves

(* A redemption notes the place of the bidder, or that it has none.          *)
LEMMA TicketStep ==
  ASSUME ManagerTypes, [ManagerNext]_allVars, NEW b \in Bidders \ misstated'
  PROVE  /\ b \notin misstated
         /\ \/ ticket'[b] = ticket[b]
            \/ \E y \in Boxes, i \in Places \cup {None} :
                 ticket'[b] = Saved(b, y, i) /\ (i = None <=> WinIndex(b) = None)
<1> DEFINE Noted == \E y \in Boxes, i \in Places \cup {None} :
                      ticket'[b] = Saved(b, y, i) /\ (i = None <=> WinIndex(b) = None)
           Goal == b \notin misstated /\ (ticket'[b] = ticket[b] \/ Noted)
<1> SUFFICES Goal  OBVIOUS
<1>0. ticket \in [Bidders -> BidRedemptionTicket] /\ \A i \in Places : i # None
  BY PlacesFinite, AuctionAssumption DEF ManagerTypes, ManagerTypeOK
<1>1. UNCHANGED <<ticket, misstated>> => Goal  OBVIOUS
<1>2. ASSUME NEW c \in Bidders, NEW y \in Boxes, NEW i \in Places \cup {None},
             ticket' = [ticket EXCEPT ![c] = Saved(c, y, i)], misstated' = misstated,
             i = None <=> WinIndex(c) = None
      PROVE  Goal
  <2>1. CASE b = c
    <3>1. ticket'[b] = Saved(b, y, i)  BY <1>0, <1>2, <2>1
    <3>2. Noted  BY <1>2, <2>1, <3>1
    <3> QED BY <1>2, <3>2
  <2>2. CASE b # c  BY <1>0, <1>2, <2>2
  <2> QED BY <2>1, <2>2
<1>3. ASSUME NEW c \in Bidders, NEW i \in Places, WinnerAt(i) = c
      PROVE  WinIndex(c) # None
  <2>1. c # None /\ i \in Nat /\ NumWinners \in Nat
    BY PlacesFinite, ManagerAssumption, NumWinnersType
  <2>2. i \in 0 .. NumWinners - 1  BY <1>3, <2>1 DEF WinnerAt
  <2>3. i \in IndexesOf(c)  BY <1>3, <2>2 DEF IndexesOf
  <2> QED BY <2>3, WinIndexType
<1>4. ASSUME NEW c \in Bidders, NEW y \in Boxes, NEW i \in Places \cup {None},
             RedeemParticipationBid(c, y, i)
      PROVE  Goal
  <2>1. /\ i \in IndexesOf(c) \cup {None} /\ ticket' = [ticket EXCEPT ![c] = Saved(c, y, i)]
        /\ misstated' = IF i = None /\ WinIndex(c) # None THEN misstated \cup {c} ELSE misstated
    BY <1>4 DEF RedeemParticipationBid
  <2>2. CASE i = None /\ WinIndex(c) # None
    <3>1. b # c /\ b \notin misstated  BY <2>1, <2>2
    <3> QED BY <1>0, <2>1, <3>1
  <2>3. CASE ~(i = None /\ WinIndex(c) # None)
    <3>1. i = None <=> WinIndex(c) = None  BY <1>0, <2>1, <2>3, WinIndexType
    <3>2. misstated' = misstated  BY <2>1, <2>3
    <3> QED BY <1>2, <2>1, <3>1, <3>2
  <2> QED BY <2>2, <2>3
<1>5. ASSUME NEW c \in Bidders, NEW y \in Boxes, RedeemBid(c, y) PROVE Goal
  <2>1. WinIndex(c) \in Places \cup {None}  BY WinIndexType
  <2>2. ticket' = [ticket EXCEPT ![c] = Saved(c, y, WinIndex(c))] /\ misstated' = misstated
    BY <1>5 DEF RedeemBid
  <2> QED BY <1>2, <2>1, <2>2
<1>6. ASSUME NEW c \in Bidders, NEW y \in Boxes, NEW i \in Places, WinnerAt(i) = c,
             RedeemPrintingCancelled(c, y, i) \/ RedeemPrintingV2Bid(c, y, i)
      PROVE  Goal
  <2>1. ticket' = [ticket EXCEPT ![c] = Saved(c, y, i)] /\ misstated' = misstated
    BY <1>6 DEF RedeemPrintingCancelled, RedeemPrintingV2Bid, historyVars
  <2> QED BY <1>0, <1>2, <1>3, <1>6, <2>1
<1>7. CallOfOthers => UNCHANGED <<ticket, misstated>>
  BY OthersCall DEF managerVars, historyVars
<1>8. CallOfManager => UNCHANGED <<ticket, misstated>>
  BY DEF CallOfManager, ManagerStartAuction, ManagerEndAuction,
     DecommissionAuctionManager, ManagerClaimBid, historyVars
<1>9. ASSUME NEW k \in plan.payouts, EmptyPaymentAccount(k[1], k[2], k[3], k[4])
      PROVE  UNCHANGED <<ticket, misstated>>
  BY <1>9 DEF EmptyPaymentAccount, historyVars
<1>10. (\/ HandOverVault \/ InitAuctionManagerV2
        \/ \E x \in Boxes : \E n \in 1 .. tokens[x] : SellerWithdraws(x, n)
        \/ \E x \in Boxes : \/ UpdatePrimarySaleHappened(x) \/ WithdrawMasterEdition(x)
                            \/ ValidateSafetyDepositBoxV2(x)
        \/ \E c \in Bidders, x \in Boxes, i \in Places : RedeemUnused(c, x, i))
         => UNCHANGED <<ticket, misstated>>
  BY DEF HandOverVault, SellerWithdraws, InitAuctionManagerV2, UpdatePrimarySaleHappened,
     WithdrawMasterEdition, ValidateSafetyDepositBoxV2, RedeemUnused, historyVars
<1>11. UNCHANGED allVars => UNCHANGED <<ticket, misstated>>  BY DEF allVars, historyVars
<1> HIDE DEF Goal
<1>12. MoneyMoves => Goal  BY <1>1, <1>4, <1>9 DEF MoneyMoves
<1>13. OwnStep => Goal  BY <1>1, <1>5, <1>6, <1>10 DEF OwnStep
<1> QED BY <1>1, <1>7, <1>8, <1>11, <1>12, <1>13, StepKinds

(* The plan is for good, and after the end the list of bids is too.         *)
LEMMA PlanStays ==
  ASSUME [ManagerNext]_allVars, ManagerTypes
  PROVE  /\ args' = args /\ plan' = plan
         /\ state = "Ended" => state' = "Ended" /\ bids' = bids
<1> DEFINE Kept == args' = args /\ (state = "Ended" => state' = "Ended" /\ bids' = bids)
<1>1. ASSUME Next PROVE Kept
  <2>1. args' = args  BY <1>1, ArgsStay
  <2>2. state = "Ended" => state' = "Ended" /\ bids' = bids
    BY <1>1 DEF Next, CreateAuction, StartAuction, EndAuction, SetAuthority, PlaceBidTooLate,
       PlaceBid, CancelBid, ClaimBid, Tick, auctionVars
  <2> QED BY <2>1, <2>2
<1>2. UNCHANGED auctionState => Kept  BY DEF auctionState
<1> HIDE DEF Kept
<1>3. CASE CallOfOthers
  <2>1. Next /\ plan' = plan  BY <1>3, OthersCall DEF managerVars
  <2> QED BY <1>1, <2>1 DEF Kept
<1>4. CASE CallOfManager
  <2>1. Next /\ plan' = plan  BY <1>4, ManagerCall
  <2> QED BY <1>1, <2>1 DEF Kept
<1>5. CASE MoneyMoves  BY <1>2, <1>5, MoneyMovesKeep DEF Kept
<1>6. CASE OwnStep  BY <1>2, <1>6, OwnStepKeeps DEF Kept
<1>7. CASE UNCHANGED allVars  BY <1>2, <1>7 DEF allVars, Kept
<1> QED BY <1>3, <1>4, <1>5, <1>6, <1>7, StepKinds

LEMMA NobodyWins ==
  ASSUME ManagerTypes, ~IsEnglish, NEW b \in Bidders
  PROVE  WinIndex(b) = None
<1>1. bids = << >>  BY NotMissing DEF ManagerTypes, AuctionInv, Phases
<1>2. NumWinners = 0
  <2>1. Len(bids) = 0  BY <1>1
  <2> QED BY <2>1, NumWinnersType
<1>3. IndexesOf(b) = {}  BY <1>2 DEF IndexesOf
<1> QED BY <1>3 DEF WinIndex
----------------------------------------------------------------------------
(* Who is noted as served stays so.                                         *)
LEMMA DoneStays ==
  ASSUME StandingInv, StandingInv', [ManagerNext]_allVars,
         NEW x \in Boxes, NEW b \in Bidders \ misstated', Done(b, x)
  PROVE  Done(b, x)'
<1>0. ManagerTypes /\ ManagerTypes' /\ ticket \in [Bidders -> BidRedemptionTicket]
  BY DEF StandingInv, ManagerTypes, ManagerTypeOK
<1>4. \A i \in Places : i # None  BY PlacesFinite, AuctionAssumption
<1>1. \/ ticket'[b] = ticket[b]
      \/ \E y \in Boxes, i \in Places \cup {None} :
           ticket'[b] = Saved(b, y, i) /\ (i = None <=> WinIndex(b) = None)
  BY <1>0, TicketStep
<1>2. CASE ticket[b].won /\ Order[x] \in ticket[b].high /\ \E d \in Nat : FixedAt(b, d)
  <2>1. PICK d \in Nat : FixedAt(b, d)  BY <1>2
  <2>2. FixedAt(b, d)'  BY <1>0, <2>1, StepKeepsFixed
  <2>3. WinIndex(b) # None  BY <1>0, <2>1, FixedWins
  <2>4. ticket'[b].won /\ Order[x] \in ticket'[b].high
    <3>1. CASE ticket'[b] = ticket[b]  BY <1>2, <3>1
    <3>2. ASSUME NEW y \in Boxes, NEW i \in Places, ticket'[b] = Saved(b, y, i)
          PROVE  ticket'[b].won /\ Order[x] \in ticket'[b].high
      BY <1>2, <1>4, <3>2 DEF Saved
    <3> QED BY <1>1, <2>3, <3>1, <3>2
  <2> QED BY <2>2, <2>4 DEF Done
<1>3. CASE /\ ~ticket[b].won /\ Order[x] \in ticket[b].low
           /\ ~IsEnglish \/ (state = "Ended" /\ WinIndex(b) = None)
  <2>1. WinIndex(b) = None  BY <1>0, <1>3, NobodyWins
  <2>2. ~ticket'[b].won /\ Order[x] \in ticket'[b].low
    <3>1. CASE ticket'[b] = ticket[b]  BY <1>3, <3>1
    <3>2. ASSUME NEW y \in Boxes, ticket'[b] = Saved(b, y, None)
          PROVE  ~ticket'[b].won /\ Order[x] \in ticket'[b].low
      BY <1>3, <3>2 DEF Saved
    <3> QED BY <1>1, <2>1, <3>1, <3>2
  <2>3. (~IsEnglish \/ (state = "Ended" /\ WinIndex(b) = None))'
    <3>1. /\ args' = args
          /\ state = "Ended" => state' = "Ended" /\ bids' = bids
      BY <1>0, PlanStays
    <3>2. ~IsEnglish => ~IsEnglish'  BY <3>1 DEF IsEnglish
    <3>3. state = "Ended" => WinIndex(b)' = WinIndex(b)
      BY <3>1 DEF WinIndex, IndexesOf, WinnerAt, NumWinners
    <3> QED BY <1>3, <3>1, <3>2, <3>3
  <2> QED BY <2>2, <2>3 DEF Done
<1> QED BY <1>2, <1>3 DEF Done

(* Who redeems a participation prize is noted as served, where the program   *)
(* looks before it serves anybody.                                          *)
LEMMA ParticipantIsDone ==
  ASSUME StandingInv, StandingInv', [ManagerNext]_allVars,
         NEW x \in Boxes, NEW b \in Bidders \ misstated', NEW i, RedeemParticipationBid(b, x, i)
  PROVE  ~Done(b, x) /\ Done(b, x)'
<1>0. ManagerTypes /\ ManagerTypes' /\ ticket \in [Bidders -> BidRedemptionTicket]
  BY DEF StandingInv, ManagerTypes, ManagerTypeOK
<1>1. /\ i \in IndexesOf(b) \cup {None} /\ ~Redeemed(b, x) /\ EndedOrInstantSale(b, i)
      /\ meta[b] # None /\ ticket' = [ticket EXCEPT ![b] = Saved(b, x, i)]
      /\ UNCHANGED auctionState
      /\ misstated' = IF i = None /\ WinIndex(b) # None THEN misstated \cup {b} ELSE misstated
  BY DEF RedeemParticipationBid, CommonRedeemChecks
<1>2. ~Done(b, x)  BY <1>1 DEF Done, Redeemed
<1>3. ticket'[b] = Saved(b, x, i)  BY <1>0, <1>1
<1>4. CASE i # None
  <2>1. i \in 0 .. NumWinners - 1 /\ WinnerAt(i) = b /\ i \in Nat
    BY <1>0, <1>1, <1>4, WinIndexType, NumWinnersType DEF IndexesOf
  <2>2. FixedAt(b, i)  BY <1>1, <2>1, EntitledIsFixed
  <2>3. FixedAt(b, i)'  BY <1>0, <2>2, StepKeepsFixed
  <2>4. ticket'[b].won /\ Order[x] \in ticket'[b].high  BY <1>3, <1>4 DEF Saved
  <2> QED BY <1>2, <2>1, <2>3, <2>4 DEF Done
<1>5. CASE i = None
  <2>1. WinIndex(b) = None  BY <1>1, <1>5
  <2>2. ~IsEnglish \/ state = "Ended"
    <3> SUFFICES ASSUME IsEnglish, state # "Ended" PROVE FALSE  OBVIOUS
    <3>1. args.instant_sale_price # None /\ args.instant_sale_price <= meta[b].last_bid
      BY <1>1, <1>5 DEF EndedOrInstantSale
    <3>2. args.instant_sale_price \in Nat /\ meta[b].last_bid \in Nat
      <4>1. args.instant_sale_price \in Nat
        BY <1>0, <3>1, ArgsTypes, NotMissing DEF ManagerTypes, AuctionInv
      <4>2. meta[b] \in BidderMetadata
        BY <1>1 DEF StandingInv, ManagerTypes, AuctionInv, TypeOK
      <4> QED BY <4>1, <4>2 DEF BidderMetadata
    <3>3. meta[b].last_bid >= args.instant_sale_price  BY <3>1, <3>2
    <3>4. PICK d \in Nat : FixedAt(b, d)
      BY <1>1, <3>1, <3>3 DEF StandingInv, InstantStands
    <3> QED BY <1>0, <2>1, <3>4, FixedWins
  <2>3. (~IsEnglish \/ (state = "Ended" /\ WinIndex(b) = None))'
    BY <1>1, <2>1, <2>2 DEF auctionState, IsEnglish, WinIndex, IndexesOf, WinnerAt, NumWinners
  <2>4. ~ticket'[b].won /\ Order[x] \in ticket'[b].low  BY <1>3, <1>5 DEF Saved
  <2> QED BY <1>2, <2>3, <2>4 DEF Done
<1> QED BY <1>4, <1>5

LEMMA ParticipationStep ==
  ASSUME StandingInv, StandingInv', [ManagerNext]_allVars, OneParticipation
  PROVE  OneParticipation'
<1>0. ManagerTypes /\ ManagerTypes'  BY DEF StandingInv
<1>1. plan' = plan /\ Prizes' = Prizes  BY <1>0, PlanStays DEF Prizes
<1> SUFFICES ASSUME NEW x \in Boxes, NEW b \in Bidders \ misstated',
                    Prizes[x].type = "Participation",
                    NEW e \in printed', e.box = x, e.bidder = b
             PROVE  /\ Done(b, x)'
                    /\ \A f \in printed' : (f.box = x /\ f.bidder = b) => f = e
  BY <1>1 DEF OneParticipation
<1>2. b \in Bidders \ misstated  BY <1>0, TicketStep
<1>3. ASSUME \A f \in printed' : (f.box = x /\ f.bidder = b) => f \in printed
      PROVE  /\ Done(b, x)'
             /\ \A f \in printed' : (f.box = x /\ f.bidder = b) => f = e
  <2>1. e \in printed  BY <1>3
  <2>2. Done(b, x) /\ \A f \in printed : (f.box = x /\ f.bidder = b) => f = e
    BY <1>2, <2>1 DEF OneParticipation
  <2>3. Done(b, x)'  BY <2>2, DoneStays
  <2> QED BY <1>3, <2>2, <2>3
<1>4. CASE UNCHANGED <<plan, printed, prize, supply, configured>>  BY <1>3, <1>4
<1>5. ASSUME NEW y \in Boxes, ValidateSafetyDepositBoxV2(y) PROVE printed' = printed
  BY <1>5 DEF ValidateSafetyDepositBoxV2, historyVars
<1>6. ASSUME NEW c \in Bidders, NEW y \in Boxes, NEW n \in Places, RedeemPrintingV2Bid(c, y, n)
      PROVE  \A f \in printed' : f.box = x => f \in printed
  BY <1>6 DEF RedeemPrintingV2Bid, MintEdition
<1>7. ASSUME NEW c \in Bidders, NEW y \in Boxes, NEW n \in Places \cup {None},
             RedeemParticipationBid(c, y, n)
      PROVE  /\ Done(b, x)'
             /\ \A f \in printed' : (f.box = x /\ f.bidder = b) => f = e
  <2>1. printed' = printed \cup {[box |-> y, edition |-> supply[y] + 1, bidder |-> c]}
    BY <1>7 DEF RedeemParticipationBid, MintEdition
  <2>2. CASE y = x /\ c = b
    <3>1. ~Done(b, x) /\ Done(b, x)'  BY <1>7, <2>2, ParticipantIsDone
    <3>2. \A f \in printed : ~(f.box = x /\ f.bidder = b)
      BY <1>2, <3>1 DEF OneParticipation
    <3> QED BY <2>1, <3>1, <3>2
  <2>3. CASE ~(y = x /\ c = b)  BY <1>3, <2>1, <2>3
  <2> QED BY <2>2, <2>3
<1> QED BY <1>3, <1>4, <1>5, <1>6, <1>7, PrintingSteps
----------------------------------------------------------------------------
LEMMA EditionInit == ManagerInit => EditionInv
<1> SUFFICES ASSUME ManagerInit PROVE EditionInv  OBVIOUS
<1>1. StandingInv  BY StandingInit
<1>2. /\ printed = {} /\ configured = {} /\ prize = [x \in Boxes |-> None]
      /\ supply = [x \in Boxes |-> Prizes[x].supply]
  BY DEF ManagerInit
<1> QED BY <1>1, <1>2 DEF EditionInv, PrintsReserved, OneParticipation

LEMMA EditionInvHolds == ManagerSpec => []EditionInv
<1>1. EditionInv /\ [ManagerNext]_allVars => EditionInv'
  BY StandingStep, PrintsStep, ParticipationStep DEF EditionInv
<1> QED BY <1>1, EditionInit, PTL DEF ManagerSpec

(* Each winner prints the editions that the places before its own leave to   *)
(* it, all of them fit in the supply of the master edition whoever prints    *)
(* first, and nobody who told the truth about its place prints the           *)
(* participation edition twice (validate_safety_deposit_box_v2,              *)
(* redeem_printing_v2_bid, redeem_participation_bid).                        *)
THEOREM EditionsAreReserved == ManagerSpec => []EditionsReserved
<1>1. ASSUME EditionInv, NEW x \in configured, Prizes[x].type = "PrintingV2", prize[x] # None,
             NEW i \in 0 .. NumWinners - 1
      PROVE  LET before == SumFunction([n \in 0 .. i - 1 |-> DueAt(x, n)])
                 first == prize[x].snapshot + before + 1
                 reserved == first .. first + DueAt(x, i) - 1
             IN /\ {e.edition : e \in {f \in printed : f.box = x /\ f.bidder = WinnerAt(i)}}
                      \subseteq reserved
                /\ Prizes[x].max_supply # None => \A n \in reserved : n <= Prizes[x].max_supply
  <2> DEFINE r == Prizes[x].ranges
             before == SumFunction([n \in 0 .. i - 1 |-> DueAt(x, n)])
             first == prize[x].snapshot + before + 1
             reserved == first .. first + DueAt(x, i) - 1
  <2>1. ManagerTypes /\ ManagerTypeOK /\ x \in Boxes /\ PrintsReserved
    BY <1>1 DEF EditionInv, StandingInv, ManagerTypes, ManagerTypeOK
  <2>2. /\ r \in Ranges /\ Prizes[x].supply \in Nat /\ Prizes[x].max_supply \in Nat \cup {None}
        /\ i \in Nat
    BY <2>1, PrizeFacts, NumWinnersType DEF ManagerTypeOK
  <2>3. prize[x].snapshot = Prizes[x].supply  BY <1>1, <2>1 DEF PrintsReserved
  <2>4. before = Cumulative(r, i)
    <3>1. [n \in 0 .. i - 1 |-> DueAt(x, n)] = [m \in 0 .. i - 1 |-> Due(r, m)]  BY DEF DueAt
    <3>2. before = SumFunctionOnSet([m \in 0 .. i - 1 |-> Due(r, m)], 0 .. i - 1)
      BY <3>1 DEF SumFunction
    <3> QED BY <2>2, <3>2, DueBefore
  <2>5. /\ Cumulative(r, i) \in Nat /\ DueAt(x, i) \in Nat
        /\ Cumulative(r, i + 1) = Cumulative(r, i) + DueAt(x, i)
    BY <2>2, CumulativeNext DEF DueAt
  <2>6. Cumulative(r, i + 1) <= TotalRequested(r) /\ TotalRequested(r) \in Nat
    <3>1. i + 1 \in Nat  BY <2>2
    <3> QED BY <2>2, <3>1, CumulativeNext, TotalType
  <2>7. ReservedTo(x, i) = Prizes[x].supply + Cumulative(r, i) + 1
                             .. Prizes[x].supply + Cumulative(r, i) + DueAt(x, i)
    BY DEF ReservedTo
  <2> HIDE DEF r, before
  <2>8. ReservedTo(x, i) = reserved  BY <2>2, <2>3, <2>4, <2>5, <2>7
  <2>9. ASSUME NEW f \in printed, f.box = x, f.bidder = WinnerAt(i) PROVE f.edition \in reserved
    <3>1. PICK d \in Nat : FixedAt(f.bidder, d) /\ f.edition \in ReservedTo(x, d)
      BY <1>1, <2>1, <2>9 DEF PrintsReserved
    <3>2. PICK b \in Bidders : b = WinnerAt(i)  BY <2>1, NumWinnersType
    <3>3. FixedAt(b, d)  BY <2>9, <3>1, <3>2
    <3>4. i = d  BY <2>1, <3>2, <3>3, FixedWins
    <3> QED BY <2>8, <3>1, <3>4
  <2>10. ASSUME Prizes[x].max_supply # None, NEW n \in reserved PROVE n <= Prizes[x].max_supply
    <3>1. TotalRequested(r) <= Prizes[x].max_supply - Prizes[x].supply
      BY <1>1, <2>1, <2>10 DEF PrintsReserved, r
    <3>2. n \in Int /\ n <= Prizes[x].supply + Cumulative(r, i) + DueAt(x, i)
      BY <2>2, <2>3, <2>4, <2>5
    <3> QED BY <2>2, <2>5, <2>6, <2>10, <3>1, <3>2
  <2> QED BY <2>9, <2>10 DEF before
<1>2. ASSUME EditionInv, NEW x \in configured, Prizes[x].type = "Participation",
             NEW b \in Bidders \ misstated
      PROVE  Cardinality({e.edition : e \in {f \in printed : f.box = x /\ f.bidder = b}}) <= 1
  <2> DEFINE S == {e.edition : e \in {f \in printed : f.box = x /\ f.bidder = b}}
  <2>1. x \in Boxes /\ OneParticipation
    BY <1>2 DEF EditionInv, StandingInv, ManagerTypes, ManagerTypeOK
  <2>2. \A m, n \in S : m = n  BY <1>2, <2>1 DEF OneParticipation
  <2> HIDE DEF S
  <2>3. CASE S = {}
    <3>1. Cardinality(S) = 0  BY <2>3, FS_EmptySet
    <3> QED BY <3>1 DEF S
  <2>4. CASE S # {}
    <3>1. PICK n : n \in S  BY <2>4
    <3>2. S = {n}  BY <2>2, <3>1
    <3>3. Cardinality(S) = 1  BY <3>2, FS_Singleton
    <3> QED BY <3>3 DEF S
  <2> QED BY <2>3, <2>4
<1>3. EditionInv => EditionsReserved  BY <1>1, <1>2 DEF EditionsReserved
<1> QED BY <1>3, EditionInvHolds, PTL
----------------------------------------------------------------------------
(***************************************************************************)
(* Lists of ranges one after the other, and what a merged list counts.     *)
(***************************************************************************)
Span(r) == Start(r, Len(r) + 1)

LEMMA StartFirst == ASSUME NEW r PROVE Start(r, 1) = 0
<1> DEFINE f == [j \in 1 .. 1 - 1 |-> r[j].length]
<1>1. 1 .. 1 - 1 = {}  OBVIOUS
<1>2. Start(r, 1) = SumFunctionOnSet(f, 1 .. 1 - 1)  BY DEF Start, SumFunction
<1> HIDE DEF f
<1> QED BY <1>1, <1>2, SumEmpty

LEMMA ConcatFacts ==
  ASSUME NEW a \in Ranges, NEW b \in Ranges
  PROVE  /\ a \o b \in Ranges /\ Len(a \o b) = Len(a) + Len(b)
         /\ \A k \in 1 .. Len(a) : (a \o b)[k] = a[k]
         /\ \A m \in 1 .. Len(b) : (a \o b)[Len(a) + m] = b[m]
<1>1. a \o b \in Ranges /\ Len(a \o b) = Len(a) + Len(b)  BY ConcatProperties DEF Ranges
<1>2. Len(a) \in Nat /\ Len(b) \in Nat  BY RangeTypes
<1>3. \A k \in 1 .. Len(a) + Len(b) : (a \o b)[k] = IF k <= Len(a) THEN a[k] ELSE b[k - Len(a)]
  BY ConcatProperties DEF Ranges
<1>4. ASSUME NEW k \in 1 .. Len(a) PROVE (a \o b)[k] = a[k]
  <2>1. k \in 1 .. Len(a) + Len(b) /\ k <= Len(a)  BY <1>2
  <2> QED BY <1>3, <2>1
<1>5. ASSUME NEW m \in 1 .. Len(b) PROVE (a \o b)[Len(a) + m] = b[m]
  <2> DEFINE k == Len(a) + m
  <2>1. k \in 1 .. Len(a) + Len(b) /\ ~(k <= Len(a)) /\ k - Len(a) = m  BY <1>2
  <2> HIDE DEF k
  <2>2. (a \o b)[k] = b[m]  BY <1>3, <2>1
  <2> QED BY <2>2 DEF k
<1> QED BY <1>1, <1>4, <1>5

LEMMA StartBefore ==
  ASSUME NEW a \in Ranges, NEW b \in Ranges, NEW k \in 1 .. Len(a) + 1
  PROVE  Start(a \o b, k) = Start(a, k)
<1> DEFINE f == [j \in 1 .. k - 1 |-> a[j].length]
           g == [j \in 1 .. k - 1 |-> (a \o b)[j].length]
<1>1. Len(a) \in Nat  BY RangeTypes
<1>2. \A j \in 1 .. k - 1 : j \in 1 .. Len(a)  BY <1>1
<1>3. \A j \in 1 .. k - 1 : f[j] = g[j]  BY <1>2, ConcatFacts
<1>4. IsFiniteSet(1 .. k - 1)  BY <1>1, Interval
<1>5. Start(a, k) = SumFunctionOnSet(f, 1 .. k - 1) /\ Start(a \o b, k) = SumFunctionOnSet(g, 1 .. k - 1)
  BY DEF Start, SumFunction
<1> HIDE DEF f, g
<1> QED BY <1>3, <1>4, <1>5, SumSame

LEMMA StartBehind ==
  ASSUME NEW a \in Ranges, NEW b \in Ranges, NEW m \in 1 .. Len(b) + 1
  PROVE  Start(a \o b, Len(a) + m) = Span(a) + Start(b, m) /\ Start(b, m) \in Nat /\ Span(a) \in Nat
<1> DEFINE c == a \o b
           Bad == {n \in 1 .. Len(b) + 1 :
                     ~(/\ Start(c, Len(a) + n) = Span(a) + Start(b, n)
                       /\ Start(b, n) \in Nat /\ Span(a) \in Nat)}
<1>1. Len(a) \in Nat /\ Len(b) \in Nat  BY RangeTypes
<1>2. c \in Ranges /\ DOMAIN c = 1 .. Len(a) + Len(b)  BY ConcatFacts, RangeTypes
<1>3. ASSUME Bad # {} PROVE FALSE
  <2>0. Bad \in SUBSET Nat  BY <1>1
  <2>1. PICK n \in Bad : \A j \in Bad : n <= j  BY <1>3, <2>0, SmallestNat
  <2>2. n \in 1 .. Len(b) + 1 /\ n \in Nat  BY <1>1
  <2>3. CASE n = 1
    <3>1. Len(a) + 1 \in 1 .. Len(a) + 1  BY <1>1
    <3>2. Start(c, Len(a) + 1) = Start(a, Len(a) + 1)  BY <3>1, StartBefore
    <3>3. Start(b, 1) = 0  BY StartFirst
    <3>4. Span(a) \in Nat
      <4>1. CASE Len(a) = 0  BY <4>1, StartFirst DEF Span
      <4>2. CASE Len(a) # 0
        <5>1. Len(a) \in DOMAIN a  BY <1>1, <4>2, RangeTypes
        <5>2. /\ Start(a, Len(a)) \in Nat /\ a[Len(a)].length \in Nat
              /\ Start(a, Len(a) + 1) = Start(a, Len(a)) + a[Len(a)].length
          BY <5>1, StartNext, RangeTypes
        <5> QED BY <5>2 DEF Span
      <4> QED BY <4>1, <4>2
    <3> QED BY <2>1, <2>3, <3>2, <3>3, <3>4 DEF Span
  <2>4. CASE n # 1
    <3> DEFINE j == n - 1
    <3>1. j \in 1 .. Len(b) /\ j \in 1 .. Len(b) + 1 /\ j < n /\ n = j + 1 /\ j \in Nat
      BY <1>1, <2>2, <2>4
    <3>2. j \notin Bad  BY <2>1, <2>2, <3>1
    <3> HIDE DEF j
    <3>3. Start(c, Len(a) + j) = Span(a) + Start(b, j) /\ Start(b, j) \in Nat /\ Span(a) \in Nat
      BY <3>1, <3>2
    <3>4. j \in DOMAIN b /\ Len(a) + j \in DOMAIN c /\ c[Len(a) + j] = b[j]
      <4>1. j \in DOMAIN b  BY <3>1, RangeTypes
      <4>2. c[Len(a) + j] = b[j]  BY <3>1, ConcatFacts
      <4>3. Len(a) + j \in 1 .. Len(a) + Len(b)  BY <1>1, <3>1
      <4> QED BY <1>2, <4>1, <4>2, <4>3
    <3>5. Start(b, j + 1) = Start(b, j) + b[j].length /\ b[j].length \in Nat
      BY <3>4, StartNext, RangeTypes
    <3>6. PICK at \in Nat : at = Len(a) + j  BY <1>1, <3>1
    <3>7. Start(c, at + 1) = Start(c, at) + c[at].length
      BY <1>2, <3>4, <3>6, StartNext
    <3>8. at + 1 = Len(a) + n  BY <1>1, <3>1, <3>6
    <3>9. Start(c, Len(a) + n) = (Span(a) + Start(b, j)) + b[j].length
      BY <3>3, <3>4, <3>6, <3>7, <3>8
    <3>10. Start(b, n) = Start(b, j) + b[j].length  BY <3>1, <3>5
    <3>11. Start(c, Len(a) + n) = Span(a) + Start(b, n) /\ Start(b, n) \in Nat
      BY <3>3, <3>5, <3>9, <3>10
    <3> QED BY <2>1, <3>3, <3>11
  <2> QED BY <2>3, <2>4
<1> QED BY <1>3

LEMMA SpanOfConcat ==
  ASSUME NEW a \in Ranges, NEW b \in Ranges
  PROVE  Span(a \o b) = Span(a) + Span(b) /\ Span(a) \in Nat /\ Span(b) \in Nat
<1>1. Len(a) \in Nat /\ Len(b) \in Nat  BY RangeTypes
<1>2. Len(b) + 1 \in 1 .. Len(b) + 1  BY <1>1
<1>3. /\ Start(a \o b, Len(a) + (Len(b) + 1)) = Span(a) + Start(b, Len(b) + 1)
      /\ Start(b, Len(b) + 1) \in Nat /\ Span(a) \in Nat
  BY <1>2, StartBehind
<1>4. Len(a \o b) + 1 = Len(a) + (Len(b) + 1)  BY <1>1, ConcatFacts
<1> QED BY <1>3, <1>4 DEF Span

(* Every range lies before the end of the list.                             *)
LEMMA RangeWithin ==
  ASSUME NEW r \in Ranges, NEW i \in Int, NEW k \in RangesAt(r, i)
  PROVE  0 <= i /\ i < Span(r)
<1>1. Len(r) \in Nat /\ DOMAIN r = 1 .. Len(r)  BY RangeTypes
<1>2. k \in DOMAIN r  BY DEF RangesAt
<1>3. Start(r, k) \in Nat /\ r[k].length \in Nat /\ Start(r, k + 1) = Start(r, k) + r[k].length
  BY <1>2, StartNext, RangeTypes
<1>4. 0 <= i /\ i < Start(r, k) + r[k].length  BY <1>3 DEF RangesAt
<1>5. CASE k = Len(r)  BY <1>3, <1>4, <1>5 DEF Span
<1>6. CASE k # Len(r)
  <2>1. Len(r) \in DOMAIN r /\ k < Len(r)  BY <1>1, <1>2, <1>6
  <2>2. Start(r, k) + r[k].length <= Start(r, Len(r))  BY <1>2, <2>1, StartsApart
  <2>3. /\ Start(r, Len(r)) \in Nat /\ r[Len(r)].length \in Nat
        /\ Start(r, Len(r) + 1) = Start(r, Len(r)) + r[Len(r)].length
    BY <2>1, StartNext, RangeTypes
  <2> QED BY <1>3, <1>4, <2>2, <2>3 DEF Span
<1> QED BY <1>5, <1>6

LEMMA DueOutside ==
  ASSUME NEW r \in Ranges, NEW i \in Int, i < 0 \/ i >= Span(r)
  PROVE  Due(r, i) = 0 /\ RangesAt(r, i) = {}
<1>1. Span(r) \in Nat  BY SpanOfConcat
<1>2. RangesAt(r, i) = {}  BY <1>1, RangeWithin
<1> QED BY <1>2 DEF Due

LEMMA DueNat ==
  ASSUME NEW r \in Ranges, NEW i \in Int
  PROVE  Due(r, i) \in Nat
<1>1. CASE RangesAt(r, i) = {}  BY <1>1 DEF Due
<1>2. CASE RangesAt(r, i) # {}
  <2>1. PICK k : k \in RangesAt(r, i)  BY <1>2
  <2>2. k \in DOMAIN r /\ Due(r, i) = r[k].amount  BY <2>1, OneRange
  <2> QED BY <2>2, RangeTypes
<1> QED BY <1>1, <1>2

LEMMA DueOfConcat ==
  ASSUME NEW a \in Ranges, NEW b \in Ranges, NEW i \in Int
  PROVE  Due(a \o b, i) = Due(a, i) + Due(b, i - Span(a))
<1> DEFINE c == a \o b
           l == i - Span(a)
<1>1. /\ Len(a) \in Nat /\ DOMAIN a = 1 .. Len(a) /\ Len(b) \in Nat /\ DOMAIN b = 1 .. Len(b)
  BY RangeTypes
<1>2. c \in Ranges /\ DOMAIN c = 1 .. Len(a) + Len(b)  BY ConcatFacts, RangeTypes
<1>3. Span(a) \in Nat /\ l \in Int /\ l + Span(a) = i  BY SpanOfConcat
<1> HIDE DEF l
<1>4. Due(a, i) \in Nat /\ Due(b, l) \in Nat  BY <1>3, DueNat
<1>5. ASSUME NEW k \in DOMAIN a
      PROVE  k \in RangesAt(c, i) <=> k \in RangesAt(a, i)
  <2>1. k \in 1 .. Len(a) + 1 /\ k \in DOMAIN c  BY <1>1, <1>2
  <2>2. Start(c, k) = Start(a, k) /\ c[k] = a[k]  BY <1>1, <2>1, StartBefore, ConcatFacts
  <2> QED BY <2>1, <2>2 DEF RangesAt
<1>6. ASSUME NEW m \in DOMAIN b
      PROVE  /\ Len(a) + m \in DOMAIN c /\ c[Len(a) + m] = b[m]
             /\ Len(a) + m \in RangesAt(c, i) <=> m \in RangesAt(b, l)
  <2>1. m \in 1 .. Len(b) + 1  BY <1>1
  <2>2. PICK at \in DOMAIN c : at = Len(a) + m  BY <1>1, <1>2
  <2>3. Start(c, at) = Span(a) + Start(b, m) /\ c[at] = b[m] /\ Start(b, m) \in Nat
    <3>1. Start(c, at) = Span(a) + Start(b, m) /\ Start(b, m) \in Nat
      BY <2>1, <2>2, StartBehind
    <3>2. c[Len(a) + m] = b[m]  BY <1>1, ConcatFacts
    <3> QED BY <2>2, <3>1, <3>2
  <2>4. b[m].length \in Nat  BY RangeTypes
  <2>5. i \in Start(c, at) .. Start(c, at) + c[at].length - 1
          <=> l \in Start(b, m) .. Start(b, m) + b[m].length - 1
    BY <1>3, <2>3, <2>4
  <2>6. at \in RangesAt(c, i) <=> m \in RangesAt(b, l)  BY <2>5 DEF RangesAt
  <2> QED BY <2>2, <2>3, <2>6
<1>7. ASSUME NEW k \in RangesAt(a, i) PROVE Due(c, i) = Due(a, i) + Due(b, l)
  <2>1. k \in DOMAIN a /\ Due(a, i) = a[k].amount  BY <1>7, OneRange
  <2>2. k \in RangesAt(c, i)  BY <1>5, <1>7, <2>1
  <2>3. Due(c, i) = c[k].amount  BY <1>2, <2>2, OneRange
  <2>4. c[k] = a[k]  BY <1>1, <2>1, ConcatFacts
  <2>5. l < 0  BY <1>3, RangeWithin
  <2>6. Due(b, l) = 0  BY <1>3, <2>5, DueOutside
  <2> QED BY <1>4, <2>1, <2>3, <2>4, <2>6
<1>8. ASSUME NEW m \in RangesAt(b, l), RangesAt(a, i) = {} PROVE Due(c, i) = Due(a, i) + Due(b, l)
  <2>1. m \in DOMAIN b /\ Due(b, l) = b[m].amount  BY <1>3, <1>8, OneRange
  <2>2. Len(a) + m \in RangesAt(c, i) /\ c[Len(a) + m] = b[m]  BY <1>6, <1>8, <2>1
  <2>3. Due(c, i) = c[Len(a) + m].amount  BY <1>2, <2>2, OneRange
  <2>4. Due(a, i) = 0  BY <1>8 DEF Due
  <2> QED BY <1>4, <2>1, <2>2, <2>3, <2>4
<1>9. ASSUME RangesAt(a, i) = {}, RangesAt(b, l) = {} PROVE Due(c, i) = Due(a, i) + Due(b, l)
  <2>1. ASSUME NEW k \in RangesAt(c, i) PROVE FALSE
    <3>1. k \in 1 .. Len(a) + Len(b)  BY <1>2 DEF RangesAt
    <3>2. CASE k <= Len(a)  BY <1>1, <1>5, <1>9, <2>1, <3>1, <3>2
    <3>3. CASE ~(k <= Len(a))
      <4>1. PICK m \in DOMAIN b : Len(a) + m = k
        <5>1. k - Len(a) \in 1 .. Len(b) /\ Len(a) + (k - Len(a)) = k  BY <1>1, <3>1, <3>3
        <5> QED BY <1>1, <5>1
      <4> QED BY <1>6, <1>9, <2>1, <4>1
    <3> QED BY <3>2, <3>3
  <2>2. RangesAt(c, i) = {}  BY <2>1
  <2> QED BY <1>9, <2>2 DEF Due
<1>10. Due(c, i) = Due(a, i) + Due(b, l)
  <2>1. CASE RangesAt(a, i) # {}
    <3>1. PICK k : k \in RangesAt(a, i)  BY <2>1
    <3> QED BY <3>1, <1>7
  <2>2. CASE RangesAt(a, i) = {} /\ RangesAt(b, l) # {}
    <3>1. PICK m : m \in RangesAt(b, l)  BY <2>2
    <3> QED BY <3>1, <2>2, <1>8
  <2> QED BY <2>1, <2>2, <1>9
<1> QED BY <1>10 DEF l

LEMMA DueOfOne ==
  ASSUME NEW e \in AmountRange, NEW i \in Int
  PROVE  /\ <<e>> \in Ranges /\ Span(<<e>>) = e.length
         /\ Due(<<e>>, i) = IF 0 <= i /\ i < e.length THEN e.amount ELSE 0
<1> DEFINE r == <<e>>
<1>1. r \in Ranges /\ Len(r) = 1 /\ r[1] = e  BY DEF Ranges
<1>2. DOMAIN r = 1 .. 1  BY <1>1, RangeTypes
<1>3. e.length \in Nat /\ e.amount \in Nat  BY DEF AmountRange
<1> HIDE DEF r
<1>4. 1 \in DOMAIN r /\ \A k \in DOMAIN r : k = 1  BY <1>2
<1>5. Start(r, 1) = 0 /\ Start(r, 1 + 1) = Start(r, 1) + r[1].length
  BY <1>1, <1>4, StartNext, StartFirst
<1>6. Span(r) = e.length  BY <1>1, <1>3, <1>5 DEF Span
<1>7. CASE 0 <= i /\ i < e.length
  <2>1. 1 \in RangesAt(r, i)  BY <1>1, <1>3, <1>4, <1>5, <1>7 DEF RangesAt
  <2>2. Due(r, i) = r[1].amount  BY <1>1, <2>1, OneRange
  <2> QED BY <1>1, <1>6, <1>7, <2>2 DEF r
<1>8. CASE ~(0 <= i /\ i < e.length)
  <2>1. i < 0 \/ i >= Span(r)  BY <1>3, <1>6, <1>8
  <2>2. Due(r, i) = 0  BY <1>1, <2>1, DueOutside
  <2> QED BY <1>1, <1>6, <1>8, <2>2 DEF r
<1> QED BY <1>7, <1>8

LEMMA HeadAndTail ==
  ASSUME NEW r \in Ranges, r # << >>
  PROVE  /\ Head(r) \in AmountRange /\ Tail(r) \in Ranges /\ r = <<Head(r)>> \o Tail(r)
         /\ Len(Tail(r)) = Len(r) - 1
<1>1. r \in Seq(AmountRange)  BY DEF Ranges
<1>2. Head(r) \in AmountRange /\ Tail(r) \in Seq(AmountRange) /\ Len(Tail(r)) = Len(r) - 1
  BY <1>1, HeadTailProperties
<1>3. r = <<Head(r)>> \o Tail(r)  BY <1>1, SMT
<1> QED BY <1>2, <1>3 DEF Ranges

(* Cutting n places off the front moves every later place up by n.          *)
LEMMA DueOfCutHead ==
  ASSUME NEW r \in Ranges, r # << >>, NEW n \in Nat, n <= Head(r).length, NEW i \in Int, i >= n
  PROVE  Due(CutHead(r, n), i - n) = Due(r, i)
<1> DEFINE h == Head(r)
           t == Tail(r)
<1>1. h \in AmountRange /\ t \in Ranges /\ r = <<h>> \o t  BY HeadAndTail
<1>2. h.length \in Nat /\ h.amount \in Nat /\ n <= h.length  BY <1>1 DEF AmountRange
<1> HIDE DEF h, t
<1>3. PICK j \in Int : j = i - n  OBVIOUS
<1>4. PICK rest \in Nat : rest = Due(t, i - h.length)
  <2>1. PICK at \in Int : at = i - h.length  BY <1>2
  <2>2. Due(t, at) \in Nat  BY <1>1, DueNat
  <2> QED BY <2>1, <2>2
<1>5. <<h>> \in Ranges /\ Span(<<h>>) = h.length  BY <1>1, DueOfOne
<1>6. Due(r, i) = Due(<<h>>, i) + rest  BY <1>1, <1>4, <1>5, DueOfConcat
<1>7. Due(<<h>>, i) = IF 0 <= i /\ i < h.length THEN h.amount ELSE 0  BY <1>1, DueOfOne
<1>8. CASE h.length = n
  <2>1. CutHead(r, n) = t  BY <1>8 DEF CutHead, h, t
  <2>2. Due(<<h>>, i) = 0  BY <1>2, <1>7, <1>8
  <2>3. Due(t, i - n) = rest  BY <1>4, <1>8
  <2> QED BY <1>6, <2>1, <2>2, <2>3
<1>9. CASE h.length # n
  <2> DEFINE e == [h EXCEPT !.length = @ - n]
  <2>1. CutHead(r, n) = <<e>> \o t  BY <1>9 DEF CutHead, h, t
  <2>2. e \in AmountRange /\ e.amount = h.amount /\ e.length = h.length - n
    <3> DEFINE left == h.length - n
    <3>1. left \in Nat  BY <1>2
    <3> HIDE DEF left
    <3>2. [h EXCEPT !.length = left] \in AmountRange
          /\ [h EXCEPT !.length = left].amount = h.amount
          /\ [h EXCEPT !.length = left].length = left
      BY <1>1, <3>1 DEF AmountRange
    <3> QED BY <3>2 DEF left
  <2> HIDE DEF e
  <2>3. /\ <<e>> \in Ranges /\ Span(<<e>>) = e.length
        /\ Due(<<e>>, j) = IF 0 <= j /\ j < e.length THEN e.amount ELSE 0
    BY <2>2, DueOfOne
  <2>4. Due(<<e>> \o t, j) = Due(<<e>>, j) + Due(t, j - e.length)
    BY <1>1, <2>3, DueOfConcat
  <2>5. j - e.length = i - h.length  BY <1>2, <1>3, <2>2
  <2>6. Due(<<e>>, j) = Due(<<h>>, i)  BY <1>2, <1>3, <1>7, <2>2, <2>3
  <2> QED BY <1>3, <1>4, <1>6, <2>1, <2>4, <2>5, <2>6
<1> QED BY <1>8, <1>9

LEMMA CutHeadLength ==
  ASSUME NEW r \in Ranges, r # << >>, NEW n \in Nat, n <= Head(r).length
  PROVE  /\ Len(CutHead(r, n)) <= Len(r)
         /\ Head(r).length = n => Len(CutHead(r, n)) = Len(r) - 1
<1>1. Head(r) \in AmountRange /\ Tail(r) \in Ranges /\ Len(Tail(r)) = Len(r) - 1  BY HeadAndTail
<1>2. Len(r) \in Nat  BY RangeTypes
<1>3. CASE Head(r).length = n  BY <1>1, <1>2, <1>3 DEF CutHead
<1>4. CASE Head(r).length # n
  <2> DEFINE e == [Head(r) EXCEPT !.length = @ - n]
  <2>1. CutHead(r, n) = <<e>> \o Tail(r)  BY <1>4 DEF CutHead
  <2> HIDE DEF e
  <2>2. Len(<<e>> \o Tail(r)) = 1 + Len(Tail(r))
    <3>1. <<e>> \in Seq({e}) /\ Tail(r) \in Seq(AmountRange) /\ Len(<<e>>) = 1
      BY <1>1 DEF Ranges
    <3>2. <<e>> \in Seq({e} \cup AmountRange) /\ Tail(r) \in Seq({e} \cup AmountRange)
      BY <3>1
    <3> QED BY <3>1, <3>2, ConcatProperties
  <2>3. Len(CutHead(r, n)) = Len(r)
    <3>1. Len(Tail(r)) = Len(r) - 1  BY <1>1
    <3> QED BY <1>2, <2>1, <2>2, <3>1
  <2> QED BY <1>2, <1>4, <2>3
<1> QED BY <1>3, <1>4
----------------------------------------------------------------------------
(* What two lists count at a place, those already cut included: it stays    *)
(* the same through every cut.                                              *)
One(n) == IF n > 0 THEN 1 ELSE 0
Counts(c, i) ==
  LET l == i - Span(c.cut) IN Due(c.cut, i) + Due(c.mine, l) + One(Due(c.theirs, l))

LEMMA OneNat == ASSUME NEW n PROVE One(n) \in Nat /\ One(0) = 0
BY DEF One

LEMMA CutCounts ==
  ASSUME NEW c \in CutState, NEW i \in Int
  PROVE  Counts(Cut(c), i) = Counts(c, i)
<1>1. c.mine \in Ranges /\ c.theirs \in Ranges /\ c.cut \in Ranges  BY DEF CutState
<1>2. CASE c.mine = << >> \/ c.theirs = << >>  BY <1>2 DEF Cut
<1>3. CASE c.mine # << >> /\ c.theirs # << >>
  <2> DEFINE m == Head(c.mine)
             t == Head(c.theirs)
             n == IF m.length < t.length THEN m.length ELSE t.length
             new == [amount |-> m.amount + OneIfAny(t), length |-> n]
             mine == CutHead(c.mine, n)
             theirs == CutHead(c.theirs, n)
             cut == c.cut \o <<new>>
  <2>1. m \in AmountRange /\ t \in AmountRange /\ Tail(c.mine) \in Ranges /\ Tail(c.theirs) \in Ranges
        /\ c.mine = <<m>> \o Tail(c.mine) /\ c.theirs = <<t>> \o Tail(c.theirs)
    BY <1>1, <1>3, HeadAndTail
  <2>2. m.length \in Nat /\ t.length \in Nat /\ m.amount \in Nat /\ t.amount \in Nat
    BY <2>1 DEF AmountRange
  <2>3. n \in Nat /\ n <= m.length /\ n <= t.length  BY <2>2
  <2>4. new \in AmountRange /\ new.length = n /\ new.amount = m.amount + One(t.amount)
    BY <2>2, <2>3, OneIfAnyType DEF AmountRange, OneIfAny, One
  <2>5. Cut(c).mine = mine /\ Cut(c).theirs = theirs /\ Cut(c).cut = cut
    <3>1. Cut(c).cut = Append(c.cut, new)  BY <1>3 DEF Cut
    <3>2. Append(c.cut, new) = c.cut \o <<new>>
      <4>1. c.cut \in Seq(AmountRange)  BY <1>1 DEF Ranges
      <4> HIDE DEF new
      <4> QED BY <2>4, <4>1, AppendIsConcat
    <3> QED BY <1>3, <3>1, <3>2 DEF Cut
  <2>6. mine \in Ranges /\ theirs \in Ranges  BY <1>1, <1>3, <2>3, CutHeadType
  <2> DEFINE l == i - Span(c.cut)
  <2>7. Span(c.cut) \in Nat /\ l \in Int  BY <1>1, SpanOfConcat
  <2>8. <<new>> \in Ranges /\ Span(<<new>>) = n
        /\ Due(<<new>>, l) = IF 0 <= l /\ l < n THEN m.amount + One(t.amount) ELSE 0
    BY <2>4, <2>7, DueOfOne
  <2>9. Due(cut, i) = Due(c.cut, i) + Due(<<new>>, l) /\ Span(cut) = Span(c.cut) + n
    BY <1>1, <2>8, DueOfConcat, SpanOfConcat
  <2>10. i - Span(cut) = l - n  BY <2>3, <2>7, <2>9
  <2> HIDE DEF new, cut, l, n
  <2> DEFINE dm == Due(c.mine, l)
             dt == Due(c.theirs, l)
             rm == Due(mine, l - n)
             rt == Due(theirs, l - n)
             dc == Due(c.cut, i)
  <2>11. Counts(Cut(c), i) = Due(cut, i) + rm + One(rt)  BY <2>5, <2>10 DEF Counts
  <2>12. Counts(c, i) = dc + dm + One(dt)  BY DEF Counts, l
  <2>13. dm \in Nat /\ dt \in Nat /\ rm \in Nat /\ rt \in Nat /\ dc \in Nat
    <3>1. l - n \in Int  BY <2>3, <2>7
    <3> QED BY <1>1, <2>6, <2>7, <3>1, DueNat
  <2>14. CASE l < 0
    <3>1. dm = 0 /\ dt = 0  BY <1>1, <2>7, <2>14, DueOutside
    <3>2. l - n < 0 /\ l - n \in Int  BY <2>3, <2>7, <2>14
    <3>3. rm = 0 /\ rt = 0  BY <2>6, <3>2, DueOutside
    <3>4. Due(cut, i) = dc  BY <2>7, <2>8, <2>9, <2>13, <2>14
    <3> QED BY <2>11, <2>12, <3>1, <3>3, <3>4
  <2>15. CASE 0 <= l /\ l < n
    <3>1. l - n < 0 /\ l - n \in Int  BY <2>3, <2>7, <2>15
    <3>2. rm = 0 /\ rt = 0  BY <2>6, <3>1, DueOutside
    <3>3. ASSUME NEW r \in Ranges, NEW h \in AmountRange, NEW rest \in Ranges, r = <<h>> \o rest,
                 n <= h.length
          PROVE  Due(r, l) = h.amount
      <4>1. h.length \in Nat /\ h.amount \in Nat  BY DEF AmountRange
      <4>2. /\ <<h>> \in Ranges /\ Span(<<h>>) = h.length
            /\ Due(<<h>>, l) = IF 0 <= l /\ l < h.length THEN h.amount ELSE 0
        BY <2>7, DueOfOne
      <4>3. Due(<<h>>, l) = h.amount  BY <2>3, <2>7, <2>15, <3>3, <4>1, <4>2
      <4>4. l - h.length < 0 /\ l - h.length \in Int  BY <2>3, <2>7, <2>15, <3>3, <4>1
      <4>5. Due(rest, l - h.length) = 0  BY <4>4, DueOutside
      <4>6. Due(r, l) = Due(<<h>>, l) + Due(rest, l - h.length)
        BY <2>7, <3>3, <4>2, DueOfConcat
      <4> QED BY <4>1, <4>3, <4>5, <4>6
    <3>4. dm = m.amount /\ dt = t.amount  BY <1>1, <2>1, <2>3, <3>3
    <3>5. Due(cut, i) = dc + (m.amount + One(t.amount))  BY <2>8, <2>9, <2>15
    <3> HIDE DEF dm, dt, rm, rt, dc
    <3>6. One(t.amount) \in Nat /\ One(0) = 0  BY OneNat
    <3> QED BY <2>2, <2>11, <2>12, <2>13, <3>2, <3>4, <3>5, <3>6
  <2>16. CASE l >= n
    <3>1. rm = dm /\ rt = dt  BY <1>1, <1>3, <2>3, <2>7, <2>16, DueOfCutHead
    <3>2. Due(cut, i) = dc  BY <2>3, <2>7, <2>8, <2>9, <2>13, <2>16
    <3> QED BY <2>11, <2>12, <3>1, <3>2
  <2> QED BY <2>3, <2>7, <2>14, <2>15, <2>16
<1> QED BY <1>2, <1>3

(* A cut uses up a range of one list at least, until one of them is empty.  *)
Finished(c) == c.mine = << >> \/ c.theirs = << >>
LeftOver(c) == Len(c.mine) + Len(c.theirs)

LEMMA CutUsesUp ==
  ASSUME NEW c \in CutState
  PROVE  /\ LeftOver(c) \in Nat
         /\ Finished(c) => Cut(c) = c
         /\ ~Finished(c) => LeftOver(Cut(c)) < LeftOver(c)
<1>1. c.mine \in Ranges /\ c.theirs \in Ranges  BY DEF CutState
<1>2. PICK p \in Nat, q \in Nat : p = Len(c.mine) /\ q = Len(c.theirs)
  <2>1. Len(c.mine) \in Nat  BY <1>1, RangeTypes
  <2>2. Len(c.theirs) \in Nat  BY <1>1, RangeTypes
  <2> QED BY <2>1, <2>2
<1>5. LeftOver(c) = p + q  BY <1>2 DEF LeftOver
<1>3. Finished(c) => Cut(c) = c  BY DEF Finished, Cut
<1>4. ASSUME ~Finished(c) PROVE LeftOver(Cut(c)) < LeftOver(c)
  <2> DEFINE m == Head(c.mine)
             t == Head(c.theirs)
             n == IF m.length < t.length THEN m.length ELSE t.length
             mine == CutHead(c.mine, n)
             theirs == CutHead(c.theirs, n)
  <2>1. c.mine # << >> /\ c.theirs # << >>  BY <1>4 DEF Finished
  <2>2. m \in AmountRange /\ t \in AmountRange  BY <1>1, <2>1, HeadAndTail
  <2>3. m.length \in Nat /\ t.length \in Nat  BY <2>2 DEF AmountRange
  <2>4. n \in Nat /\ n <= m.length /\ n <= t.length /\ (n = m.length \/ n = t.length)  BY <2>3
  <2>5. Cut(c).mine = mine /\ Cut(c).theirs = theirs  BY <2>1 DEF Cut
  <2> HIDE DEF n
  <2>6. Len(mine) <= Len(c.mine) /\ (m.length = n => Len(mine) = Len(c.mine) - 1)
    BY <1>1, <2>1, <2>4, CutHeadLength
  <2>7. Len(theirs) <= Len(c.theirs) /\ (t.length = n => Len(theirs) = Len(c.theirs) - 1)
    BY <1>1, <2>1, <2>4, CutHeadLength
  <2>8. mine \in Ranges /\ theirs \in Ranges  BY <1>1, <2>1, <2>4, CutHeadType
  <2>9. Len(mine) \in Nat  BY <2>8, RangeTypes
  <2>10. Len(theirs) \in Nat  BY <2>8, RangeTypes
  <2>11. PICK u \in Nat, v \in Nat : u = Len(mine) /\ v = Len(theirs)  BY <2>9, <2>10
  <2>12. LeftOver(Cut(c)) = u + v  BY <2>5, <2>11 DEF LeftOver
  <2>13. u <= p /\ v <= q /\ (u = p - 1 \/ v = q - 1)  BY <1>2, <2>4, <2>6, <2>7, <2>11
  <2> HIDE DEF mine, theirs
  <2> QED BY <1>5, <2>12, <2>13
<1> QED BY <1>3, <1>4, <1>5

LEMMA CutsCount ==
  ASSUME NEW c \in CutState, NEW n \in Nat, NEW f, AreCuts(f, c, n), NEW i \in Int,
         LeftOver(c) <= n
  PROVE  Counts(f[n], i) = Counts(c, i) /\ Finished(f[n])
<1> DEFINE Good(k) == /\ f[k] \in CutState /\ Counts(f[k], i) = Counts(c, i)
                      /\ Finished(f[k]) \/ LeftOver(f[k]) <= n - k
           Bad == {k \in 0 .. n : ~Good(k)}
<1>0. f = [k \in 0 .. n |-> IF k = 0 THEN c ELSE Cut(f[k - 1])]  BY DEF AreCuts
<1>1. ASSUME Bad # {} PROVE FALSE
  <2>0. Bad \in SUBSET Nat  OBVIOUS
  <2>1. PICK k \in Bad : \A j \in Bad : k <= j  BY <1>1, <2>0, SmallestNat
  <2>2. k \in 0 .. n /\ ~Good(k)  OBVIOUS
  <2>3. CASE k = 0
    <3>1. f[0] = c  BY <1>0
    <3>2. n - 0 = n  OBVIOUS
    <3> QED BY <2>2, <2>3, <3>1, <3>2
  <2>4. CASE k # 0
    <3> DEFINE j == k - 1
    <3>1. j \in 0 .. n /\ j < k /\ j \in Nat /\ k = j + 1  BY <2>2, <2>4
    <3>2. Good(j)  BY <2>1, <2>2, <3>1
    <3>3. f[k] = Cut(f[j])  BY <1>0, <2>2, <2>4
    <3> HIDE DEF j
    <3>4. PICK d \in CutState : d = f[j]  BY <3>2
    <3>5. Cut(d) \in CutState /\ Counts(Cut(d), i) = Counts(d, i)  BY CutType, CutCounts
    <3>6. /\ LeftOver(d) \in Nat /\ LeftOver(Cut(d)) \in Nat
          /\ Finished(d) => Cut(d) = d
          /\ ~Finished(d) => LeftOver(Cut(d)) < LeftOver(d)
      BY <3>5, CutUsesUp
    <3>7. Finished(d) \/ LeftOver(d) <= n - j  BY <3>2, <3>4
    <3>8. Finished(Cut(d)) \/ LeftOver(Cut(d)) <= n - k
      <4>1. CASE Finished(d)  BY <3>6, <4>1
      <4>2. CASE ~Finished(d)  BY <3>1, <3>6, <3>7, <4>2
      <4> QED BY <4>1, <4>2
    <3> QED BY <2>2, <3>2, <3>3, <3>4, <3>5, <3>8
  <2> QED BY <2>3, <2>4
<1>2. Good(n)  BY <1>1
<1>3. ASSUME LeftOver(f[n]) <= n - n PROVE Finished(f[n])
  <2>1. PICK d \in CutState : d = f[n]  BY <1>2
  <2>2. d.mine \in Ranges /\ Len(d.mine) \in Nat /\ d.theirs \in Ranges /\ Len(d.theirs) \in Nat
    <3>1. d.mine \in Ranges /\ d.theirs \in Ranges  BY DEF CutState
    <3> QED BY <3>1, RangeTypes
  <2>5. PICK p \in Nat, q \in Nat : p = Len(d.mine) /\ q = Len(d.theirs)  BY <2>2
  <2>6. LeftOver(d) = p + q  BY <2>5 DEF LeftOver
  <2>7. LeftOver(d) <= n - n  BY <1>3, <2>1
  <2>8. PICK u : u = LeftOver(f[n])  OBVIOUS
  <2>9. u = p + q /\ u <= n - n  BY <1>3, <2>1, <2>6, <2>8
  <2>3. p = 0  BY <2>9
  <2>10. Len(d.mine) = 0  BY <2>3, <2>5
  <2>4. d.mine = << >>  BY <2>2, <2>10, EmptySeq DEF Ranges
  <2> QED BY <2>1, <2>4 DEF Finished
<1> QED BY <1>2, <1>3

(* The ranges of a list with one or nothing each. *)
Ones(r) == [k \in DOMAIN r |-> [r[k] EXCEPT !.amount = OneIfAny(r[k])]]

LEMMA DueOfOnes ==
  ASSUME NEW r \in Ranges, NEW i \in Int
  PROVE  Ones(r) \in Ranges /\ Due(Ones(r), i) = One(Due(r, i))
<1> DEFINE o == Ones(r)
<1>1. Len(r) \in Nat /\ DOMAIN r = 1 .. Len(r)  BY RangeTypes
<1>2. ASSUME NEW k \in 1 .. Len(r)
      PROVE  o[k] \in AmountRange /\ o[k].length = r[k].length /\ o[k].amount = One(r[k].amount)
  <2>1. r[k] \in AmountRange  BY <1>1, RangeTypes
  <2>2. PICK n \in Nat : n = OneIfAny(r[k])  BY OneIfAnyType
  <2>3. o[k] = [r[k] EXCEPT !.amount = n]  BY <1>1, <2>2 DEF Ones
  <2>4. o[k] \in AmountRange /\ o[k].length = r[k].length /\ o[k].amount = n
    BY <2>1, <2>3 DEF AmountRange
  <2> QED BY <2>2, <2>4 DEF OneIfAny, One
<1>3. DOMAIN o = 1 .. Len(r)  BY <1>1 DEF Ones
<1>4. o \in Ranges
  <2>1. o = [k \in 1 .. Len(r) |-> o[k]]  BY <1>1 DEF Ones
  <2> HIDE DEF o
  <2>2. o \in [1 .. Len(r) -> AmountRange]  BY <1>2, <2>1
  <2>3. PICK size \in Nat : size = Len(r)  BY <1>1
  <2>4. o \in [1 .. size -> AmountRange]  BY <2>2, <2>3
  <2>5. o \in Seq(AmountRange)  BY <2>4
  <2> QED BY <2>5 DEF Ranges
<1> HIDE DEF o
<1>5. ASSUME NEW k \in 1 .. Len(r) PROVE Start(o, k) = Start(r, k)
  <2> DEFINE f == [j \in 1 .. k - 1 |-> o[j].length]
             g == [j \in 1 .. k - 1 |-> r[j].length]
  <2>1. \A j \in 1 .. k - 1 : j \in 1 .. Len(r)  BY <1>1
  <2>2. \A j \in 1 .. k - 1 : f[j] = g[j]  BY <1>2, <2>1
  <2>3. IsFiniteSet(1 .. k - 1)  BY <1>1, Interval
  <2>4. Start(o, k) = SumFunctionOnSet(f, 1 .. k - 1) /\ Start(r, k) = SumFunctionOnSet(g, 1 .. k - 1)
    BY DEF Start, SumFunction
  <2> HIDE DEF f, g
  <2> QED BY <2>2, <2>3, <2>4, SumSame
<1>6. RangesAt(o, i) = RangesAt(r, i)
  <2>1. ASSUME NEW k \in 1 .. Len(r) PROVE k \in RangesAt(o, i) <=> k \in RangesAt(r, i)
    BY <1>1, <1>2, <1>3, <1>5 DEF RangesAt
  <2>2. RangesAt(o, i) \subseteq 1 .. Len(r) /\ RangesAt(r, i) \subseteq 1 .. Len(r)
    BY <1>1, <1>3 DEF RangesAt
  <2> QED BY <2>1, <2>2
<1>7. CASE RangesAt(r, i) = {}
  <2>1. Due(r, i) = 0 /\ Due(o, i) = 0  BY <1>6, <1>7 DEF Due
  <2> QED BY <1>4, <2>1, OneNat DEF o
<1>8. CASE RangesAt(r, i) # {}
  <2>1. PICK k : k \in RangesAt(r, i)  BY <1>8
  <2>2. k \in DOMAIN r /\ Due(r, i) = r[k].amount /\ Due(o, i) = o[k].amount
    BY <1>4, <1>6, <2>1, OneRange
  <2> QED BY <1>1, <1>2, <1>4, <2>2 DEF o
<1> QED BY <1>7, <1>8

(* add_one_where_positive_ranges_occur: what a place had, and one more if   *)
(* the list merged in gives it something.                                   *)
LEMMA MergeCounts ==
  ASSUME NEW mine \in Ranges, NEW theirs \in Ranges, NEW i \in Int
  PROVE  Due(Merge(mine, theirs), i) = Due(mine, i) + One(Due(theirs, i))
<1> DEFINE n == Len(mine) + Len(theirs)
           start == [mine |-> mine, theirs |-> theirs, cut |-> << >>]
           after == CHOOSE f : AreCuts(f, start, n)
           last == after[n]
<1>1. n \in Nat  BY RangeTypes
<1>2. start \in CutState /\ LeftOver(start) = n  BY DEF CutState, Ranges, LeftOver
<1> HIDE DEF n
<1>3. AreCuts(after, start, n)
  <2>1. \E f : AreCuts(f, start, n)  BY <1>1, CutsExist
  <2> HIDE DEF start
  <2> QED BY <2>1
<1>4. Merge(mine, theirs) = last.cut \o last.mine \o Ones(last.theirs)
  BY DEF Merge, AreCuts, n, Ones
<1>5. Counts(start, i) = Due(mine, i) + One(Due(theirs, i))
  <2> DEFINE none == << >>
  <2>1. none \in Ranges /\ Len(none) = 0  BY DEF Ranges
  <2>2. Span(none) = 0  BY <2>1, StartFirst DEF Span
  <2>3. Due(none, i) = 0
    <3>1. i < 0 \/ i >= Span(none)  BY <2>2
    <3> QED BY <2>1, <3>1, DueOutside
  <2>4. Due(mine, i) \in Nat /\ One(Due(theirs, i)) \in Nat  BY DueNat, OneNat
  <2>5. start.cut = none /\ start.mine = mine /\ start.theirs = theirs  OBVIOUS
  <2>6. i - 0 = i  OBVIOUS
  <2> HIDE DEF none, start
  <2> QED BY <2>2, <2>3, <2>4, <2>5, <2>6 DEF Counts
<1> HIDE DEF start, after
<1>6. last \in CutState /\ Counts(last, i) = Counts(start, i) /\ Finished(last)
  <2>1. LeftOver(start) <= n  BY <1>1, <1>2
  <2> QED BY <1>1, <1>2, <1>3, <2>1, CutsType, CutsCount
<1> HIDE DEF last
<1>7. last.cut \in Ranges /\ last.mine \in Ranges /\ last.theirs \in Ranges
  BY <1>6 DEF CutState
<1> DEFINE l == i - Span(last.cut)
<1>8. Span(last.cut) \in Nat /\ l \in Int /\ Span(last.mine) \in Nat  BY <1>7, SpanOfConcat
<1> HIDE DEF l
<1>9. Ones(last.theirs) \in Ranges  BY <1>7, DueOfOnes, <1>8
<1>10. PICK at \in Int : at = l - Span(last.mine)  BY <1>8
<1>11. /\ Due(last.cut, i) \in Nat /\ Due(last.mine, l) \in Nat
       /\ Due(Ones(last.theirs), at) = One(Due(last.theirs, at)) /\ One(Due(last.theirs, at)) \in Nat
       /\ One(Due(last.theirs, l)) \in Nat
  BY <1>7, <1>8, DueNat, DueOfOnes, OneNat
<1>12. Due(Merge(mine, theirs), i)
         = (Due(last.cut, i) + Due(last.mine, l)) + One(Due(last.theirs, at))
  <2>1. last.cut \o last.mine \in Ranges
    BY <1>7, ConcatFacts
  <2>2. /\ Due(last.cut \o last.mine, i) = Due(last.cut, i) + Due(last.mine, l)
        /\ Span(last.cut \o last.mine) = Span(last.cut) + Span(last.mine)
    BY <1>7, DueOfConcat, SpanOfConcat DEF l
  <2>3. i - Span(last.cut \o last.mine) = at  BY <1>8, <1>10, <2>2 DEF l
  <2>4. Due((last.cut \o last.mine) \o Ones(last.theirs), i)
          = Due(last.cut \o last.mine, i) + Due(Ones(last.theirs), at)
    BY <1>9, <2>1, <2>3, DueOfConcat
  <2> QED BY <1>4, <1>11, <2>2, <2>4
<1>13. One(Due(last.theirs, at)) = One(Due(last.theirs, l))
  <2>1. CASE last.mine = << >>
    <3>1. Len(<< >>) = 0  OBVIOUS
    <3>2. Span(last.mine) = 0  BY <2>1, <3>1, StartFirst DEF Span
    <3>3. at = l  BY <1>8, <1>10, <3>2
    <3> QED BY <3>3
  <2>2. CASE last.theirs = << >>
    <3>1. ASSUME NEW j PROVE Due(last.theirs, j) = 0
      <4>1. DOMAIN last.theirs = {}  BY <2>2
      <4> QED BY <4>1 DEF Due, RangesAt
    <3> QED BY <3>1
  <2> QED BY <1>6, <2>1, <2>2 DEF Finished
<1>14. Counts(last, i) = (Due(last.cut, i) + Due(last.mine, l)) + One(Due(last.theirs, l))
  BY DEF Counts, l
<1> QED BY <1>5, <1>6, <1>12, <1>13, <1>14
----------------------------------------------------------------------------
(* The boxes that the tracker has to count for a place.                     *)
Counted(i) == {x \in configured : Gives(x, i)}
TrackerCounts == \A i \in Nat : Due(tracker, i) = Cardinality(Counted(i))

(* Which steps touch the boxes, and which the payouts.                      *)
LEMMA SetupSteps ==
  ASSUME [ManagerNext]_allVars
  PROVE  /\ UNCHANGED setupVars \/ \E x \in Boxes : ValidateSafetyDepositBoxV2(x)
         /\ payouts' = payouts
            \/ \E k \in plan.payouts : EmptyPaymentAccount(k[1], k[2], k[3], k[4])
<1> DEFINE Validates == \E x \in Boxes : ValidateSafetyDepositBoxV2(x)
           Pays == \E k \in plan.payouts : EmptyPaymentAccount(k[1], k[2], k[3], k[4])
           Goal == (UNCHANGED setupVars \/ Validates) /\ (payouts' = payouts \/ Pays)
<1>0. UNCHANGED <<setupVars, moneyVars>> => Goal  BY DEF moneyVars
<1>1. CASE CallOfOthers  BY <1>0, <1>1, OthersCall DEF managerVars
<1>2. CASE CallOfManager
  BY <1>0, <1>2 DEF CallOfManager, ManagerStartAuction, ManagerEndAuction,
     DecommissionAuctionManager, ManagerClaimBid
<1>3. CASE MoneyMoves
  <2>1. ASSUME NEW b \in Bidders, NEW x \in Boxes, NEW i \in Places \cup {None},
               RedeemParticipationBid(b, x, i)
        PROVE  UNCHANGED <<setupVars, payouts>>
    BY <2>1 DEF RedeemParticipationBid
  <2>2. Pays => UNCHANGED setupVars  BY DEF EmptyPaymentAccount
  <2> QED BY <1>3, <2>1, <2>2 DEF MoneyMoves
<1>4. CASE OwnStep
  <2>1. UNCHANGED moneyVars
    BY <1>4 DEF OwnStep, HandOverVault, SellerWithdraws, UpdatePrimarySaleHappened,
       InitAuctionManagerV2,
       ValidateSafetyDepositBoxV2, RedeemBid, RedeemUnused, RedeemPrintingCancelled,
       RedeemPrintingV2Bid, WithdrawMasterEdition
  <2>2. UNCHANGED setupVars \/ Validates
    BY <1>4 DEF OwnStep, HandOverVault, SellerWithdraws, UpdatePrimarySaleHappened,
       InitAuctionManagerV2,
       RedeemBid, RedeemUnused, RedeemPrintingCancelled, RedeemPrintingV2Bid,
       WithdrawMasterEdition
  <2> QED BY <2>1, <2>2 DEF moneyVars
<1>5. CASE UNCHANGED allVars  BY <1>0, <1>5 DEF allVars
<1> HIDE DEF Validates, Pays
<1> QED BY <1>1, <1>2, <1>3, <1>4, <1>5, StepKinds

LEMMA CountedFinite ==
  ASSUME ManagerTypes, NEW i
  PROVE  IsFiniteSet(Counted(i)) /\ Counted(i) \subseteq Boxes
<1>1. IsFiniteSet(Boxes) /\ configured \subseteq Boxes
  BY ManagerAssumption DEF ManagerTypes, ManagerTypeOK
<1>2. Counted(i) \subseteq Boxes  BY <1>1 DEF Counted
<1> QED BY <1>1, <1>2, FS_Subset

LEMMA ValidateCounts ==
  ASSUME ManagerTypes, TrackerCounts, NEW x \in Boxes, ValidateSafetyDepositBoxV2(x)
  PROVE  TrackerCounts'
<1> SUFFICES ASSUME NEW i \in Nat PROVE Due(tracker', i) = Cardinality(Counted(i)')
  BY DEF TrackerCounts
<1>0. ManagerTypeOK /\ plan \in Plans  BY DEF ManagerTypes, ManagerTypeOK
<1>1. /\ plan' = plan /\ configured' = configured \cup {x} /\ x \notin configured
      /\ tracker' = IF Prizes[x].type = "Participation" THEN tracker
                    ELSE Merged(tracker, Prizes[x].ranges)
  BY DEF ValidateSafetyDepositBoxV2
<1>2. Counted(i)' = {y \in configured \cup {x} : Gives(y, i)}
  BY <1>1 DEF Counted, Gives, DueAt, Prizes
<1>3. /\ Due(tracker, i) = Cardinality(Counted(i)) /\ IsFiniteSet(Counted(i))
      /\ Cardinality(Counted(i)) \in Nat /\ x \notin Counted(i)
  <2>1. IsFiniteSet(Counted(i))  BY CountedFinite
  <2> QED BY <1>1, <2>1, FS_CardinalityType DEF TrackerCounts, Counted
<1>4. CASE Prizes[x].type = "Participation"
  <2>1. ~Gives(x, i)  BY <1>4 DEF Gives
  <2>2. Counted(i)' = Counted(i)  BY <1>2, <2>1 DEF Counted
  <2> QED BY <1>1, <1>3, <1>4, <2>2
<1>5. CASE Prizes[x].type # "Participation"
  <2>1. tracker \in Ranges /\ Prizes[x].ranges \in Ranges
    <3>1. tracker \in Ranges  BY <1>0 DEF ManagerTypeOK, Ranges
    <3> QED BY <1>0, <3>1, PrizeFacts
  <2>2. Due(tracker', i) = Due(tracker, i) + One(DueAt(x, i))
    <3>1. tracker' = Merge(tracker, Prizes[x].ranges)  BY <1>1, <1>5 DEF Merged
    <3>2. i \in Int  OBVIOUS
    <3>3. Due(Merge(tracker, Prizes[x].ranges), i)
            = Due(tracker, i) + One(Due(Prizes[x].ranges, i))
      BY <2>1, <3>2, MergeCounts
    <3> QED BY <3>1, <3>3 DEF DueAt
  <2>3. Gives(x, i) <=> DueAt(x, i) > 0  BY <1>5 DEF Gives
  <2>4. CASE Gives(x, i)
    <3>1. Counted(i)' = Counted(i) \cup {x}  BY <1>2, <2>4 DEF Counted
    <3>2. Cardinality(Counted(i)') = Cardinality(Counted(i)) + 1
      BY <1>3, <3>1, FS_AddElement
    <3>3. One(DueAt(x, i)) = 1  BY <2>3, <2>4 DEF One
    <3> QED BY <1>3, <2>2, <3>2, <3>3
  <2>5. CASE ~Gives(x, i)
    <3>1. Counted(i)' = Counted(i)  BY <1>2, <2>5 DEF Counted
    <3>2. One(DueAt(x, i)) = 0  BY <2>3, <2>5 DEF One
    <3> QED BY <1>3, <2>2, <3>1, <3>2
  <2> QED BY <2>4, <2>5
<1> QED BY <1>4, <1>5

LEMMA CountsStep ==
  ASSUME ManagerTypes, TrackerCounts, [ManagerNext]_allVars
  PROVE  TrackerCounts'
<1>1. plan' = plan  BY PlanStays
<1>2. ASSUME UNCHANGED setupVars PROVE TrackerCounts'
  BY <1>1, <1>2 DEF setupVars, TrackerCounts, Counted, Gives, DueAt, Prizes
<1>3. ASSUME NEW x \in Boxes, ValidateSafetyDepositBoxV2(x) PROVE TrackerCounts'
  BY <1>3, ValidateCounts
<1> QED BY <1>2, <1>3, SetupSteps

LEMMA CountsInit == ManagerInit => TrackerCounts
<1> SUFFICES ASSUME ManagerInit, NEW i \in Nat PROVE Due(tracker, i) = Cardinality(Counted(i))
  BY DEF TrackerCounts
<1>1. tracker = << >> /\ configured = {}  BY DEF ManagerInit
<1>2. Due(tracker, i) = 0  BY <1>1 DEF Due, RangesAt
<1>3. Counted(i) = {}  BY <1>1 DEF Counted
<1> QED BY <1>2, <1>3, FS_EmptySet
----------------------------------------------------------------------------
LEMMA Quotient ==
  ASSUME NEW s \in Nat, NEW t \in Nat, t > 0
  PROVE  s \div t \in Nat /\ (s \div t) * t <= s
<1>1. PICK a \in Int, b \in Int : a = s /\ b = t /\ b > 0  OBVIOUS
<1>2. a - b * (a \div b) = a % b /\ a % b \in 0 .. b - 1 /\ a \div b \in Int
  BY <1>1, SMTT(30)
<1>3. a >= 0  BY <1>1
<1>4. a \div b >= 0  BY <1>1, <1>3, SMTT(30)
<1> DEFINE q == a \div b
<1>5. (a \div b) * b = b * (a \div b)
  <2>1. q \in Int  BY <1>2
  <2> HIDE DEF q
  <2>2. q * b = b * q  BY <1>1, <2>1
  <2> QED BY <2>2 DEF q
<1>6. q \in Int /\ a - b * q >= 0 /\ b * q \in Int
  <2>1. q \in Int  BY <1>2
  <2>2. a - b * q >= 0  BY <1>2
  <2> HIDE DEF q
  <2> QED BY <1>1, <2>1, <2>2
<1>7. q >= 0 /\ q * b = b * q  BY <1>4, <1>5
<1> HIDE DEF q
<1>8. q * b <= a  BY <1>1, <1>6, <1>7
<1> QED BY <1>1, <1>6, <1>7, <1>8 DEF q

LEMMA QuotientTwice ==
  ASSUME NEW s \in Nat, NEW t \in Nat, t > 0, NEW q \in Nat, q > 0
  PROVE  ((s \div t) \div q) * t * q <= s
<1>1. PICK u \in Nat : u = s \div t /\ u * t <= s  BY Quotient
<1>2. PICK v \in Nat : v = u \div q /\ v * q <= u  BY Quotient
<1>3. t * (v * q) <= t * u
  <2>1. v * q \in Nat  BY TimesNat
  <2> QED BY <1>2, <2>1, TimesMonotone
<1>4. v * t * q = t * (v * q) /\ t * u = u * t  OBVIOUS
<1>5. v * t * q <= s
  <2>1. t * u \in Nat /\ t * (v * q) \in Nat  BY TimesNat
  <2> QED BY <1>1, <1>3, <1>4, <2>1
<1> QED BY <1>1, <1>2, <1>5

(* What of a bid goes to one payee of a box, in parts of Basis * Basis.     *)
Weight(x, c, happened) == Numerator(Prizes[x], c, happened) * Multiplier(Prizes[x], c)

LEMMA WeightType ==
  ASSUME plan \in Plans, NEW c \in Nat \cup {None}, NEW x \in Boxes, HasPayee(c, x),
         NEW h \in BOOLEAN
  PROVE  /\ Numerator(Prizes[x], c, h) \in Nat /\ Multiplier(Prizes[x], c) \in Nat
         /\ Weight(x, c, h) \in Nat
<1>1. Numerator(Prizes[x], c, h) \in Nat
  <2>1. Prizes[x].fee \in 0 .. Basis  BY PrizeFacts
  <2>2. Basis \in Nat  BY DEF Basis
  <2> QED BY <2>1, <2>2 DEF Numerator
<1>2. Multiplier(Prizes[x], c) \in Nat
  <2>1. CASE c = None  BY <2>1 DEF Multiplier, Basis
  <2>2. CASE c # None
    <3>1. Prizes[x].creators \in Seq(Creator)  BY <2>2, PrizeFacts DEF HasPayee
    <3>2. c + 1 \in 1 .. Len(Prizes[x].creators)
      BY <2>2, <3>1, LenProperties DEF HasPayee
    <3>3. Prizes[x].creators[c + 1] \in Creator  BY <3>1, <3>2, ElementOfSeq
    <3>4. Prizes[x].creators[c + 1].share \in Nat  BY <3>3 DEF Creator
    <3> QED BY <2>2, <3>4 DEF Multiplier
  <2> QED BY <2>1, <2>2
<1>3. Weight(x, c, h) \in Nat  BY <1>1, <1>2, TimesNat DEF Weight
<1> QED BY <1>1, <1>2, <1>3

(* A payout for a place is its payee's part, at most, of a bid that nothing *)
(* can move, divided among the boxes that the tracker counted.              *)
PaidPart(k) ==
  LET t == payouts[k]
  IN \/ t.paid = 0
     \/ \E v \in Bid : /\ BidFixed(v, k[1])
                       /\ t.paid * t.shared * (Basis * Basis) <= v.amount * Weight(k[4], k[3], t.sold)
PayoutBacked(k) ==
  /\ k \in plan.payouts /\ k[4] \in configured /\ HasPayee(k[3], k[4])
  /\ k[1] \in Nat /\ k[1] < args.max => PaidPart(k)
PayoutsBacked == IsFiniteSet(DOMAIN payouts) /\ \A k \in DOMAIN payouts : PayoutBacked(k)
PaidInv == ClaimsInv /\ TrackerCounts /\ PayoutsBacked

LEMMA PayoutsNeedClaims ==
  ASSUME ClaimsInv, AllBidsClaimed, manager # None, NEW i \in Nat, i < NumWinners
  PROVE  \E v \in Bid : BidFixed(v, i) /\ BidAmount(i) = v.amount
<1>0. ManagerTypes  BY DEF ClaimsInv
<1>1. /\ NumWinners \in Nat /\ NumWinners <= Len(bids) /\ Len(bids) \in Nat
      /\ DOMAIN bids = 1 .. Len(bids) /\ i \in 0 .. NumWinners - 1
      /\ WinnerAt(i) = bids[Len(bids) - i].bidder /\ WinnerAt(i) \in Bidders
  BY <1>0, NumWinnersType
<1>2. PICK k \in DOMAIN bids : k = Len(bids) - i  BY <1>1
<1>3. pot[WinnerAt(i)].emptied
  <2>1. PayoutsOpen  BY ClaimsOpen
  <2> QED BY <1>1, <2>1 DEF PayoutsOpen
<1>4. PICK d \in Nat : FixedAt(WinnerAt(i), d)  BY <1>1, <1>3 DEF ClaimsInv, PaidTop
<1>5. i = d  BY <1>0, <1>1, <1>4, FixedWins
<1>6. FixedAt(WinnerAt(i), i)  BY <1>4, <1>5
<1>7. PICK j \in DOMAIN bids :
        /\ Len(bids) - j = i /\ i < args.max
        /\ state = "Ended" \/ (bids[j].amount >= Minimum /\ (Ended \/ PaidInstant(j)))
  BY <1>6 DEF FixedAt
<1>8. j = k  BY <1>1, <1>2, <1>7
<1>9. BidFixed(bids[k], i)  BY <1>7, <1>8 DEF BidFixed
<1>10. bids[k] \in Bid  BY <1>0, <1>2 DEF ManagerTypes, AuctionInv, TypeOK
<1>11. args.kind # "OpenEdition"  BY <1>1 DEF NumWinners
<1>12. BidAmount(i) = bids[k].amount  BY <1>1, <1>2, <1>11 DEF BidAmount
<1> QED BY <1>9, <1>10, <1>12

LEMMA PayoutIsBacked ==
  ASSUME ClaimsInv, NEW k \in plan.payouts, EmptyPaymentAccount(k[1], k[2], k[3], k[4]),
         k[1] \in Nat, k[1] < args.max, NEW t, t = payouts'[k], t.paid # 0
  PROVE  \E v \in Bid : /\ BidFixed(v, k[1])
                        /\ t.paid * t.shared * (Basis * Basis) <= v.amount * Weight(k[4], k[3], t.sold)
<1>0. ManagerTypes /\ ManagerTypeOK /\ plan \in Plans
  BY DEF ClaimsInv, ManagerTypes, ManagerTypeOK
<1> DEFINE i == k[1]
           c == k[3]
           x == k[4]
           made == [paid |-> Owed(i, c, x), sold |-> sold[x], shared |-> SharedBy(i)]
<1>1. c \in Nat \cup {None} /\ x \in Boxes /\ k = <<k[1], k[2], k[3], k[4]>>
  BY <1>0, PlanFacts
<1>2. /\ HasPayee(c, x) /\ AllBidsClaimed /\ manager # None
      /\ payouts' = [l \in {k} \cup DOMAIN payouts |-> IF l = k THEN made ELSE payouts[l]]
      /\ IF i = None \/ ToSplit(i, c, x) = 0 THEN TRUE
         ELSE RangesAt(tracker, i) # {} /\ TokenTypes(i) > 0
  BY <1>1 DEF EmptyPaymentAccount
<1>3. t = made  BY <1>2
<1>4. t.paid = Owed(i, c, x) /\ t.sold = sold[x] /\ t.shared = SharedBy(i)  BY <1>3
<1>5. i # None  BY AuctionAssumption
<1>6. ToSplit(i, c, x) # 0  BY <1>4 DEF Owed
<1>7. sold[x] \in BOOLEAN  BY <1>0, <1>1 DEF ManagerTypeOK
<1>8. Weight(x, c, sold[x]) \in Nat  BY <1>0, <1>1, <1>2, <1>7, WeightType
<1>9. BidAmount(i) # 0
  <2>1. PICK n \in Nat, m \in Nat : /\ n = Numerator(Prizes[x], c, sold[x])
                                    /\ m = Multiplier(Prizes[x], c)
    BY <1>0, <1>1, <1>2, <1>7, WeightType
  <2>2. ToSplit(i, c, x) = BidAmount(i) * n * m  BY <1>5, <2>1 DEF ToSplit, Available
  <2>3. 0 * n * m = 0  OBVIOUS
  <2> QED BY <1>6, <2>2, <2>3
<1>10. i < NumWinners
  <2>1. Len(bids) \in Nat /\ args.max \in Nat  BY <1>0, NumWinnersType
  <2> QED BY <1>9, <2>1 DEF BidAmount, NumWinners
<1>11. PICK v \in Bid : BidFixed(v, i) /\ BidAmount(i) = v.amount
  BY <1>2, <1>10, PayoutsNeedClaims
<1>12. ToSplit(i, c, x) = v.amount * Weight(x, c, sold[x])
  <2>1. PICK n \in Nat, m \in Nat : /\ n = Numerator(Prizes[x], c, sold[x])
                                    /\ m = Multiplier(Prizes[x], c)
    BY <1>0, <1>1, <1>2, <1>7, WeightType
  <2>2. PICK a \in Nat : a = v.amount  BY DEF Bid
  <2>3. ToSplit(i, c, x) = a * n * m  BY <1>5, <1>11, <2>1, <2>2 DEF ToSplit, Available
  <2>4. Weight(x, c, sold[x]) = n * m  BY <2>1 DEF Weight
  <2>5. a * n * m = a * (n * m)  OBVIOUS
  <2> QED BY <2>2, <2>3, <2>4, <2>5
<1>13. PICK s \in Nat : s = ToSplit(i, c, x)
  <2>1. v.amount \in Nat  BY DEF Bid
  <2> QED BY <1>8, <1>12, <2>1, TimesNat
<1>14. PICK n \in Nat : n = SharedBy(i) /\ n = TokenTypes(i) /\ n > 0
  <2>1. RangesAt(tracker, i) # {} /\ TokenTypes(i) > 0  BY <1>2, <1>5, <1>6
  <2>2. tracker \in Ranges  BY <1>0 DEF ManagerTypeOK, Ranges
  <2>3. AmountAt(tracker, i) \in Nat  BY <2>1, <2>2, AmountType
  <2> QED BY <1>5, <2>1, <2>3 DEF SharedBy, TokenTypes, Due
<1>15. PICK q \in Nat : q = Basis * Basis /\ q > 0  BY DEF Basis
<1>16. Owed(i, c, x) = (s \div n) \div q  BY <1>6, <1>13, <1>14, <1>15 DEF Owed
<1>17. Owed(i, c, x) * n * q <= s  BY <1>14, <1>15, <1>16, QuotientTwice
<1>18. t.paid * t.shared * (Basis * Basis) <= v.amount * Weight(x, c, t.sold)
  BY <1>4, <1>12, <1>13, <1>14, <1>15, <1>17
<1> QED BY <1>11, <1>18

LEMMA BackedStays ==
  ASSUME PaidInv, ManagerTypes', [ManagerNext]_allVars,
         NEW k \in DOMAIN payouts, payouts'[k] = payouts[k]
  PROVE  PayoutBacked(k)'
<1>0. ManagerTypes /\ PayoutBacked(k)  BY DEF PaidInv, ClaimsInv, PayoutsBacked
<1>1. args' = args /\ plan' = plan  BY <1>0, PlanStays
<1>2. k[4] \in configured'
  <2>1. k[4] \in configured  BY <1>0 DEF PayoutBacked
  <2>2. configured \subseteq configured'
    <3>1. \A x \in Boxes : ValidateSafetyDepositBoxV2(x) => configured \subseteq configured'
      BY DEF ValidateSafetyDepositBoxV2
    <3> QED BY <3>1, SetupSteps DEF setupVars
  <2> QED BY <2>1, <2>2
<1>3. k \in plan'.payouts /\ HasPayee(k[3], k[4])'
  BY <1>0, <1>1 DEF PayoutBacked, HasPayee, Prizes
<1>4. ASSUME k[1] \in Nat, k[1] < args.max PROVE PaidPart(k)'
  <2>1. PaidPart(k)  BY <1>0, <1>4 DEF PayoutBacked
  <2>2. CASE payouts[k].paid = 0  BY <2>2 DEF PaidPart
  <2>3. CASE payouts[k].paid # 0
    <3>1. PICK v \in Bid :
            /\ BidFixed(v, k[1])
            /\ payouts[k].paid * payouts[k].shared * (Basis * Basis)
                 <= v.amount * Weight(k[4], k[3], payouts[k].sold)
      BY <2>1, <2>3 DEF PaidPart
    <3>2. BidFixed(v, k[1])'  BY <1>0, <3>1, StepKeepsBid
    <3>3. Weight(k[4], k[3], payouts[k].sold)' = Weight(k[4], k[3], payouts[k].sold)
      BY <1>1 DEF Weight, Numerator, Multiplier, Prizes
    <3> QED BY <3>1, <3>2, <3>3 DEF PaidPart
  <2> QED BY <2>2, <2>3
<1> QED BY <1>1, <1>2, <1>3, <1>4 DEF PayoutBacked

LEMMA PayoutsStep ==
  ASSUME PaidInv, ManagerTypes', [ManagerNext]_allVars
  PROVE  PayoutsBacked'
<1>0. ManagerTypes /\ ClaimsInv  BY DEF PaidInv, ClaimsInv
<1>1. IsFiniteSet(DOMAIN payouts)  BY DEF PaidInv, PayoutsBacked
<1>2. CASE payouts' = payouts
  <2>1. \A k \in DOMAIN payouts : PayoutBacked(k)'  BY <1>2, BackedStays
  <2> QED BY <1>1, <1>2, <2>1 DEF PayoutsBacked
<1>3. ASSUME NEW k \in plan.payouts, EmptyPaymentAccount(k[1], k[2], k[3], k[4])
      PROVE  PayoutsBacked'
  <2>0. k = <<k[1], k[2], k[3], k[4]>>  BY <1>0, PlanFacts DEF ManagerTypes, ManagerTypeOK
  <2>1. /\ k[4] \in configured /\ HasPayee(k[3], k[4])
        /\ UNCHANGED <<auctionState, plan, configured>>
    BY <1>3 DEF EmptyPaymentAccount, setupVars
  <2>2. /\ DOMAIN payouts' = {k} \cup DOMAIN payouts
        /\ \A l \in DOMAIN payouts : l # k => payouts'[l] = payouts[l]
    BY <1>3, <2>0 DEF EmptyPaymentAccount
  <2>3. IsFiniteSet(DOMAIN payouts')  BY <1>1, <2>2, FS_AddElement
  <2>4. \A l \in DOMAIN payouts : l # k => PayoutBacked(l)'  BY <2>2, BackedStays
  <2>5. ASSUME k[1] \in Nat, k[1] < args.max PROVE PaidPart(k)'
    <3>1. PICK t : t = payouts'[k]  OBVIOUS
    <3>2. CASE t.paid = 0  BY <3>1, <3>2 DEF PaidPart
    <3>3. CASE t.paid # 0
      <4>1. PICK v \in Bid :
              /\ BidFixed(v, k[1])
              /\ t.paid * t.shared * (Basis * Basis) <= v.amount * Weight(k[4], k[3], t.sold)
        BY <1>0, <1>3, <2>5, <3>1, <3>3, PayoutIsBacked
      <4>2. BidFixed(v, k[1])'  BY <1>0, <4>1, StepKeepsBid
      <4>3. Weight(k[4], k[3], t.sold)' = Weight(k[4], k[3], t.sold)
        BY <2>1, <3>1 DEF Weight, Numerator, Multiplier, Prizes
      <4> QED BY <3>1, <4>1, <4>2, <4>3 DEF PaidPart
    <3> QED BY <3>2, <3>3
  <2>6. PayoutBacked(k)'
    BY <2>1, <2>5 DEF PayoutBacked, HasPayee, Prizes, auctionState
  <2> QED BY <2>2, <2>3, <2>4, <2>6 DEF PayoutsBacked
<1> QED BY <1>2, <1>3, SetupSteps

LEMMA PaidInvHolds == ManagerSpec => []PaidInv
<1>1. ManagerInit => PaidInv
  <2> SUFFICES ASSUME ManagerInit PROVE PaidInv  OBVIOUS
  <2>1. ClaimsInv /\ TrackerCounts  BY ClaimsInit, CountsInit
  <2>2. DOMAIN payouts = {}
    <3>1. payouts = << >>  BY DEF ManagerInit
    <3> QED BY <3>1
  <2>3. PayoutsBacked  BY <2>2, FS_EmptySet DEF PayoutsBacked
  <2> QED BY <2>1, <2>3 DEF PaidInv
<1>2. PaidInv /\ [ManagerNext]_allVars => PaidInv'
  <2> SUFFICES ASSUME PaidInv, [ManagerNext]_allVars PROVE PaidInv'  OBVIOUS
  <2>0. ManagerTypes /\ ClaimsInv /\ TrackerCounts  BY DEF PaidInv, ClaimsInv
  <2>1. ClaimsInv'  BY <2>0, ClaimsStep
  <2>2. TrackerCounts'  BY <2>0, CountsStep
  <2>3. ManagerTypes'  BY <2>1 DEF ClaimsInv
  <2>4. PayoutsBacked'  BY <2>3, PayoutsStep
  <2> QED BY <2>1, <2>2, <2>4 DEF PaidInv
<1> QED BY <1>1, <1>2, PTL DEF ManagerSpec
----------------------------------------------------------------------------
LEMMA Cancelled ==
  ASSUME NEW n \in Nat, n > 0, NEW s \in Nat, NEW a \in Nat, n * s <= a * n
  PROVE  s <= a
<1>1. ASSUME a + 1 <= s PROVE FALSE
  <2>1. n * (a + 1) <= n * s  BY <1>1, TimesMonotone
  <2>2. n * (a + 1) = a * n + n  OBVIOUS
  <2>3. n * s \in Nat /\ a * n \in Nat  BY TimesNat
  <2> QED BY <2>1, <2>2, <2>3
<1> QED BY <1>1

(* Who is paid for a place out of one box under one item index: the         *)
(* auctioneer or a creator.                                                 *)
PayeeOf(k, i, item, x) == k = <<i, item, k[3], x>> /\ k[3] \in Nat \cup {None} /\ HasPayee(k[3], x)

(* The payees of one box get no more than all of what is split.             *)
LEMMA CreatorShares ==
  ASSUME plan \in Plans, NEW x \in Boxes, NEW i, NEW item, NEW K, IsFiniteSet(K), NEW share,
         \A k \in K : /\ PayeeOf(k, i, item, x) /\ k[3] # None
                      /\ share[k] = Prizes[x].creators[k[3] + 1].share
  PROVE  /\ \A k \in K : share[k] \in Nat
         /\ SumFunctionOnSet(share, K) <= 100
<1>0. \A k \in K : /\ k = <<i, item, k[3], x>>
                   /\ k[3] \in Nat /\ k[3] # None /\ HasPayee(k[3], x)
                   /\ share[k] = Prizes[x].creators[k[3] + 1].share
  BY DEF PayeeOf
<1> DEFINE creators == Prizes[x].creators
           T == DOMAIN creators
           g == [n \in T |-> creators[n].share]
           m == [k \in K |-> k[3] + 1]
<1>1. CASE K = {}  BY <1>1, SumEmpty
<1>2. CASE K # {}
  <2>1. creators # None  BY <1>0, <1>2 DEF HasPayee
  <2>2. creators \in Seq(Creator)  BY <2>1, PrizeFacts
  <2>3. T = 1 .. Len(creators) /\ Len(creators) \in Nat  BY <2>2, LenProperties
  <2>4. SumFunctionOnSet(g, T) <= 100
    <3>1. SharesOf(plan.prizes[x].creators) <= 100  BY <2>1, ManagerAssumption DEF Prizes
    <3> QED BY <3>1 DEF SharesOf, SumFunction, Prizes
  <2>5. \A n \in T : creators[n].share \in Nat
    <3> SUFFICES ASSUME NEW n \in T PROVE creators[n].share \in Nat  OBVIOUS
    <3>1. PICK cs : cs = creators  OBVIOUS
    <3>2. cs \in Seq(Creator) /\ n \in 1 .. Len(cs)  BY <2>2, <2>3, <3>1
    <3>3. cs[n] \in Creator  BY <3>2, ElementOfSeq
    <3>4. cs[n].share \in Nat  BY <3>3 DEF Creator
    <3> QED BY <3>1, <3>4
  <2>6. \A k \in K : m[k] \in T /\ share[k] = creators[m[k]].share
    BY <1>0, <2>1, <2>3 DEF HasPayee
  <2>7. IsFiniteSet(T)  BY <2>3, Interval
  <2>8. ASSUME NEW n \in T
        PROVE  SumFunctionOnSet(share, {k \in K : m[k] = n}) <= g[n]
    <3> DEFINE same == {k \in K : m[k] = n}
    <3>1. \A j, k \in same : j = k
      <4> SUFFICES ASSUME NEW j \in same, NEW k \in same PROVE j = k  OBVIOUS
      <4>1. j[3] + 1 = n /\ k[3] + 1 = n /\ j[3] \in Nat /\ k[3] \in Nat  BY <1>0
      <4>2. j[3] = k[3]  BY <4>1
      <4>3. j = <<i, item, j[3], x>> /\ k = <<i, item, k[3], x>>  BY <1>0
      <4> QED BY <4>2, <4>3
    <3>2. \A k \in same : share[k] = g[n]  BY <2>6
    <3>3. g[n] \in Nat  BY <2>5
    <3> HIDE DEF same, g
    <3>4. SumFunctionOnSet(share, same) <= g[n]  BY <3>1, <3>2, <3>3, SumOfAtMostOne
    <3> QED BY <3>4 DEF same
  <2>9. (\A k \in K : share[k] \in Nat) /\ (\A n \in T : g[n] \in Nat)
    BY <2>5, <2>6
  <2>10. \A k \in K : m[k] \in T  BY <2>6
  <2> HIDE DEF m, g, T
  <2>11. SumFunctionOnSet(share, K) <= SumFunctionOnSet(g, T)
    BY <2>7, <2>8, <2>9, <2>10, SumGrouped
  <2>12. SumFunctionOnSet(share, K) \in Nat /\ SumFunctionOnSet(g, T) \in Nat
    <3>1. SumFunctionOnSet(share, K) \in Nat  BY <2>9, SumNat
    <3>2. SumFunctionOnSet(g, T) \in Nat  BY <2>7, <2>9, SumNat
    <3> QED BY <3>1, <3>2
  <2> QED BY <2>4, <2>9, <2>11, <2>12
<1> QED BY <1>1, <1>2

LEMMA BoxWeights ==
  ASSUME plan \in Plans, NEW x \in Boxes, NEW h \in BOOLEAN, NEW i, NEW item, NEW K,
         IsFiniteSet(K), NEW w,
         \A k \in K : PayeeOf(k, i, item, x) /\ w[k] = Weight(x, k[3], h)
  PROVE  SumFunctionOnSet(w, K) <= Basis * Basis
<1>0. \A k \in K : /\ k = <<i, item, k[3], x>> /\ k[3] \in Nat \cup {None} /\ HasPayee(k[3], x)
                   /\ w[k] = Weight(x, k[3], h)
  BY DEF PayeeOf
<1>1. PICK base \in Nat, hundred \in Nat : base = Basis /\ hundred = 100 /\ base = hundred * hundred
  BY DEF Basis
<1>2. PICK cut \in Nat : cut = (IF h THEN Prizes[x].fee ELSE Basis) /\ cut <= base
  <2>1. PICK fee \in Nat : fee = Prizes[x].fee /\ fee <= base
    <3>1. PICK n : n = Prizes[x].fee  OBVIOUS
    <3>2. n \in 0 .. Basis  BY <3>1, PrizeFacts
    <3>3. n \in 0 .. base  BY <1>1, <3>2
    <3>4. n \in Nat /\ n <= base  BY <3>3
    <3> QED BY <3>1, <3>4
  <2>2. CASE h  BY <2>1, <2>2
  <2>3. CASE ~h  BY <1>1, <2>3
  <2> QED BY <2>2, <2>3
<1>3. PICK left \in Nat : left = base - cut  BY <1>2
<1>4. /\ Weight(x, None, h) = left * base
      /\ \A c \in Nat : c # None => Weight(x, c, h) = cut * (Prizes[x].creators[c + 1].share * 100)
  <2>1. Numerator(Prizes[x], None, h) = left /\ Multiplier(Prizes[x], None) = base
    <3>1. CASE h
      <4>1. Numerator(Prizes[x], None, h) = Basis - Prizes[x].fee  BY <3>1 DEF Numerator
      <4> QED BY <1>1, <1>2, <1>3, <3>1, <4>1 DEF Multiplier
    <3>2. CASE ~h
      <4>1. Numerator(Prizes[x], None, h) = 0  BY <3>2 DEF Numerator
      <4>2. cut = base  BY <1>1, <1>2, <3>2
      <4>3. left = 0  BY <1>3, <4>2
      <4> QED BY <1>1, <4>1, <4>3 DEF Multiplier
    <3> QED BY <3>1, <3>2
  <2>2. \A c \in Nat : c # None =>
          /\ Numerator(Prizes[x], c, h) = cut
          /\ Multiplier(Prizes[x], c) = Prizes[x].creators[c + 1].share * 100
    BY <1>2 DEF Numerator, Multiplier
  <2> QED BY <2>1, <2>2 DEF Weight
<1> DEFINE own == {k \in K : k[3] = None}
           rest == K \ own
           share == [k \in rest |-> Prizes[x].creators[k[3] + 1].share]
<1>5. IsFiniteSet(own) /\ IsFiniteSet(rest) /\ K = own \cup rest /\ own \cap rest = {}
  <2>1. own \subseteq K /\ rest \subseteq K  OBVIOUS
  <2>2. IsFiniteSet(own)  BY <2>1, FS_Subset
  <2>3. IsFiniteSet(rest)  BY <2>1, FS_Subset
  <2> QED BY <2>2, <2>3
<1>6. \A k \in K : w[k] \in Nat
  <2> SUFFICES ASSUME NEW k \in K PROVE w[k] \in Nat  OBVIOUS
  <2>1. PICK c \in Nat \cup {None} : c = k[3] /\ HasPayee(c, x) /\ w[k] = Weight(x, c, h)
    BY <1>0
  <2>2. Weight(x, c, h) \in Nat  BY <2>1, WeightType
  <2> QED BY <2>1, <2>2
<1>7. SumFunctionOnSet(w, own) <= left * base
  <2>1. \A j, k \in own : j = k
    <3> SUFFICES ASSUME NEW j \in own, NEW k \in own PROVE j = k  OBVIOUS
    <3>1. j = <<i, item, j[3], x>> /\ k = <<i, item, k[3], x>> /\ j[3] = k[3]  BY <1>0
    <3> QED BY <3>1
  <2>2. left * base \in Nat  BY TimesNat
  <2>3. \A k \in own : w[k] \in Nat /\ w[k] = left * base  BY <1>4, <1>6
  <2> HIDE DEF own
  <2> QED BY <2>1, <2>2, <2>3, SumOfAtMostOne
<1>8. (\A k \in rest : share[k] \in Nat) /\ SumFunctionOnSet(share, rest) <= hundred
  <2>1. \A k \in rest : /\ PayeeOf(k, i, item, x) /\ k[3] # None
                        /\ share[k] = Prizes[x].creators[k[3] + 1].share
    OBVIOUS
  <2> HIDE DEF rest, share
  <2>2. (\A k \in rest : share[k] \in Nat) /\ SumFunctionOnSet(share, rest) <= 100
    BY <1>5, <2>1, CreatorShares
  <2> QED BY <1>1, <2>2
<1>9. \A k \in rest : w[k] = cut * hundred * share[k]
  <2> SUFFICES ASSUME NEW k \in rest PROVE w[k] = cut * hundred * share[k]  OBVIOUS
  <2>1. PICK s \in Nat : s = share[k]  BY <1>8
  <2>2. w[k] = cut * (s * hundred)
    <3>1. k[3] \in Nat /\ k[3] # None /\ w[k] = Weight(x, k[3], h)  BY <1>0
    <3>2. s = Prizes[x].creators[k[3] + 1].share  BY <2>1
    <3>3. w[k] = cut * (Prizes[x].creators[k[3] + 1].share * 100)  BY <1>4, <3>1
    <3> QED BY <1>1, <3>2, <3>3
  <2>3. cut * (s * hundred) = cut * hundred * s  OBVIOUS
  <2> QED BY <2>1, <2>2, <2>3
<1>10. SumFunctionOnSet(w, rest) <= cut * base
  <2>1. PICK one \in Int, many \in Int : one = 1 /\ many = cut * hundred  OBVIOUS
  <2>2. \A k \in rest : w[k] \in Int /\ share[k] \in Int /\ one * w[k] <= many * share[k]
    <3> SUFFICES ASSUME NEW k \in rest
                 PROVE  w[k] \in Int /\ share[k] \in Int /\ one * w[k] <= many * share[k]
      OBVIOUS
    <3>1. PICK n \in Nat, s \in Nat : n = w[k] /\ s = share[k]
      BY <1>5, <1>6, <1>8
    <3>2. n = many * s  BY <1>9, <2>1, <3>1
    <3>3. one * n = n  BY <2>1
    <3> HIDE DEF share
    <3> QED BY <3>1, <3>2, <3>3
  <2> HIDE DEF rest, share
  <2>3. one * SumFunctionOnSet(w, rest) <= many * SumFunctionOnSet(share, rest)
    BY <1>5, <2>2, SumScaled
  <2>4. PICK n \in Nat, s \in Nat : /\ n = SumFunctionOnSet(w, rest)
                                    /\ s = SumFunctionOnSet(share, rest)
    <3>1. SumFunctionOnSet(w, rest) \in Nat
      <4>1. \A k \in rest : w[k] \in Nat  BY <1>5, <1>6
      <4> QED BY <1>5, <4>1, SumNat
    <3>2. SumFunctionOnSet(share, rest) \in Nat  BY <1>5, <1>8, SumNat
    <3> QED BY <3>1, <3>2
  <2>5. many \in Nat /\ many * s <= many * hundred
    <3>1. many \in Nat  BY <2>1, TimesNat
    <3> QED BY <1>8, <2>4, <3>1, TimesMonotone
  <2>6. many * hundred = cut * base
    <3>1. cut * hundred * hundred = cut * (hundred * hundred)  OBVIOUS
    <3> QED BY <1>1, <2>1, <3>1
  <2>7. one * n = n  BY <2>1
  <2>8. many * s \in Nat /\ many * hundred \in Nat  BY <2>5, TimesNat
  <2> QED BY <2>3, <2>4, <2>5, <2>6, <2>7, <2>8
<1>11. SumFunctionOnSet(w, K) = SumFunctionOnSet(w, own) + SumFunctionOnSet(w, rest)
  <2> HIDE DEF own, rest
  <2>1. SumFunctionOnSet(w, own \cup rest) = SumFunctionOnSet(w, own) + SumFunctionOnSet(w, rest)
    BY <1>5, <1>6, SumUnion
  <2> QED BY <1>5, <2>1
<1>12. left * base + cut * base = base * base
  <2>1. base = left + cut  BY <1>2, <1>3
  <2>2. (left + cut) * base = left * base + cut * base  OBVIOUS
  <2> QED BY <2>1, <2>2
<1>13. SumFunctionOnSet(w, own) \in Nat /\ SumFunctionOnSet(w, rest) \in Nat
  <2> HIDE DEF own, rest
  <2>1. \A k \in own \cup rest : w[k] \in Nat  BY <1>5, <1>6
  <2>2. SumFunctionOnSet(w, own) \in Nat  BY <1>5, <2>1, SumNat
  <2>3. SumFunctionOnSet(w, rest) \in Nat  BY <1>5, <2>1, SumNat
  <2> QED BY <2>2, <2>3
<1>14. left * base \in Nat /\ cut * base \in Nat  BY TimesNat
<1> HIDE DEF own, rest
<1> QED BY <1>1, <1>7, <1>10, <1>11, <1>12, <1>13, <1>14

(* One payout of a place: its part of what the bid pays, divided among the  *)
(* boxes that give something to the place.                                  *)
LEMMA PayoutOfPlace ==
  ASSUME PaidInv, NEW i \in 0 .. NumWinners - 1, NEW item, NEW k \in PayoutsFor(i, item),
         payouts[k].sold = sold[k[4]], payouts[k].shared = Due(tracker, i)
  PROVE  /\ k = <<i, item, k[3], k[4]>> /\ k[3] \in Nat \cup {None}
         /\ k[4] \in Counted(i) /\ k[4] \in Boxes /\ sold[k[4]] \in BOOLEAN
         /\ HasPayee(k[3], k[4]) /\ payouts[k].paid \in Nat
         /\ Due(tracker, i) * (Basis * Basis) * payouts[k].paid
              <= BidAmount(i) * Weight(k[4], k[3], sold[k[4]])
<1>0. ManagerTypes /\ ManagerTypeOK /\ plan \in Plans
  BY DEF PaidInv, ClaimsInv, ManagerTypes, ManagerTypeOK
<1>1. k \in DOMAIN payouts /\ k[1] = i /\ k[2] = item /\ Gives(k[4], i)  BY DEF PayoutsFor
<1>2. PayoutBacked(k)  BY <1>1 DEF PaidInv, PayoutsBacked
<1>3. k \in plan.payouts /\ k[4] \in configured /\ HasPayee(k[3], k[4])  BY <1>2 DEF PayoutBacked
<1>4. k = <<i, item, k[3], k[4]>> /\ k[3] \in Nat \cup {None} /\ k[4] \in Boxes
  BY <1>0, <1>1, <1>3, PlanFacts
<1>5. k[4] \in Counted(i)  BY <1>1, <1>3 DEF Counted
<1>6. sold[k[4]] \in BOOLEAN  BY <1>0, <1>4 DEF ManagerTypeOK
<1>7. /\ Len(bids) \in Nat /\ DOMAIN bids = 1 .. Len(bids) /\ args.max \in Nat
      /\ NumWinners \in Nat /\ NumWinners <= Len(bids) /\ NumWinners <= args.max
  BY <1>0, NumWinnersType
<1>8. i \in Nat /\ i < NumWinners /\ i < args.max /\ i < Len(bids)  BY <1>7
<1>9. PICK paid \in Nat : paid = payouts[k].paid
  BY <1>0, <1>1 DEF ManagerTypeOK, PayoutTicket
<1>10. PICK weight \in Nat : weight = Weight(k[4], k[3], sold[k[4]])
  BY <1>0, <1>3, <1>4, <1>6, WeightType
<1>11. PICK n \in Nat, q \in Nat : n = Due(tracker, i) /\ q = Basis * Basis
  <2>1. tracker \in Ranges  BY <1>0 DEF ManagerTypeOK, Ranges
  <2>2. Due(tracker, i) \in Nat  BY <1>8, <2>1, CumulativeNext
  <2> QED BY <2>2 DEF Basis
<1>12. PICK a \in Nat : a = BidAmount(i)
  <2>1. \A j \in DOMAIN bids : bids[j].amount \in Nat
    BY <1>0, ListBasics DEF ManagerTypes, AuctionInv
  <2> QED BY <1>7, <1>8, <2>1 DEF BidAmount
<1>13. n * q * paid <= a * weight
  <2>1. PaidPart(k)  BY <1>1, <1>2, <1>8 DEF PayoutBacked
  <2>2. CASE paid = 0
    <3>1. n * q * 0 = 0 /\ a * weight \in Nat  BY TimesNat
    <3> QED BY <2>2, <3>1
  <2>3. CASE paid # 0
    <3>1. PICK v \in Bid :
            /\ BidFixed(v, i)
            /\ paid * payouts[k].shared * (Basis * Basis)
                 <= v.amount * Weight(k[4], k[3], payouts[k].sold)
      BY <1>1, <1>9, <2>1, <2>3 DEF PaidPart
    <3>2. v.amount = a
      <4>1. PICK j \in DOMAIN bids : bids[j] = v /\ Len(bids) - j = i  BY <3>1 DEF BidFixed
      <4>2. j = Len(bids) - i  BY <1>7, <1>8, <4>1
      <4>3. args.kind # "OpenEdition"  BY <1>8 DEF NumWinners
      <4> QED BY <1>8, <1>12, <4>1, <4>2, <4>3 DEF BidAmount
    <3>3. paid * n * q <= a * weight  BY <1>10, <1>11, <3>1, <3>2
    <3>4. paid * n * q = n * q * paid  OBVIOUS
    <3> QED BY <3>3, <3>4
  <2> QED BY <2>2, <2>3
<1> QED BY <1>3, <1>4, <1>5, <1>6, <1>9, <1>10, <1>11, <1>12, <1>13

LEMMA BidCovers ==
  ASSUME PaidInv, NEW i \in 0 .. NumWinners - 1, NEW item,
         \A k \in PayoutsFor(i, item) : /\ payouts[k].sold = sold[k[4]]
                                        /\ payouts[k].shared = Due(tracker, i)
  PROVE  PaidFor(i, item) <= BidAmount(i)
<1> DEFINE P == PayoutsFor(i, item)
           T == Counted(i)
           paid == [k \in P |-> payouts[k].paid]
           weight == [k \in P |-> Weight(k[4], k[3], sold[k[4]])]
           whole == [x \in T |-> Basis * Basis]
           box == [k \in P |-> k[4]]
<1>0. ManagerTypes /\ ManagerTypeOK /\ plan \in Plans /\ TrackerCounts
  BY DEF PaidInv, ClaimsInv, ManagerTypes, ManagerTypeOK
<1>1. IsFiniteSet(P)
  <2>1. P \subseteq DOMAIN payouts  BY DEF PayoutsFor
  <2> QED BY <2>1, FS_Subset DEF PaidInv, PayoutsBacked
<1>2. IsFiniteSet(T) /\ T \subseteq Boxes  BY <1>0, CountedFinite
<1>3. i \in Nat  BY <1>0, NumWinnersType
<1>4. PICK n \in Nat, q \in Nat : /\ n = Due(tracker, i) /\ n = Cardinality(T)
                                  /\ q = Basis * Basis /\ q > 0
  <2>1. Cardinality(T) \in Nat  BY <1>2, FS_CardinalityType
  <2>2. Due(tracker, i) = Cardinality(T)  BY <1>0, <1>3 DEF TrackerCounts
  <2> QED BY <2>1, <2>2 DEF Basis
<1>5. PICK a \in Nat : a = BidAmount(i)
  <2>1. /\ Len(bids) \in Nat /\ DOMAIN bids = 1 .. Len(bids)
        /\ \A j \in DOMAIN bids : bids[j].amount \in Nat
    BY <1>0, ListBasics DEF ManagerTypes, AuctionInv
  <2> QED BY <1>3, <2>1 DEF BidAmount
<1>6. ASSUME NEW k \in P
      PROVE  /\ k = <<i, item, k[3], k[4]>> /\ k[3] \in Nat \cup {None}
             /\ k[4] \in T /\ k[4] \in Boxes /\ sold[k[4]] \in BOOLEAN
             /\ HasPayee(k[3], k[4]) /\ paid[k] \in Nat /\ weight[k] \in Nat
             /\ n * q * paid[k] <= a * weight[k]
  <2>1. /\ k = <<i, item, k[3], k[4]>> /\ k[3] \in Nat \cup {None}
        /\ k[4] \in T /\ k[4] \in Boxes /\ sold[k[4]] \in BOOLEAN
        /\ HasPayee(k[3], k[4]) /\ payouts[k].paid \in Nat
        /\ Due(tracker, i) * (Basis * Basis) * payouts[k].paid
             <= BidAmount(i) * Weight(k[4], k[3], sold[k[4]])
    BY PayoutOfPlace
  <2>2. Weight(k[4], k[3], sold[k[4]]) \in Nat  BY <1>0, <2>1, WeightType
  <2>3. n * q * paid[k] <= a * weight[k]  BY <1>4, <1>5, <2>1
  <2> QED BY <2>1, <2>2, <2>3
<1>7. PaidFor(i, item) = SumFunctionOnSet(paid, P)  BY DEF PaidFor
<1>8. ASSUME NEW x \in T PROVE SumFunctionOnSet(weight, {k \in P : box[k] = x}) <= whole[x]
  <2> DEFINE K == {k \in P : box[k] = x}
  <2>1. IsFiniteSet(K)  BY <1>1, FS_Subset
  <2>2. x \in Boxes  BY <1>2
  <2>3. sold[x] \in BOOLEAN  BY <1>0, <2>2 DEF ManagerTypeOK
  <2>4. ASSUME NEW k \in K
        PROVE  /\ k = <<i, item, k[3], x>> /\ k[3] \in Nat \cup {None} /\ HasPayee(k[3], x)
               /\ weight[k] = Weight(x, k[3], sold[x])
    <3>1. k \in P /\ k[4] = x  OBVIOUS
    <3> QED BY <1>6, <3>1
  <2> HIDE DEF K, weight
  <2>5. PICK h \in BOOLEAN : h = sold[x]  BY <2>3
  <2>6. \A k \in K : PayeeOf(k, i, item, x) /\ weight[k] = Weight(x, k[3], h)
    BY <2>4, <2>5 DEF PayeeOf
  <2>7. SumFunctionOnSet(weight, K) <= Basis * Basis
    BY <1>0, <2>1, <2>2, <2>6, BoxWeights
  <2> QED BY <2>7 DEF K
<1>9. /\ \A k \in P : box[k] \in T /\ paid[k] \in Nat /\ weight[k] \in Nat
      /\ \A x \in T : whole[x] = q
  BY <1>4, <1>6
<1>10. \A k \in P : paid[k] \in Int /\ weight[k] \in Int /\ n * q * paid[k] <= a * weight[k]
  BY <1>6
<1> HIDE DEF P, T, paid, weight, whole, box
<1>11. SumFunctionOnSet(weight, P) <= SumFunctionOnSet(whole, T)
  <2>1. \A x \in T : whole[x] \in Nat  BY <1>9
  <2> QED BY <1>1, <1>2, <1>8, <1>9, <2>1, SumGrouped
<1>12. SumFunctionOnSet(whole, T) = n * q  BY <1>2, <1>4, <1>9, SumConstant
<1>13. PICK s \in Nat, w \in Nat : s = SumFunctionOnSet(paid, P) /\ w = SumFunctionOnSet(weight, P)
  <2>1. SumFunctionOnSet(paid, P) \in Nat  BY <1>1, <1>9, SumNat
  <2>2. SumFunctionOnSet(weight, P) \in Nat  BY <1>1, <1>9, SumNat
  <2> QED BY <2>1, <2>2
<1>14. PICK parts \in Nat : parts = n * q  BY TimesNat
<1>15. parts * s <= a * w
  <2>1. \A k \in P : paid[k] \in Int /\ weight[k] \in Int /\ parts * paid[k] <= a * weight[k]
    BY <1>10, <1>14
  <2>2. parts \in Int /\ a \in Int  OBVIOUS
  <2>3. parts * SumFunctionOnSet(paid, P) <= a * SumFunctionOnSet(weight, P)
    BY <1>1, <2>1, <2>2, SumScaled
  <2> QED BY <1>13, <2>3
<1>16. w <= parts  BY <1>11, <1>12, <1>13, <1>14
<1>17. parts * s <= a * parts
  <2>1. a * w <= a * parts  BY <1>16, TimesMonotone
  <2>2. parts * s \in Nat /\ a * w \in Nat /\ a * parts \in Nat  BY TimesNat
  <2> QED BY <1>15, <2>1, <2>2
<1>18. CASE n = 0
  <2>1. T = {}  BY <1>2, <1>4, <1>18, FS_EmptySet
  <2>2. P = {}  BY <1>9, <2>1
  <2>3. SumFunctionOnSet(paid, P) = 0  BY <2>2, SumEmpty
  <2> QED BY <1>5, <1>7, <2>3
<1>19. CASE n > 0
  <2>1. parts > 0
    <3>1. n * 1 <= n * q  BY <1>4, TimesMonotone
    <3> QED BY <1>14, <1>19, <3>1
  <2>2. s <= a  BY <1>17, <2>1, Cancelled
  <2> QED BY <1>5, <1>7, <1>13, <2>2
<1> QED BY <1>4, <1>18, <1>19

(* What creators and auctioneer are paid for one place under one item index, *)
(* over all boxes, is never more than its bid: the tracker counted a share for every box that  *)
(* gives something to the place, whatever ranges the boxes were cut into,   *)
(* and the rounding of empty_payment_account goes down.                     *)
THEOREM PaidWithinTheBid == ManagerSpec => []PaidWithinBid
<1>1. PaidInv => PaidWithinBid  BY BidCovers DEF PaidWithinBid
<1> QED BY <1>1, PaidInvHolds, PTL
============================================================================
