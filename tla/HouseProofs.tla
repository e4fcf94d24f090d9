---------------------------- MODULE HouseProofs ----------------------------
(***************************************************************************)
(* Proofs about the auction house and the auctioneer on it, for any        *)
(* wallets, houses, scopes, prices and royalties: a listing carries a price *)
(* that its owner agreed to; what a sale takes from the buyer it gives to   *)
(* creators, house and seller; and an auction goes to the highest bid.      *)
(***************************************************************************)
EXTENDS Auctioneer, Sums, TLAPS

(* Instructions that list nothing: trade states can only go, and what an    *)
(* owner signed stays signed.                                               *)
LEMMA FewerListings ==
  ASSUME PricesAgreed, trade_states' \subseteq trade_states, signed \subseteq signed'
  PROVE  PricesAgreed'
BY DEF PricesAgreed

(* The authority sets a price only for a listing given away, which the      *)
(* owner signed for: no repricing of a listing at price zero makes it one.  *)
LEMMA GivenAwayBySeller ==
  ASSUME PricesAgreed, NEW w, NEW price, NEW size, Reprices(w, price, size)
  PROVE  Listing(w, 0, size) \in signed /\ price # 0
<1> DEFINE free == Listing(w, 0, size)
<1>1. free \in trade_states /\ price # 0
  BY DEF Reprices
<1>2. free.account = free.wallet /\ free.price = 0
  BY DEF Listing
<1> HIDE DEF free
<1>3. free \in signed
  BY <1>1, <1>2 DEF PricesAgreed
<1> QED BY <1>1, <1>3 DEF free

LEMMA SellAgreed ==
  ASSUME PricesAgreed, NEW a, NEW l, NEW signs \in BOOLEAN, NEW auth, Sell(a, l, signs, auth)
  PROVE  PricesAgreed'
<1>1. trade_states' = trade_states \cup {l} /\ signed \subseteq signed'
  BY DEF Sell
<1>2. l \in signed' \/ (Listing(l.wallet, 0, l.size) \in signed' /\ l.price # 0)
  <2>1. CASE signs
    BY <2>1 DEF Sell
  <2>2. CASE ~signs
    BY <2>2, <1>1, GivenAwayBySeller DEF Sell
  <2> QED BY <2>1, <2>2
<1> QED BY <1>1, <1>2 DEF PricesAgreed

LEMMA BidAgreed ==
  ASSUME PricesAgreed, NEW a, NEW t, NEW auth, Bid(a, t, auth)
  PROVE  PricesAgreed'
<1>1. trade_states' = trade_states \cup {t} /\ signed \subseteq signed'
      /\ (t.account = t.wallet => t \in signed')
  BY DEF Bid
<1> QED BY <1>1 DEF PricesAgreed

LEMMA AgreedStep == PricesAgreed /\ [Next]_vars => PricesAgreed'
<1> SUFFICES ASSUME PricesAgreed, [Next]_vars PROVE PricesAgreed'
  OBVIOUS
<1>1. ASSUME NEW a \in BOOLEAN, NEW auth \in BOOLEAN, NEW signs \in BOOLEAN, NEW l \in Listings,
             Sell(a, l, signs, auth)
      PROVE  PricesAgreed'
  BY <1>1, SellAgreed
<1>2. ASSUME NEW a \in BOOLEAN, NEW auth \in BOOLEAN, NEW t \in Bids, Bid(a, t, auth)
      PROVE  PricesAgreed'
  BY <1>2, BidAgreed
<1>3. ASSUME NEW a \in BOOLEAN, NEW auth \in BOOLEAN, NEW signs \in BOOLEAN,
             NEW ts \in trade_states, NEW o \in Wallets, Cancel(a, ts, o, signs, auth)
      PROVE  PricesAgreed'
  BY <1>3, FewerListings DEF Cancel
<1>4. ASSUME NEW a \in BOOLEAN, NEW auth \in BOOLEAN, NEW ss \in BOOLEAN, NEW bs \in BOOLEAN,
             NEW partial \in BOOLEAN, NEW l \in trade_states, NEW t \in trade_states,
             ExecuteSale(a, l, t, partial, ss, bs, auth)
      PROVE  PricesAgreed'
  <2>1. signed' = signed /\ trade_states' \subseteq trade_states
    BY <1>4 DEF ExecuteSale
  <2> QED BY <2>1, FewerListings
<1>5. ASSUME UNCHANGED <<trade_states, signed>> PROVE PricesAgreed'
  BY <1>5, FewerListings
<1>6. ASSUME NEW c \in Houses, CreateHouse(c) \/ UpdateHouse(c) PROVE PricesAgreed'
  BY <1>5, <1>6 DEF CreateHouse, UpdateHouse
<1>7. ASSUME NEW sc \in ScopeChoices, DelegateAuctioneer(sc) \/ UpdateAuctioneer(sc)
      PROVE  PricesAgreed'
  BY <1>5, <1>7 DEF DelegateAuctioneer, UpdateAuctioneer
<1>8. ASSUME NEW n \in Amounts, NEW w \in Wallets, NEW a \in BOOLEAN, NEW auth \in BOOLEAN,
             NEW signs \in BOOLEAN,
             \/ Deposit(a, w, n, auth)
             \/ Withdraw(a, w, n, signs, auth)
      PROVE  PricesAgreed'
  BY <1>5, <1>8 DEF Deposit, Withdraw, Refund
<1>9. ASSUME NEW w \in Wallets, CloseEscrow(w) PROVE PricesAgreed'
  BY <1>5, <1>9 DEF CloseEscrow, Refund
<1>10. ASSUME NEW n \in Amounts, WithdrawFromTreasury(n) PROVE PricesAgreed'
  BY <1>5, <1>10 DEF WithdrawFromTreasury
<1>11. ASSUME NEW w \in Wallets, NEW v \in Wallets, NEW n \in Amounts, Move(w, v, n)
       PROVE  PricesAgreed'
  BY <1>5, <1>11 DEF Move
<1>12. CASE UNCHANGED vars
  BY <1>5, <1>12 DEF vars
<1> QED BY <1>1, <1>2, <1>3, <1>4, <1>6, <1>7, <1>8, <1>9, <1>10, <1>11, <1>12 DEF Next

(* Whatever is listed, repriced by the house, cancelled, bid for and sold,  *)
(* directly or by the auctioneer, no listing carries a price that its owner *)
(* neither signed for nor left to the house.                                *)
THEOREM ListedAtAgreedPrice == Spec => []PricesAgreed
<1>1. Init => PricesAgreed
  BY DEF Init, PricesAgreed
<1> QED BY <1>1, AgreedStep, PTL DEF Spec
-----------------------------------------------------------------------------
(* What a sale pays out.                                                    *)

(* A percentage or a number of basis points of an amount is a natural       *)
(* number.                                                                  *)
LEMMA PartNat ==
  ASSUME NEW a \in Nat, NEW b \in Nat, NEW d \in Nat \ {0}
  PROVE  (a * b) \div d \in Nat
<1>1. PICK n : n = a * b
  OBVIOUS
<1>2. n \in Nat
  BY <1>1
<1>3. n \div d \in Nat
  BY <1>2
<1> QED BY <1>1, <1>3

LEMMA PointsNat == BasisPoints \in Nat \ {0} /\ \A n \in 0 .. BasisPoints : n \in Nat
BY DEF BasisPoints

(* The fees are natural numbers, and with the seller's share they make up   *)
(* the price.                                                               *)
LEMMA SharesOfPrice ==
  ASSUME house \in HouseSettings, NEW price \in Nat
  PROVE  /\ CreatorsFee(price) \in Nat /\ HouseFee(price) \in Nat
         /\ SellerShare(price) \in Int
         /\ CreatorsFee(price) + HouseFee(price) + SellerShare(price) = price
<1>1. HouseFee(price) \in Nat
  <2>1. house.seller_fee_basis_points \in Nat
    BY PointsNat DEF HouseSettings
  <2> QED BY <2>1, PointsNat, PartNat DEF HouseFee
<1>2. Royalty(price) \in Nat
  <2>1. royalty \in Nat
    BY HouseAssumption, PointsNat
  <2> QED BY <2>1, PointsNat, PartNat DEF Royalty
<1>3. CreatorsFee(price) \in Nat
  <2> DEFINE f == [c \in Creators |-> (share[c] * Royalty(price)) \div 100]
  <2>1. IsFiniteSet(Creators) /\ \A c \in Creators : share[c] \in Nat
    BY HouseAssumption
  <2>2. \A c \in Creators : (share[c] * Royalty(price)) \div 100 \in Nat
    BY <1>2, <2>1, PartNat
  <2>3. DOMAIN f = Creators /\ \A c \in Creators : f[c] \in Nat
    BY <2>2
  <2> HIDE DEF f
  <2>4. SumFunctionOnSet(f, Creators) \in Nat
    BY <2>1, <2>3, SumNat
  <2>5. SumFunction(f) \in Nat
    BY <2>3, <2>4 DEF SumFunction
  <2> QED BY <2>5 DEF CreatorsFee, f
<1> QED BY <1>1, <1>2, <1>3 DEF SellerShare

-----------------------------------------------------------------------------
(* Types.                                                                   *)
LEMMA HouseFacts ==
  /\ Any \notin Wallets /\ None \notin Nat /\ None \notin HouseSettings
  /\ Houses \subseteq HouseSettings /\ Listings \subseteq TradeState /\ Bids \subseteq TradeState
  /\ Amounts \subseteq Nat /\ MaxPrice \in Nat
  /\ \A sc \in ScopeChoices : sc \subseteq Scopes
  /\ \A l \in Listings : l.account = l.wallet
BY HouseAssumption

LEMMA HouseTypesInit == Init => TypeOK
<1> SUFFICES ASSUME Init PROVE TypeOK
  OBVIOUS
<1>1. initialTokens \in [Wallets -> Nat] /\ initialMoney \in [Wallets -> Nat]
  BY HouseAssumption
<1> QED BY <1>1 DEF Init, TypeOK

LEMMA TradeStateFields ==
  ASSUME NEW t \in TradeState
  PROVE  t.wallet \in Wallets /\ t.account \in Wallets \cup {Any} /\ t.price \in Nat /\ t.size \in Nat
BY DEF TradeState

LEMMA RefundTypes ==
  ASSUME TypeOK, NEW w \in Wallets, NEW n \in Nat, Refund(w, n)
  PROVE  /\ TypeOK' /\ money' = [money EXCEPT ![w] = money[w] + n]
         /\ escrow' = [escrow EXCEPT ![w] = escrow[w] - n]
<1>1. /\ money' = [money EXCEPT ![w] = money[w] + n]
      /\ escrow' = [escrow EXCEPT ![w] = escrow[w] - n] /\ n <= escrow[w]
      /\ UNCHANGED <<houseVars, trade_states, tokenVars, treasury, royalties, signed>>
  BY DEF Refund
<1>2. escrow[w] - n \in Nat /\ money[w] + n \in Nat
  BY <1>1 DEF TypeOK
<1>3. TypeOK'
  BY <1>1, <1>2 DEF TypeOK, houseVars, tokenVars
<1> QED BY <1>1, <1>3

LEMMA DepositTypes ==
  ASSUME TypeOK, NEW a, NEW w \in Wallets, NEW n \in Nat, NEW auth, Deposit(a, w, n, auth)
  PROVE  TypeOK' /\ escrow' = [escrow EXCEPT ![w] = escrow[w] + n]
<1>1. /\ money' = [money EXCEPT ![w] = money[w] - n] /\ n <= money[w]
      /\ escrow' = [escrow EXCEPT ![w] = escrow[w] + n]
      /\ UNCHANGED <<houseVars, trade_states, tokenVars, treasury, royalties, signed>>
  BY DEF Deposit
<1>2. escrow[w] + n \in Nat /\ money[w] - n \in Nat
  BY <1>1 DEF TypeOK
<1>3. TypeOK'
  BY <1>1, <1>2 DEF TypeOK, houseVars, tokenVars
<1> QED BY <1>1, <1>3

LEMMA BidTypes ==
  ASSUME TypeOK, NEW a, NEW t \in TradeState, NEW auth, Bid(a, t, auth)
  PROVE  /\ TypeOK' /\ Missing(t.wallet, t.price) \in Nat
         /\ escrow' = [escrow EXCEPT ![t.wallet] = escrow[t.wallet] + Missing(t.wallet, t.price)]
<1>1. PICK n : n = Missing(t.wallet, t.price)
  OBVIOUS
<1>2. t.wallet \in Wallets /\ t.price \in Nat
  BY TradeStateFields
<1>3. n \in Nat
  BY <1>1, <1>2 DEF Missing, TypeOK
<1>4. /\ money' = [money EXCEPT ![t.wallet] = money[t.wallet] - n] /\ n <= money[t.wallet]
      /\ escrow' = [escrow EXCEPT ![t.wallet] = escrow[t.wallet] + n]
      /\ UNCHANGED <<houseVars, tokenVars, treasury, royalties>>
      /\ trade_states' = trade_states \cup {t}
      /\ signed' \in {signed, signed \cup {t}}
  BY <1>1 DEF Bid
<1>5. escrow[t.wallet] + n \in Nat /\ money[t.wallet] - n \in Nat
  BY <1>2, <1>3, <1>4 DEF TypeOK
<1>6. TypeOK'
  BY <1>2, <1>4, <1>5 DEF TypeOK, houseVars, tokenVars
<1> QED BY <1>1, <1>3, <1>4, <1>6

LEMMA SellTypes ==
  ASSUME TypeOK, NEW a, NEW l \in TradeState, NEW signs \in BOOLEAN, NEW auth, Sell(a, l, signs, auth)
  PROVE  TypeOK'
<1>1. l.wallet \in Wallets /\ l.size \in Nat
  BY TradeStateFields
<1>2. /\ approved' \in {approved, [approved EXCEPT ![l.wallet] = l.size]}
      /\ signed' \in {signed, signed \cup {l}}
      /\ trade_states' = trade_states \cup {l} /\ UNCHANGED <<houseVars, tokens, moneyVars>>
  BY DEF Sell
<1>3. approved' \in [Wallets -> Nat \cup {None}]
  BY <1>1, <1>2 DEF TypeOK
<1> QED BY <1>1, <1>2, <1>3 DEF TypeOK, houseVars, moneyVars

LEMMA CancelTypes ==
  ASSUME TypeOK, NEW a, NEW ts \in trade_states, NEW o \in Wallets, NEW signs \in BOOLEAN, NEW auth,
         Cancel(a, ts, o, signs, auth)
  PROVE  TypeOK'
<1>1. /\ approved' \in {approved, [approved EXCEPT ![o] = None]}
      /\ trade_states' \subseteq trade_states /\ UNCHANGED <<houseVars, tokens, moneyVars, signed>>
  BY DEF Cancel
<1>2. approved' \in [Wallets -> Nat \cup {None}]
  BY <1>1 DEF TypeOK
<1> QED BY <1>1, <1>2 DEF TypeOK, houseVars, moneyVars

LEMMA MoveTypes ==
  ASSUME TypeOK, NEW w \in Wallets, NEW v \in Wallets, NEW n \in Nat, Move(w, v, n)
  PROVE  TypeOK'
<1>1. /\ tokens' = [tokens EXCEPT ![w] = tokens[w] - n, ![v] = tokens[v] + n] /\ n <= tokens[w] /\ w # v
      /\ UNCHANGED <<houseVars, trade_states, approved, moneyVars, signed>>
  BY DEF Move
<1>2. tokens[w] - n \in Nat /\ tokens[v] + n \in Nat
  BY <1>1 DEF TypeOK
<1>3. tokens' \in [Wallets -> Nat]
  BY <1>1, <1>2 DEF TypeOK
<1> QED BY <1>1, <1>3 DEF TypeOK, houseVars, moneyVars

(* A sale: the seller is not the buyer, who has the price of the bid. *)
LEMMA SaleParties ==
  ASSUME TypeOK, NEW a, NEW l \in trade_states, NEW t \in trade_states, NEW partial \in BOOLEAN,
         NEW ss, NEW bs, NEW auth, ExecuteSale(a, l, t, partial, ss, bs, auth)
  PROVE  /\ l.wallet # t.wallet /\ l.account = l.wallet /\ t.account \in {l.wallet, Any}
         /\ l.wallet \in Wallets /\ t.wallet \in Wallets /\ t.price \in Nat /\ t.size \in Nat
         /\ t.price <= escrow[t.wallet] /\ t.size <= tokens[l.wallet]
<1>1. l \in TradeState /\ t \in TradeState
  BY DEF TypeOK
<1>2. l.wallet \in Wallets /\ t.wallet \in Wallets /\ t.price \in Nat /\ t.size \in Nat
  BY <1>1, TradeStateFields
<1>3. /\ l.wallet # t.wallet /\ l.account = l.wallet /\ t.account \in {l.wallet, Any}
      /\ t.price <= escrow[t.wallet] /\ t.size <= tokens[l.wallet]
  BY DEF ExecuteSale
<1> QED BY <1>2, <1>3

(* The price is divided between the creators, the house and the seller. *)
LEMMA SaleSplit ==
  ASSUME TypeOK, NEW a, NEW l \in trade_states, NEW t \in trade_states, NEW partial \in BOOLEAN,
         NEW ss, NEW bs, NEW auth, ExecuteSale(a, l, t, partial, ss, bs, auth),
         NEW c, NEW h, NEW s,
         c = CreatorsFee(t.price), h = HouseFee(t.price), s = SellerShare(t.price)
  PROVE  /\ c \in Nat /\ h \in Nat /\ s \in Nat /\ c + h + s = t.price
         /\ royalties' = royalties + c /\ treasury' = treasury + h
<1>1. house \in HouseSettings /\ t.price \in Nat
  BY SaleParties DEF ExecuteSale, TypeOK
<1>2. c \in Nat /\ h \in Nat /\ s \in Int /\ c + h + s = t.price
  BY <1>1, SharesOfPrice
<1>3. s >= 0 /\ royalties' = royalties + c /\ treasury' = treasury + h
  BY DEF ExecuteSale
<1> QED BY <1>2, <1>3

(* The buyer pays the price to the last lamport. *)
LEMMA SaleEscrow ==
  ASSUME TypeOK, NEW a, NEW l \in trade_states, NEW t \in trade_states, NEW partial \in BOOLEAN,
         NEW ss, NEW bs, NEW auth, ExecuteSale(a, l, t, partial, ss, bs, auth)
  PROVE  escrow' = [escrow EXCEPT ![t.wallet] = escrow[t.wallet] - t.price]
<1>1. PICK c, h, s : c = CreatorsFee(t.price) /\ h = HouseFee(t.price) /\ s = SellerShare(t.price)
  OBVIOUS
<1>2. c \in Nat /\ h \in Nat /\ s \in Nat /\ c + h + s = t.price
  BY <1>1, SaleSplit
<1>3. escrow' = [escrow EXCEPT ![t.wallet] = escrow[t.wallet] - c - h - s]
  BY <1>1 DEF ExecuteSale
<1>4. escrow[t.wallet] \in Nat
  BY SaleParties DEF TypeOK
<1>5. escrow[t.wallet] - c - h - s = escrow[t.wallet] - t.price
  BY <1>2, <1>4
<1> QED BY <1>3, <1>5

LEMMA SaleSeller ==
  ASSUME TypeOK, NEW a, NEW l \in trade_states, NEW t \in trade_states, NEW partial \in BOOLEAN,
         NEW ss, NEW bs, NEW auth, ExecuteSale(a, l, t, partial, ss, bs, auth)
  PROVE  money' = [money EXCEPT ![l.wallet] = money[l.wallet] + SellerShare(t.price)]
BY DEF ExecuteSale

LEMMA SaleTokens ==
  ASSUME TypeOK, NEW a, NEW l \in trade_states, NEW t \in trade_states, NEW partial \in BOOLEAN,
         NEW ss, NEW bs, NEW auth, ExecuteSale(a, l, t, partial, ss, bs, auth)
  PROVE  tokens' = [tokens EXCEPT ![l.wallet] = tokens[l.wallet] - t.size,
                                  ![t.wallet] = tokens[t.wallet] + t.size]
BY DEF ExecuteSale

LEMMA SaleTypes ==
  ASSUME TypeOK, NEW a, NEW l \in trade_states, NEW t \in trade_states, NEW partial \in BOOLEAN,
         NEW ss, NEW bs, NEW auth, ExecuteSale(a, l, t, partial, ss, bs, auth)
  PROVE  TypeOK'
<1>1. /\ l.wallet # t.wallet /\ l.wallet \in Wallets /\ t.wallet \in Wallets
      /\ t.price \in Nat /\ t.size \in Nat
      /\ t.price <= escrow[t.wallet] /\ t.size <= tokens[l.wallet]
  BY SaleParties
<1>2. escrow' \in [Wallets -> Nat]
  <2>1. escrow[t.wallet] - t.price \in Nat
    BY <1>1 DEF TypeOK
  <2> QED BY <1>1, <2>1, SaleEscrow DEF TypeOK
<1>3. money' \in [Wallets -> Nat] /\ royalties' \in Nat /\ treasury' \in Nat
  <2>1. PICK c, h, s : c = CreatorsFee(t.price) /\ h = HouseFee(t.price) /\ s = SellerShare(t.price)
    OBVIOUS
  <2>2. /\ c \in Nat /\ h \in Nat /\ s \in Nat
        /\ royalties' = royalties + c /\ treasury' = treasury + h
    BY <2>1, SaleSplit
  <2>3. money' = [money EXCEPT ![l.wallet] = money[l.wallet] + s]
    BY <2>1, SaleSeller
  <2>4. money' \in [Wallets -> Nat]
    BY <1>1, <2>2, <2>3 DEF TypeOK
  <2> QED BY <2>2, <2>4 DEF TypeOK
<1>4. tokens' \in [Wallets -> Nat]
  <2>1. tokens[l.wallet] - t.size \in Nat /\ tokens[t.wallet] + t.size \in Nat
    BY <1>1 DEF TypeOK
  <2> QED BY <1>1, <2>1, SaleTokens DEF TypeOK
<1>5. approved' \in [Wallets -> Nat \cup {None}]
  <2>1. PICK left : left = approved[l.wallet] - t.size
    OBVIOUS
  <2>2. approved[l.wallet] # None /\ t.size <= approved[l.wallet]
    BY DEF ExecuteSale
  <2>3. left \in Nat
    BY <1>1, <2>1, <2>2 DEF TypeOK
  <2>4. approved' \in {[approved EXCEPT ![l.wallet] = None], [approved EXCEPT ![l.wallet] = left]}
    BY <2>1 DEF ExecuteSale
  <2> QED BY <2>3, <2>4 DEF TypeOK
<1>6. trade_states' \subseteq trade_states /\ UNCHANGED <<houseVars, signed>>
  BY DEF ExecuteSale
<1> QED BY <1>2, <1>3, <1>4, <1>5, <1>6 DEF TypeOK, houseVars

(* Every step of the house keeps the types of its accounts. *)
LEMMA HouseTypesStep == TypeOK /\ [Next]_vars => TypeOK'
<1> SUFFICES ASSUME TypeOK, [Next]_vars PROVE TypeOK'
  OBVIOUS
<1>1. ASSUME NEW c \in Houses, CreateHouse(c) \/ UpdateHouse(c) PROVE TypeOK'
  BY <1>1, HouseFacts DEF CreateHouse, UpdateHouse, TypeOK, tokenVars, moneyVars
<1>2. ASSUME NEW sc \in ScopeChoices, DelegateAuctioneer(sc) \/ UpdateAuctioneer(sc) PROVE TypeOK'
  BY <1>2, HouseFacts DEF DelegateAuctioneer, UpdateAuctioneer, TypeOK, tokenVars, moneyVars
<1>3. ASSUME NEW n \in Amounts, WithdrawFromTreasury(n) PROVE TypeOK'
  <2>1. n \in Nat
    BY HouseFacts
  <2> QED BY <1>3, <2>1 DEF WithdrawFromTreasury, TypeOK, houseVars, tokenVars
<1>4. ASSUME NEW a \in BOOLEAN, NEW auth \in BOOLEAN, NEW w \in Wallets, NEW n \in Amounts,
             Deposit(a, w, n, auth)
      PROVE  TypeOK'
  BY <1>4, HouseFacts, DepositTypes
<1>5. ASSUME NEW a \in BOOLEAN, NEW auth \in BOOLEAN, NEW signs \in BOOLEAN, NEW w \in Wallets,
             NEW n \in Amounts, Withdraw(a, w, n, signs, auth)
      PROVE  TypeOK'
  BY <1>5, HouseFacts, RefundTypes DEF Withdraw
<1>6. ASSUME NEW w \in Wallets, CloseEscrow(w) PROVE TypeOK'
  <2>1. escrow[w] \in Nat
    BY DEF TypeOK
  <2> QED BY <1>6, <2>1, RefundTypes DEF CloseEscrow
<1>7. ASSUME NEW a \in BOOLEAN, NEW auth \in BOOLEAN, NEW signs \in BOOLEAN, NEW l \in Listings,
             Sell(a, l, signs, auth)
      PROVE  TypeOK'
  BY <1>7, HouseFacts, SellTypes
<1>8. ASSUME NEW a \in BOOLEAN, NEW auth \in BOOLEAN, NEW t \in Bids, Bid(a, t, auth) PROVE TypeOK'
  BY <1>8, HouseFacts, BidTypes
<1>9. ASSUME NEW a \in BOOLEAN, NEW auth \in BOOLEAN, NEW signs \in BOOLEAN,
             NEW ts \in trade_states, NEW o \in Wallets, Cancel(a, ts, o, signs, auth)
      PROVE  TypeOK'
  BY <1>9, CancelTypes
<1>10. ASSUME NEW a \in BOOLEAN, NEW auth \in BOOLEAN, NEW ss \in BOOLEAN, NEW bs \in BOOLEAN,
              NEW partial \in BOOLEAN, NEW l \in trade_states, NEW t \in trade_states,
              ExecuteSale(a, l, t, partial, ss, bs, auth)
       PROVE  TypeOK'
  BY <1>10, SaleTypes
<1>11. ASSUME NEW w \in Wallets, NEW v \in Wallets, NEW n \in Amounts, Move(w, v, n) PROVE TypeOK'
  BY <1>11, HouseFacts, MoveTypes
<1>12. CASE UNCHANGED vars
  BY <1>12 DEF vars, houseVars, tokenVars, moneyVars, TypeOK
<1> QED BY <1>1, <1>2, <1>3, <1>4, <1>5, <1>6, <1>7, <1>8, <1>9, <1>10, <1>11, <1>12 DEF Next

(* Accounts of the house keep their types: neither a sale nor a withdrawal  *)
(* takes more money or more approved tokens than there are.                 *)
THEOREM HouseTypes == Spec => []TypeOK
BY HouseTypesInit, HouseTypesStep, PTL DEF Spec

-----------------------------------------------------------------------------
(* Where the money goes.                                                    *)

(* A refund to a wallet takes from its escrow what the wallet gets. *)
LEMMA RefundSpends ==
  ASSUME TypeOK, NEW w \in Wallets, NEW n \in Nat, Refund(w, n), NEW v \in Wallets, escrow'[v] < escrow[v]
  PROVE  money'[v] = money[v] + (escrow[v] - escrow'[v])
<1>1. /\ money' = [money EXCEPT ![w] = money[w] + n]
      /\ escrow' = [escrow EXCEPT ![w] = escrow[w] - n]
  BY RefundTypes
<1>2. v = w
  BY <1>1 DEF TypeOK
<1> QED BY <1>1, <1>2 DEF TypeOK

(* Which steps take money out of escrows. *)
LEMMA EscrowFalls ==
  ASSUME TypeOK, Next, NEW w \in Wallets, escrow'[w] < escrow[w]
  PROVE  \/ money'[w] = money[w] + (escrow[w] - escrow'[w])
         \/ \E t \in trade_states : /\ t.wallet = w /\ t.price = escrow[w] - escrow'[w]
                                    /\ tokens'[w] = tokens[w] + t.size
<1> DEFINE Goal == \/ money'[w] = money[w] + (escrow[w] - escrow'[w])
                   \/ \E t \in trade_states : /\ t.wallet = w /\ t.price = escrow[w] - escrow'[w]
                                              /\ tokens'[w] = tokens[w] + t.size
<1>1. escrow[w] \in Nat
  BY DEF TypeOK
<1>2. ASSUME UNCHANGED escrow PROVE FALSE
  BY <1>1, <1>2
<1>3. ASSUME NEW v \in Wallets, NEW n \in Nat, escrow' = [escrow EXCEPT ![v] = escrow[v] + n]
      PROVE  FALSE
  BY <1>1, <1>3 DEF TypeOK
<1>4. ASSUME NEW a \in BOOLEAN, NEW auth \in BOOLEAN, NEW v \in Wallets, NEW n \in Amounts,
             Deposit(a, v, n, auth)
      PROVE  FALSE
  BY <1>3, <1>4, HouseFacts, DepositTypes
<1>5. ASSUME NEW a \in BOOLEAN, NEW auth \in BOOLEAN, NEW t \in Bids, Bid(a, t, auth) PROVE FALSE
  <2>1. t \in TradeState /\ t.wallet \in Wallets
    BY HouseFacts, TradeStateFields
  <2> QED BY <1>3, <1>5, <2>1, BidTypes
<1>6. ASSUME NEW v \in Wallets, NEW n \in Nat, Refund(v, n) PROVE Goal
  BY <1>6, RefundSpends
<1>7. ASSUME NEW a \in BOOLEAN, NEW auth \in BOOLEAN, NEW signs \in BOOLEAN, NEW v \in Wallets,
             NEW n \in Amounts, Withdraw(a, v, n, signs, auth)
      PROVE  Goal
  BY <1>6, <1>7, HouseFacts DEF Withdraw
<1>8. ASSUME NEW v \in Wallets, CloseEscrow(v) PROVE Goal
  <2>1. escrow[v] \in Nat
    BY DEF TypeOK
  <2> QED BY <1>6, <1>8, <2>1 DEF CloseEscrow
<1> HIDE DEF Goal
<1>9. ASSUME NEW a \in BOOLEAN, NEW auth \in BOOLEAN, NEW ss \in BOOLEAN, NEW bs \in BOOLEAN,
             NEW partial \in BOOLEAN, NEW l \in trade_states, NEW t \in trade_states,
             ExecuteSale(a, l, t, partial, ss, bs, auth)
      PROVE  Goal
  <2>1. /\ l.wallet # t.wallet /\ t.wallet \in Wallets /\ l.wallet \in Wallets
        /\ t.price \in Nat
    BY <1>9, SaleParties
  <2>5. escrow' = [escrow EXCEPT ![t.wallet] = escrow[t.wallet] - t.price]
    BY <1>9, SaleEscrow
  <2>6. tokens' = [tokens EXCEPT ![l.wallet] = tokens[l.wallet] - t.size,
                                 ![t.wallet] = tokens[t.wallet] + t.size]
    BY <1>9, SaleTokens
  <2>2. w = t.wallet
    BY <1>1, <2>1, <2>5 DEF TypeOK
  <2>3. t.price = escrow[w] - escrow'[w]
    BY <1>1, <2>1, <2>2, <2>5 DEF TypeOK
  <2>4. tokens'[w] = tokens[w] + t.size
    BY <2>1, <2>2, <2>6 DEF TypeOK
  <2> QED BY <2>2, <2>3, <2>4 DEF Goal
<1>10. ASSUME NEW a \in BOOLEAN, NEW auth \in BOOLEAN, NEW signs \in BOOLEAN,
              \/ \E l \in Listings : Sell(a, l, signs, auth)
              \/ \E ts \in trade_states, o \in Wallets : Cancel(a, ts, o, signs, auth)
       PROVE  FALSE
  BY <1>2, <1>10 DEF Sell, Cancel, moneyVars
<1>11. ASSUME \/ \E c \in Houses : CreateHouse(c) \/ UpdateHouse(c)
              \/ \E sc \in ScopeChoices : DelegateAuctioneer(sc) \/ UpdateAuctioneer(sc)
              \/ \E n \in Amounts : WithdrawFromTreasury(n)
              \/ \E v, u \in Wallets, n \in Amounts : Move(v, u, n)
       PROVE  FALSE
  BY <1>2, <1>11 DEF CreateHouse, UpdateHouse, DelegateAuctioneer, UpdateAuctioneer,
                     WithdrawFromTreasury, Move, moneyVars
<1>12. Goal
  BY <1>4, <1>5, <1>7, <1>8, <1>9, <1>10, <1>11 DEF Next
<1> QED BY <1>12 DEF Goal

(* Money leaves an escrow only to its wallet or for the price, to the last  *)
(* lamport, of a bid of that wallet.                                        *)
THEOREM EscrowIsTheBidders == Spec => EscrowSpentOnBids
<1>1. TypeOK /\ [Next]_vars =>
        [\A w \in Wallets : escrow'[w] < escrow[w] =>
           LET spent == escrow[w] - escrow'[w]
           IN \/ money'[w] = money[w] + spent
              \/ \E t \in trade_states :
                   t.wallet = w /\ t.price = spent /\ tokens'[w] = tokens[w] + t.size]_vars
  BY EscrowFalls
<1> QED BY <1>1, HouseTypes, PTL DEF Spec, EscrowSpentOnBids

(* Which steps take tokens from a wallet while an escrow changes. *)
LEMMA TokensAndEscrow ==
  ASSUME TypeOK, Next, NEW s \in Wallets, tokens'[s] < tokens[s], escrow' # escrow
  PROVE  \E a, auth, ss, bs, partial \in BOOLEAN, l, t \in trade_states :
           ExecuteSale(a, l, t, partial, ss, bs, auth)
<1>1. tokens[s] \in Nat
  BY DEF TypeOK
<1>2. ASSUME UNCHANGED tokens PROVE FALSE
  BY <1>1, <1>2
<1>3. ASSUME \/ \E c \in Houses : CreateHouse(c) \/ UpdateHouse(c)
             \/ \E sc \in ScopeChoices : DelegateAuctioneer(sc) \/ UpdateAuctioneer(sc)
             \/ \E n \in Amounts : WithdrawFromTreasury(n)
      PROVE  FALSE
  BY <1>2, <1>3 DEF CreateHouse, UpdateHouse, DelegateAuctioneer, UpdateAuctioneer,
                    WithdrawFromTreasury, tokenVars
<1>4. ASSUME NEW a \in BOOLEAN, NEW auth \in BOOLEAN, NEW signs \in BOOLEAN,
             \/ \E w \in Wallets, n \in Amounts : \/ Deposit(a, w, n, auth)
                                                  \/ Withdraw(a, w, n, signs, auth)
             \/ \E w \in Wallets : CloseEscrow(w)
             \/ \E l \in Listings : Sell(a, l, signs, auth)
             \/ \E t \in Bids : Bid(a, t, auth)
             \/ \E ts \in trade_states, o \in Wallets : Cancel(a, ts, o, signs, auth)
      PROVE  FALSE
  BY <1>2, <1>4 DEF Deposit, Withdraw, CloseEscrow, Refund, Sell, Bid, Cancel, tokenVars
<1>5. ASSUME NEW w \in Wallets, NEW v \in Wallets, NEW n \in Amounts, Move(w, v, n) PROVE FALSE
  BY <1>5 DEF Move, moneyVars
<1> QED BY <1>3, <1>4, <1>5 DEF Next

(* What a sale is, for the seller: the tokens of the bid against its price. *)
LEMMA SoldAsListed ==
  ASSUME TypeOK, Next, NEW s \in Wallets, tokens'[s] < tokens[s], escrow' # escrow,
         NEW sold, sold = tokens[s] - tokens'[s],
         NEW paid, paid = (money'[s] - money[s]) + (treasury' - treasury) + (royalties' - royalties)
  PROVE  \E l \in trade_states :
           /\ l.account = s /\ l.wallet = s
           /\ \/ sold = l.size /\ l.price \in {paid, MaxPrice}
              \/ paid = sold * (l.price \div l.size)
<1>1. PICK a, auth, ss, bs, partial \in BOOLEAN, l, t \in trade_states :
             ExecuteSale(a, l, t, partial, ss, bs, auth)
  BY TokensAndEscrow
<1>2. /\ l.wallet # t.wallet /\ l.account = l.wallet
      /\ l.wallet \in Wallets /\ t.wallet \in Wallets /\ t.price \in Nat /\ t.size \in Nat
  BY <1>1, SaleParties
<1>3. tokens' = [tokens EXCEPT ![l.wallet] = tokens[l.wallet] - t.size,
                               ![t.wallet] = tokens[t.wallet] + t.size]
  BY <1>1, SaleTokens
<1>4. s = l.wallet /\ sold = t.size
  <2>1. tokens[s] \in Nat /\ tokens[t.wallet] \in Nat
    BY <1>2 DEF TypeOK
  <2>2. s = l.wallet
    BY <1>2, <1>3, <2>1 DEF TypeOK
  <2>3. tokens'[s] = tokens[s] - t.size
    BY <1>2, <1>3, <2>2 DEF TypeOK
  <2> QED BY <1>2, <2>1, <2>2, <2>3
<1>5. paid = t.price
  <2>1. PICK c, h, n : c = CreatorsFee(t.price) /\ h = HouseFee(t.price) /\ n = SellerShare(t.price)
    OBVIOUS
  <2>2. /\ c \in Nat /\ h \in Nat /\ n \in Nat /\ c + h + n = t.price
        /\ royalties' = royalties + c /\ treasury' = treasury + h
    BY <1>1, <2>1, SaleSplit
  <2>3. money' = [money EXCEPT ![l.wallet] = money[l.wallet] + n]
    BY <1>1, <2>1, SaleSeller
  <2>4. money[s] \in Nat /\ money'[s] = money[s] + n
    BY <1>2, <1>4, <2>3 DEF TypeOK
  <2>5. royalties \in Nat /\ treasury \in Nat
    BY DEF TypeOK
  <2> QED BY <1>2, <2>2, <2>4, <2>5
<1>6. IF partial THEN PartOfLot(l, t) ELSE WholeLot(a, l, t)
  BY <1>1 DEF ExecuteSale
<1>7. \/ sold = l.size /\ l.price \in {paid, MaxPrice}
      \/ paid = sold * (l.price \div l.size)
  <2>1. CASE ~partial
    BY <1>4, <1>5, <1>6, <2>1 DEF WholeLot
  <2>2. CASE partial
    <3>1. l.size \in Nat /\ l.price \in Nat /\ l.size > 0 /\ (l.price \div l.size) * t.size = t.price
      <4>1. l \in TradeState
        BY DEF TypeOK
      <4> QED BY <1>6, <2>2, <4>1, TradeStateFields DEF PartOfLot
    <3>2. PICK unit : unit = l.price \div l.size
      OBVIOUS
    <3>3. unit \in Int
      BY <3>1, <3>2
    <3>4. unit * t.size = t.size * unit
      BY <1>2, <3>3
    <3> QED BY <1>4, <1>5, <3>1, <3>2, <3>4
  <2> QED BY <2>1, <2>2
<1> QED BY <1>2, <1>4, <1>7

(* Tokens are sold only at the price of the lot or of the unit that their   *)
(* owner's listing says, which creators, house and owner get in full.       *)
THEOREM SoldAtListedPrice == Spec => SalesAsListed
<1>1. TypeOK /\ [Next]_vars =>
        [\A s \in Wallets : (tokens'[s] < tokens[s] /\ money'[s] >= money[s] /\ escrow' # escrow) =>
           LET sold == tokens[s] - tokens'[s]
               paid == (money'[s] - money[s]) + (treasury' - treasury) + (royalties' - royalties)
           IN \E l \in trade_states :
                /\ l.account = s /\ l.wallet = s
                /\ \/ sold = l.size /\ l.price \in {paid, MaxPrice}
                   \/ paid = sold * (l.price \div l.size)]_vars
  BY SoldAsListed
<1> QED BY <1>1, HouseTypes, PTL DEF Spec, SalesAsListed

-----------------------------------------------------------------------------
(* The auctioneer.                                                          *)

(* Its instructions are steps of the house. *)
LEMMA AuctioneerIsHouse == AuctioneerNext => [Next]_vars
<1> SUFFICES ASSUME AuctioneerNext PROVE [Next]_vars
  OBVIOUS
<1>1. CASE Direct
  BY <1>1 DEF Direct, Next
<1>2. ASSUME NEW l \in Listings, NEW c \in Configs, NEW auth \in BOOLEAN, AuctioneerSell(l, c, auth)
      PROVE  Next
  BY <1>2 DEF AuctioneerSell, Next
<1>3. ASSUME NEW t \in Bids, AuctioneerBuy(t) PROVE Next
  BY <1>3 DEF AuctioneerBuy, Next
<1>4. ASSUME NEW ts \in trade_states, NEW o \in Wallets, NEW signs \in BOOLEAN, NEW auth \in BOOLEAN,
             AuctioneerCancel(ts, o, signs, auth)
      PROVE  Next
  BY <1>4 DEF AuctioneerCancel, Next
<1>5. ASSUME NEW w \in Wallets, NEW n \in Amounts, NEW signs \in BOOLEAN, NEW auth \in BOOLEAN,
             AuctioneerDeposit(w, n) \/ AuctioneerWithdraw(w, n, signs, auth)
      PROVE  Next
  BY <1>5 DEF AuctioneerDeposit, AuctioneerWithdraw, Next
<1>6. ASSUME NEW l \in trade_states, NEW t \in trade_states, NEW ss \in BOOLEAN, NEW bs \in BOOLEAN,
             NEW auth \in BOOLEAN, AuctioneerExecuteSale(l, t, ss, bs, auth)
      PROVE  Next
  BY <1>6 DEF AuctioneerExecuteSale, Next
<1>7. CASE Tick
  BY <1>7 DEF Tick
<1> QED BY <1>1, <1>2, <1>3, <1>4, <1>5, <1>6, <1>7 DEF AuctioneerNext

(* The auctioneer implements the house: whatever it does is something the   *)
(* house does, so that all that holds of the house holds with it.           *)
THEOREM AuctioneerKeepsHouseRules == AuctioneerSpec => Spec
<1>1. AuctioneerInit => Init
  BY DEF AuctioneerInit
<1>2. [AuctioneerNext]_auctioneerVars => [Next]_vars
  BY AuctioneerIsHouse DEF auctioneerVars
<1> QED BY <1>1, <1>2, PTL DEF AuctioneerSpec, Spec
(* The highest bid of a lot is one of those it took, on that lot, and none  *)
(* was higher.                                                              *)
Offered == \A lot \in Lots : \A u \in offers[lot] : u.price <= highest_bid[lot].amount
Highest(lot, ts) ==
  ts.account = lot[1] /\ ts.size = lot[2] /\ ts.price = highest_bid[lot].amount /\ ts \in offers[lot]
BidsOnLots ==
  \A lot \in Lots :
    highest_bid[lot].buyer_trade_state # None => Highest(lot, highest_bid[lot].buyer_trade_state)

(* A lot is only listed where the house has an auctioneer.                  *)
Delegated ==
  /\ \A lot \in Lots : listing_config[lot] # None => has_auctioneer
  /\ has_auctioneer => scopes \in ScopeChoices

LotTyped == LotsOK /\ offers \in [Lots -> SUBSET TradeState]
LotInv == LotTyped /\ Offered /\ BidsOnLots /\ Delegated

LEMMA LotFacts ==
  ASSUME NEW lot \in Lots
  PROVE  lot[1] \in Wallets /\ lot[2] \in Nat /\ lot = <<lot[1], lot[2]>> /\ Any \notin Wallets
<1>1. PICK l \in Listings : lot = <<l.wallet, l.size>>
  BY DEF Lots
<1>2. l.wallet \in Wallets /\ l.size \in Nat
  BY HouseFacts, TradeStateFields
<1> QED BY <1>1, <1>2, HouseFacts

LEMMA LotInvInit == AuctioneerInit => LotInv
<1> SUFFICES ASSUME AuctioneerInit PROVE LotInv
  OBVIOUS
<1>1. NoBid \in HighestBid /\ NoBid.buyer_trade_state = None
  BY DEF NoBid, HighestBid
<1>2. TypeOK
  BY HouseTypesInit DEF AuctioneerInit
<1>3. now \in 0 .. MaxTime
  BY AuctioneerAssumption DEF AuctioneerInit
<1>4. /\ listing_config \in [Lots -> Configs \cup {None}]
      /\ end_time \in [Lots -> Int] /\ highest_bid \in [Lots -> HighestBid]
      /\ offers \in [Lots -> SUBSET TradeState]
  BY <1>1 DEF AuctioneerInit
<1>5. Offered /\ BidsOnLots /\ Delegated
  BY <1>1 DEF AuctioneerInit, Init, Offered, BidsOnLots, Delegated
<1> QED BY <1>2, <1>3, <1>4, <1>5 DEF LotInv, LotTyped, LotsOK

(* What the house does to itself keeps the scopes among those given. *)
LEMMA ScopesGiven ==
  ASSUME Delegated, Next
  PROVE  /\ has_auctioneer => has_auctioneer'
         /\ has_auctioneer' => scopes' \in ScopeChoices
<1> DEFINE Goal == /\ has_auctioneer => has_auctioneer'
                   /\ has_auctioneer' => scopes' \in ScopeChoices
<1>1. ASSUME UNCHANGED <<has_auctioneer, scopes>> PROVE Goal
  BY <1>1 DEF Delegated
<1>2. ASSUME NEW c \in Houses, CreateHouse(c) \/ UpdateHouse(c)
      PROVE  Goal
  BY <1>1, <1>2 DEF CreateHouse, UpdateHouse
<1>3. ASSUME NEW sc \in ScopeChoices, DelegateAuctioneer(sc) \/ UpdateAuctioneer(sc)
      PROVE  Goal
  BY <1>3 DEF DelegateAuctioneer, UpdateAuctioneer
<1>4. ASSUME NEW a \in BOOLEAN, NEW auth \in BOOLEAN, NEW signs \in BOOLEAN,
             \/ \E w \in Wallets, n \in Amounts : \/ Deposit(a, w, n, auth)
                                                  \/ Withdraw(a, w, n, signs, auth)
             \/ \E l \in Listings : Sell(a, l, signs, auth)
             \/ \E t \in Bids : Bid(a, t, auth)
             \/ \E ts \in trade_states, o \in Wallets : Cancel(a, ts, o, signs, auth)
      PROVE  Goal
  BY <1>1, <1>4 DEF houseVars, Deposit, Withdraw, Refund, Sell, Bid, Cancel
<1>5. ASSUME NEW a \in BOOLEAN, NEW auth \in BOOLEAN, NEW ss \in BOOLEAN, NEW bs \in BOOLEAN,
             NEW partial \in BOOLEAN, NEW l \in trade_states, NEW t \in trade_states,
             ExecuteSale(a, l, t, partial, ss, bs, auth)
      PROVE  Goal
  BY <1>1, <1>5 DEF houseVars, ExecuteSale
<1>6. ASSUME \/ \E n \in Amounts : WithdrawFromTreasury(n)
             \/ \E w \in Wallets : CloseEscrow(w)
             \/ \E w, v \in Wallets, n \in Amounts : Move(w, v, n)
      PROVE  Goal
  BY <1>1, <1>6 DEF houseVars, WithdrawFromTreasury, CloseEscrow, Refund, Move
<1> HIDE DEF Goal
<1>7. Goal
  BY <1>2, <1>3, <1>4, <1>5, <1>6 DEF Next
<1> QED BY <1>7 DEF Goal

LEMMA ScopesStep ==
  ASSUME Delegated, AuctioneerNext
  PROVE  /\ has_auctioneer => has_auctioneer'
         /\ has_auctioneer' => scopes' \in ScopeChoices
<1>1. CASE Next
  BY <1>1, ScopesGiven
<1>2. CASE UNCHANGED vars
  BY <1>2 DEF vars, houseVars, Delegated
<1> QED BY <1>1, <1>2, AuctioneerIsHouse

LEMMA TypesKept == ASSUME LotInv, AuctioneerNext PROVE TypeOK'
BY AuctioneerIsHouse, HouseTypesStep DEF LotInv, LotTyped, LotsOK

(* Steps that leave the lots alone, and those that close some. *)
LEMMA LotsKept ==
  ASSUME LotInv, AuctioneerNext, now' \in 0 .. MaxTime,
         listing_config' \in [Lots -> Configs \cup {None}],
         \A lot \in Lots : listing_config'[lot] # None => listing_config[lot] # None,
         UNCHANGED <<end_time, highest_bid, offers>>
  PROVE  LotInv'
<1>1. LotTyped'
  BY TypesKept DEF LotInv, LotTyped, LotsOK
<1>2. Offered' /\ BidsOnLots'
  BY DEF LotInv, Offered, BidsOnLots, Highest
<1>3. Delegated'
  BY ScopesStep DEF LotInv, Delegated
<1> QED BY <1>1, <1>2, <1>3 DEF LotInv

LEMMA SellLot ==
  ASSUME LotInv, AuctioneerNext, NEW l \in Listings, NEW c \in Configs, NEW auth, AuctioneerSell(l, c, auth)
  PROVE  LotInv'
<1>1. PICK lot : lot = <<l.wallet, l.size>>
  OBVIOUS
<1>2. /\ lot \in Lots /\ has_auctioneer
      /\ listing_config' = [listing_config EXCEPT ![lot] = c]
      /\ end_time' = [end_time EXCEPT ![lot] = c.end_time]
      /\ highest_bid' = [highest_bid EXCEPT ![lot] = NoBid]
      /\ offers' = [offers EXCEPT ![lot] = {}] /\ now' = now
  BY <1>1 DEF AuctioneerSell, LotOf, Lots, Sell, Handler
<1>3. NoBid \in HighestBid /\ NoBid.buyer_trade_state = None /\ c.end_time \in Int
  BY AuctioneerAssumption DEF NoBid, HighestBid, ConfigArgs
<1>4. LotTyped'
  <2>1. /\ listing_config' \in [Lots -> Configs \cup {None}]
        /\ end_time' \in [Lots -> Int] /\ highest_bid' \in [Lots -> HighestBid]
        /\ offers' \in [Lots -> SUBSET TradeState]
    BY <1>2, <1>3 DEF LotInv, LotTyped, LotsOK
  <2> QED BY <1>2, <2>1, TypesKept DEF LotInv, LotTyped, LotsOK
<1>5. /\ highest_bid'[lot] = NoBid /\ offers'[lot] = {}
      /\ \A k \in Lots \ {lot} : highest_bid'[k] = highest_bid[k] /\ offers'[k] = offers[k]
                                 /\ listing_config'[k] = listing_config[k]
  BY <1>2 DEF LotInv, LotTyped, LotsOK
<1>6. Offered' /\ BidsOnLots'
  BY <1>3, <1>5 DEF LotInv, Offered, BidsOnLots, Highest
<1>7. Delegated'
  BY <1>2, <1>5, ScopesStep DEF LotInv, Delegated
<1> QED BY <1>4, <1>6, <1>7 DEF LotInv

LEMMA BuyLot ==
  ASSUME LotInv, AuctioneerNext, NEW t \in Bids, AuctioneerBuy(t)
  PROVE  LotInv'
<1>1. PICK lot : lot = <<t.account, t.size>>
  OBVIOUS
<1>2. /\ lot \in Lots /\ t.price > highest_bid[lot].amount
      /\ end_time' = [end_time EXCEPT ![lot] = ExtendedEnd(lot)]
      /\ highest_bid' = [highest_bid EXCEPT ![lot] = [amount |-> t.price, buyer_trade_state |-> t]]
      /\ offers' = [offers EXCEPT ![lot] = offers[lot] \cup {t}]
      /\ UNCHANGED <<now, listing_config>> /\ listing_config[lot] # None
  BY <1>1 DEF AuctioneerBuy, LotOf, Listed, Outbids
<1>3. t \in TradeState /\ t.price \in Nat
  BY HouseFacts, TradeStateFields
<1>4. PICK new : new = [amount |-> t.price, buyer_trade_state |-> t]
  OBVIOUS
<1>5. new \in HighestBid /\ new.amount = t.price /\ new.buyer_trade_state = t
  BY <1>3, <1>4 DEF HighestBid
<1>6. ExtendedEnd(lot) \in Int
  <2>1. listing_config[lot] \in ConfigArgs
    BY <1>2, AuctioneerAssumption DEF LotInv, LotTyped, LotsOK
  <2>2. listing_config[lot].time_ext_delta \in Nat /\ end_time[lot] \in Int
    BY <1>2, <2>1 DEF ConfigArgs, LotInv, LotTyped, LotsOK
  <2> QED BY <2>2 DEF ExtendedEnd
<1>7. LotTyped'
  <2>1. end_time' \in [Lots -> Int]
    BY <1>2, <1>6 DEF LotInv, LotTyped, LotsOK
  <2>2. highest_bid' \in [Lots -> HighestBid]
    BY <1>2, <1>4, <1>5 DEF LotInv, LotTyped, LotsOK
  <2>3. offers' \in [Lots -> SUBSET TradeState]
    BY <1>2, <1>3 DEF LotInv, LotTyped, LotsOK
  <2> QED BY <1>2, <2>1, <2>2, <2>3, TypesKept DEF LotInv, LotTyped, LotsOK
<1>8. /\ highest_bid'[lot] = new /\ offers'[lot] = offers[lot] \cup {t}
      /\ \A k \in Lots \ {lot} : highest_bid'[k] = highest_bid[k] /\ offers'[k] = offers[k]
  BY <1>2, <1>4 DEF LotInv, LotTyped, LotsOK
<1>9. Offered'
  <2>1. highest_bid[lot].amount \in Nat
    BY <1>2 DEF LotInv, LotTyped, LotsOK, HighestBid
  <2>2. \A u \in offers[lot] : u.price \in Nat /\ u.price <= highest_bid[lot].amount
    <3>1. ASSUME NEW u \in offers[lot] PROVE u \in TradeState
      BY <1>2 DEF LotInv, LotTyped
    <3> QED BY <1>2, <3>1, TradeStateFields DEF LotInv, Offered
  <2>3. \A u \in offers'[lot] : u.price <= highest_bid'[lot].amount
    BY <1>2, <1>3, <1>5, <1>8, <2>1, <2>2
  <2> QED BY <1>8, <2>3 DEF LotInv, Offered
<1>10. BidsOnLots'
  <2>1. t.account = lot[1] /\ t.size = lot[2]
    BY <1>1
  <2> QED BY <1>5, <1>8, <2>1 DEF LotInv, BidsOnLots, Highest
<1>11. Delegated'
  BY <1>2, ScopesStep DEF LotInv, Delegated
<1> QED BY <1>7, <1>9, <1>10, <1>11 DEF LotInv

LEMMA LotInvStep == LotInv /\ [AuctioneerNext]_auctioneerVars => LotInv'
<1> SUFFICES ASSUME LotInv, [AuctioneerNext]_auctioneerVars PROVE LotInv'
  OBVIOUS
<1>1. now \in 0 .. MaxTime /\ listing_config \in [Lots -> Configs \cup {None}]
  BY DEF LotInv, LotTyped, LotsOK
<1>2. ASSUME AuctioneerNext, UNCHANGED <<now, lotVars>> PROVE LotInv'
  BY <1>1, <1>2, LotsKept DEF lotVars
<1>3. ASSUME AuctioneerNext,
             NEW l \in trade_states, NEW t \in trade_states, NEW ss, NEW bs, NEW auth,
             AuctioneerExecuteSale(l, t, ss, bs, auth)
      PROVE  LotInv'
  <2>1. PICK lot : lot = LotOf(t, l.wallet)
    OBVIOUS
  <2>2. /\ lot \in Lots /\ listing_config' = [listing_config EXCEPT ![lot] = None]
        /\ UNCHANGED <<now, end_time, highest_bid, offers>>
    BY <1>3, <2>1 DEF AuctioneerExecuteSale, Listed
  <2>3. /\ listing_config' \in [Lots -> Configs \cup {None}]
        /\ \A k \in Lots : listing_config'[k] # None => listing_config[k] # None
    BY <1>1, <2>2
  <2> QED BY <1>1, <1>3, <2>2, <2>3, LotsKept
<1>4. CASE AuctioneerNext /\ Tick
  <2>1. now' \in 0 .. MaxTime
    BY <1>1, <1>4, AuctioneerAssumption DEF Tick
  <2>2. UNCHANGED lotVars
    BY <1>4 DEF Tick
  <2> QED BY <1>1, <1>4, <2>1, <2>2, LotsKept DEF lotVars
<1>5. CASE UNCHANGED auctioneerVars
  BY <1>5 DEF auctioneerVars, vars, houseVars, tokenVars, moneyVars, lotVars, LotInv, LotTyped,
              LotsOK, TypeOK, Offered, BidsOnLots, Highest, Delegated
<1>6. CASE AuctioneerNext
  <2>1. ASSUME NEW l \in Listings, NEW c \in Configs, NEW auth \in BOOLEAN, AuctioneerSell(l, c, auth)
        PROVE  LotInv'
    BY <1>6, <2>1, SellLot
  <2>2. ASSUME NEW t \in Bids, AuctioneerBuy(t) PROVE LotInv'
    BY <1>6, <2>2, BuyLot
  <2>3. ASSUME NEW signs \in BOOLEAN, NEW auth \in BOOLEAN,
               \/ \E ts \in trade_states, o \in Wallets : AuctioneerCancel(ts, o, signs, auth)
               \/ \E w \in Wallets, n \in Amounts : \/ AuctioneerDeposit(w, n)
                                                    \/ AuctioneerWithdraw(w, n, signs, auth)
        PROVE  LotInv'
    BY <1>2, <1>6, <2>3 DEF AuctioneerCancel, AuctioneerDeposit, AuctioneerWithdraw
  <2> QED BY <1>2, <1>3, <1>4, <1>6, <2>1, <2>2, <2>3 DEF AuctioneerNext
<1> QED BY <1>5, <1>6

LEMMA LotInvariant == AuctioneerSpec => []LotInv
BY LotInvInit, LotInvStep, PTL DEF AuctioneerSpec

(* The house's accounts and the lots of the auctioneer keep their types.    *)
THEOREM LotTypes == AuctioneerSpec => []LotsOK
<1>1. LotInv => LotsOK
  BY DEF LotInv, LotTyped
<1> QED BY <1>1, LotInvariant, PTL
(* An auction of a listed lot ends in a sale to the highest bid it took.    *)
LEMMA SaleConcludes ==
  ASSUME LotInv, AuctioneerNext, NEW lot \in Lots, Listed(lot), listing_config'[lot] = None
  PROVE  \E t \in offers[lot] :
           /\ \A u \in offers[lot] : u.price <= t.price
           /\ escrow'[t.wallet] = escrow[t.wallet] - t.price
           /\ tokens'[t.wallet] = tokens[t.wallet] + t.size
<1>1. TypeOK /\ listing_config[lot] # None /\ listing_config \in [Lots -> Configs \cup {None}]
  BY DEF LotInv, LotTyped, LotsOK, Listed
<1>2. ASSUME UNCHANGED listing_config PROVE FALSE
  BY <1>1, <1>2
<1>3. PICK l \in trade_states, t \in trade_states, ss, bs, auth \in BOOLEAN :
         AuctioneerExecuteSale(l, t, ss, bs, auth)
  <2>1. ASSUME NEW l \in Listings, NEW c \in Configs, NEW auth \in BOOLEAN, AuctioneerSell(l, c, auth)
        PROVE  FALSE
    <3>1. PICK k : k = LotOf(l, l.wallet)
      OBVIOUS
    <3>2. listing_config' = [listing_config EXCEPT ![k] = c] /\ ~Listed(k)
      BY <2>1, <3>1 DEF AuctioneerSell
    <3> QED BY <1>1, <1>2, <3>2
  <2>2. ASSUME NEW signs \in BOOLEAN, NEW auth \in BOOLEAN,
               \/ \E t \in Bids : AuctioneerBuy(t)
               \/ \E ts \in trade_states, o \in Wallets : AuctioneerCancel(ts, o, signs, auth)
               \/ \E w \in Wallets, n \in Amounts : \/ AuctioneerDeposit(w, n)
                                                    \/ AuctioneerWithdraw(w, n, signs, auth)
               \/ UNCHANGED <<now, lotVars>>
               \/ Tick
        PROVE  FALSE
    BY <1>2, <2>2 DEF AuctioneerBuy, AuctioneerCancel, AuctioneerDeposit, AuctioneerWithdraw,
                      Tick, lotVars
  <2> QED BY <2>1, <2>2 DEF AuctioneerNext
<1>4. /\ Listed(LotOf(t, l.wallet)) /\ t = highest_bid[LotOf(t, l.wallet)].buyer_trade_state
      /\ listing_config' = [listing_config EXCEPT ![LotOf(t, l.wallet)] = None]
      /\ ExecuteSale(TRUE, l, t, FALSE, ss, bs, auth)
  BY <1>3 DEF AuctioneerExecuteSale
<1>5. LotOf(t, l.wallet) = lot
  <2>1. PICK k : k = LotOf(t, l.wallet)
    OBVIOUS
  <2>2. listing_config' = [listing_config EXCEPT ![k] = None]
    BY <1>4, <2>1
  <2> QED BY <1>1, <1>2, <2>1, <2>2
<1>6. t # None
  <2>1. t \in TradeState
    BY <1>1 DEF TypeOK
  <2> QED BY <2>1, AuctioneerAssumption
<1>7. t \in offers[lot] /\ \A u \in offers[lot] : u.price <= t.price
  <2>1. t = highest_bid[lot].buyer_trade_state
    BY <1>4, <1>5
  <2>2. t \in offers[lot] /\ t.price = highest_bid[lot].amount
    BY <1>6, <2>1 DEF LotInv, BidsOnLots, Highest
  <2> QED BY <2>2 DEF LotInv, Offered
<1>8. l.wallet # t.wallet /\ l.wallet \in Wallets /\ t.wallet \in Wallets
  BY <1>1, <1>4, SaleParties
<1>9. escrow'[t.wallet] = escrow[t.wallet] - t.price
  <2>1. escrow' = [escrow EXCEPT ![t.wallet] = escrow[t.wallet] - t.price]
    BY <1>1, <1>4, SaleEscrow
  <2> QED BY <1>1, <1>8, <2>1 DEF TypeOK
<1>10. tokens'[t.wallet] = tokens[t.wallet] + t.size
  <2>1. tokens' = [tokens EXCEPT ![l.wallet] = tokens[l.wallet] - t.size,
                                 ![t.wallet] = tokens[t.wallet] + t.size]
    BY <1>4 DEF ExecuteSale
  <2> QED BY <1>1, <1>8, <2>1 DEF TypeOK
<1> QED BY <1>7, <1>9, <1>10

(* A lot goes to the highest of the bids the auction has taken since it was *)
(* listed, for that price.                                                  *)
THEOREM HighestBidWins == AuctioneerSpec => SoldToTheHighest
<1>1. LotInv /\ [AuctioneerNext]_auctioneerVars =>
        [\A lot \in Lots : (Listed(lot) /\ listing_config'[lot] = None) =>
           \E t \in offers[lot] :
             /\ \A u \in offers[lot] : u.price <= t.price
             /\ escrow'[t.wallet] = escrow[t.wallet] - t.price
             /\ tokens'[t.wallet] = tokens[t.wallet] + t.size]_auctioneerVars
  BY SaleConcludes
<1> QED BY <1>1, LotInvariant, PTL DEF AuctioneerSpec, SoldToTheHighest

-----------------------------------------------------------------------------
(* The highest bid stands.                                                  *)

(* While a lot is listed, the house leaves cancellations and sales to the   *)
(* auctioneer, if every set of scopes it may give says so.                  *)
LEMMA OnlyAuctioneer ==
  ASSUME LotInv, \A sc \in ScopeChoices : {"Cancel", "ExecuteSale"} \subseteq sc,
         NEW lot \in Lots, listing_config[lot] # None
  PROVE  ~Handler(FALSE, "Cancel") /\ ~Handler(FALSE, "ExecuteSale")
BY DEF LotInv, Delegated, Handler

(* A bid is the highest of one lot at most. *)
LEMMA LotOfHighest ==
  ASSUME LotInv, NEW lot \in Lots, NEW ts, ts = highest_bid[lot].buyer_trade_state, ts # None
  PROVE  lot = <<ts.account, ts.size>> /\ ts.account # Any
<1>1. ts.account = lot[1] /\ ts.size = lot[2]
  BY DEF LotInv, BidsOnLots, Highest
<1> QED BY <1>1, LotFacts

LEMMA SaleRemoves ==
  ASSUME NEW a, NEW l \in trade_states, NEW t \in trade_states, NEW partial \in BOOLEAN,
         NEW ss, NEW bs, NEW auth, ExecuteSale(a, l, t, partial, ss, bs, auth)
  PROVE  trade_states \ {l, t, Listing(l.wallet, 0, l.size)} \subseteq trade_states'
BY DEF ExecuteSale

(* No step takes the highest bid of a lot away while the lot stays listed.  *)
LEMMA BidStays ==
  ASSUME LotInv, \A sc \in ScopeChoices : {"Cancel", "ExecuteSale"} \subseteq sc, AuctioneerNext,
         NEW lot \in Lots, NEW ts, ts = highest_bid[lot].buyer_trade_state, ts # None,
         ts \in trade_states, listing_config[lot] # None, listing_config'[lot] # None,
         ~listing_config[lot].allow_high_bid_cancel
  PROVE  ts \in trade_states'
<1>0. TypeOK /\ listing_config \in [Lots -> Configs \cup {None}]
  BY DEF LotInv, LotTyped, LotsOK
<1>1. lot = <<ts.account, ts.size>> /\ ts.account # Any
  BY LotOfHighest
<1>2. ~Handler(FALSE, "Cancel") /\ ~Handler(FALSE, "ExecuteSale")
  BY OnlyAuctioneer
<1>3. ASSUME NEW x \in trade_states, NEW o \in Wallets, NEW signs \in BOOLEAN, NEW auth \in BOOLEAN,
             AuctioneerCancel(x, o, signs, auth)
      PROVE  ts \in trade_states'
  <2>1. trade_states' = trade_states \ {x} /\ x.account \in {o, Any} /\ ~HeldFast(LotOf(x, o), x)
    BY <1>3 DEF AuctioneerCancel, Cancel
  <2>2. x # ts
    <3>1. CASE x = ts
      <4>1. LotOf(x, o) = lot
        BY <1>1, <2>1, <3>1 DEF LotOf
      <4> QED BY <2>1, <3>1, <4>1 DEF HeldFast
    <3> QED BY <3>1
  <2> QED BY <2>1, <2>2
<1>4. ASSUME NEW l \in trade_states, NEW t \in trade_states, NEW ss \in BOOLEAN, NEW bs \in BOOLEAN,
             NEW auth \in BOOLEAN, AuctioneerExecuteSale(l, t, ss, bs, auth)
      PROVE  ts \in trade_states'
  <2>1. /\ ExecuteSale(TRUE, l, t, FALSE, ss, bs, auth)
        /\ listing_config' = [listing_config EXCEPT ![LotOf(t, l.wallet)] = None]
    BY <1>4 DEF AuctioneerExecuteSale
  <2>2. lot # LotOf(t, l.wallet)
    BY <1>0, <2>1
  <2>3. l.account = l.wallet /\ t.account \in {l.wallet, Any} /\ t.size = l.size
    BY <2>1 DEF ExecuteSale, WholeLot
  <2>4. PICK free : free = Listing(l.wallet, 0, l.size)
    OBVIOUS
  <2>5. free.account = l.wallet /\ free.size = l.size
    BY <2>4 DEF Listing
  <2>6. trade_states \ {l, t, free} \subseteq trade_states'
    BY <2>1, <2>4, SaleRemoves
  <2>7. ts \notin {l, t, free}
    BY <1>1, <2>2, <2>3, <2>5 DEF LotOf
  <2> QED BY <2>6, <2>7
<1>5. ASSUME Direct PROVE ts \in trade_states'
  <2>1. CASE \E auth, ss, bs, partial \in BOOLEAN, l, t \in trade_states :
               ExecuteSale(FALSE, l, t, partial, ss, bs, auth)
    <3>1. ASSUME NEW auth, NEW ss, NEW bs, NEW partial, NEW l, NEW t,
                 ExecuteSale(FALSE, l, t, partial, ss, bs, auth)
          PROVE  Handler(FALSE, "ExecuteSale")
      BY <3>1 DEF ExecuteSale
    <3> QED BY <1>2, <2>1, <3>1
  <2>2. CASE \E auth, signs \in BOOLEAN, x \in trade_states, o \in Wallets :
               Cancel(FALSE, x, o, signs, auth)
    BY <1>2, <2>2 DEF Cancel
  <2>3. CASE \/ \E auth, signs \in BOOLEAN, l \in Listings : Sell(FALSE, l, signs, auth)
             \/ \E auth \in BOOLEAN, t \in Bids : Bid(FALSE, t, auth)
    BY <2>3 DEF Sell, Bid
  <2>4. CASE \/ \E auth \in BOOLEAN, w \in Wallets, n \in Amounts : Deposit(FALSE, w, n, auth)
             \/ \E auth, signs \in BOOLEAN, w \in Wallets, n \in Amounts :
                  Withdraw(FALSE, w, n, signs, auth)
    BY <2>4 DEF Deposit, Withdraw, Refund
  <2>5. CASE \/ \E n \in Amounts : WithdrawFromTreasury(n)
             \/ \E w \in Wallets : CloseEscrow(w)
             \/ \E w, v \in Wallets, n \in Amounts : Move(w, v, n)
    BY <2>5 DEF WithdrawFromTreasury, CloseEscrow, Refund, Move
  <2>6. CASE \/ \E c \in Houses : CreateHouse(c) \/ UpdateHouse(c)
             \/ \E sc \in ScopeChoices : DelegateAuctioneer(sc) \/ UpdateAuctioneer(sc)
    BY <2>6 DEF CreateHouse, UpdateHouse, DelegateAuctioneer, UpdateAuctioneer
  <2> QED BY <1>5, <2>1, <2>2, <2>3, <2>4, <2>5, <2>6 DEF Direct
<1>6. ASSUME NEW auth \in BOOLEAN, NEW signs \in BOOLEAN,
             \/ \E l \in Listings, c \in Configs : AuctioneerSell(l, c, auth)
             \/ \E t \in Bids : AuctioneerBuy(t)
             \/ \E w \in Wallets, n \in Amounts : \/ AuctioneerDeposit(w, n)
                                                  \/ AuctioneerWithdraw(w, n, signs, auth)
             \/ Tick
      PROVE  ts \in trade_states'
  BY <1>6 DEF AuctioneerSell, Sell, AuctioneerBuy, Bid, AuctioneerDeposit, Deposit,
              AuctioneerWithdraw, Withdraw, Refund, Tick, vars
<1> QED BY <1>3, <1>4, <1>5, <1>6 DEF AuctioneerNext

(* Which steps give a listed lot another highest bid: a bid that is open.   *)
LEMMA NewHighest ==
  ASSUME LotInv, AuctioneerNext, NEW lot \in Lots,
         LET ts == highest_bid'[lot].buyer_trade_state
         IN ts # None /\ ts \notin trade_states' /\ listing_config'[lot] # None
  PROVE  /\ highest_bid'[lot] = highest_bid[lot] /\ listing_config[lot] # None
         /\ listing_config'[lot] = listing_config[lot]
<1>0. /\ listing_config \in [Lots -> Configs \cup {None}] /\ highest_bid \in [Lots -> HighestBid]
  BY DEF LotInv, LotTyped, LotsOK
<1>1. ASSUME NEW l \in Listings, NEW c \in Configs, NEW auth \in BOOLEAN, AuctioneerSell(l, c, auth)
      PROVE  /\ highest_bid'[lot] = highest_bid[lot] /\ listing_config'[lot] = listing_config[lot]
  <2>1. PICK k : k = LotOf(l, l.wallet)
    OBVIOUS
  <2>2. /\ highest_bid' = [highest_bid EXCEPT ![k] = NoBid]
        /\ listing_config' = [listing_config EXCEPT ![k] = c]
    BY <1>1, <2>1 DEF AuctioneerSell
  <2>3. NoBid.buyer_trade_state = None
    BY DEF NoBid
  <2> QED BY <1>0, <2>2, <2>3
<1>2. ASSUME NEW t \in Bids, AuctioneerBuy(t)
      PROVE  /\ highest_bid'[lot] = highest_bid[lot] /\ listing_config'[lot] = listing_config[lot]
  <2>1. PICK k, new : k = LotOf(t, t.account) /\ new = [amount |-> t.price, buyer_trade_state |-> t]
    OBVIOUS
  <2>2. /\ highest_bid' = [highest_bid EXCEPT ![k] = new] /\ listing_config' = listing_config
        /\ t \in trade_states'
    BY <1>2, <2>1 DEF AuctioneerBuy, Bid
  <2>3. new.buyer_trade_state = t
    BY <2>1
  <2> QED BY <1>0, <2>2, <2>3
<1>3. ASSUME NEW l \in trade_states, NEW t \in trade_states, NEW ss \in BOOLEAN, NEW bs \in BOOLEAN,
             NEW auth \in BOOLEAN, AuctioneerExecuteSale(l, t, ss, bs, auth)
      PROVE  /\ highest_bid'[lot] = highest_bid[lot] /\ listing_config'[lot] = listing_config[lot]
  <2>1. PICK k : k = LotOf(t, l.wallet)
    OBVIOUS
  <2>2. listing_config' = [listing_config EXCEPT ![k] = None] /\ highest_bid' = highest_bid
    BY <1>3, <2>1 DEF AuctioneerExecuteSale
  <2> QED BY <1>0, <2>2
<1>4. ASSUME UNCHANGED lotVars
      PROVE  /\ highest_bid'[lot] = highest_bid[lot] /\ listing_config'[lot] = listing_config[lot]
  BY <1>4 DEF lotVars
<1>5. ASSUME NEW auth \in BOOLEAN, NEW signs \in BOOLEAN,
             \/ \E ts \in trade_states, o \in Wallets : AuctioneerCancel(ts, o, signs, auth)
             \/ \E w \in Wallets, n \in Amounts : \/ AuctioneerDeposit(w, n)
                                                  \/ AuctioneerWithdraw(w, n, signs, auth)
             \/ Direct /\ UNCHANGED <<now, lotVars>>
             \/ Tick
      PROVE  UNCHANGED lotVars
  BY <1>5 DEF AuctioneerCancel, AuctioneerDeposit, AuctioneerWithdraw, Tick
<1>6. /\ highest_bid'[lot] = highest_bid[lot] /\ listing_config'[lot] = listing_config[lot]
  BY <1>1, <1>2, <1>3, <1>4, <1>5 DEF AuctioneerNext
<1> QED BY <1>6
(* The steps that take a lot's highest bid away and leave it listed. *)
LEMMA StandsStep ==
  ASSUME LotInv, \A sc \in ScopeChoices : {"Cancel", "ExecuteSale"} \subseteq sc,
         HighestBidStands, AuctioneerNext
  PROVE  HighestBidStands'
<1>1. ASSUME NEW lot \in Lots, listing_config'[lot] # None,
             ~listing_config'[lot].allow_high_bid_cancel,
             highest_bid'[lot].buyer_trade_state # None,
             highest_bid'[lot].buyer_trade_state \notin trade_states'
      PROVE  FALSE
  <2>1. /\ highest_bid'[lot] = highest_bid[lot] /\ listing_config[lot] # None
        /\ listing_config'[lot] = listing_config[lot]
    BY <1>1, NewHighest
  <2>2. PICK ts : ts = highest_bid[lot].buyer_trade_state
    OBVIOUS
  <2>3. ts # None /\ ts \notin trade_states' /\ ~listing_config[lot].allow_high_bid_cancel
    BY <1>1, <2>1, <2>2
  <2>4. ts \in trade_states
    BY <2>1, <2>2, <2>3 DEF HighestBidStands, Listed
  <2> QED BY <1>1, <2>1, <2>2, <2>3, <2>4, BidStays
<1> QED BY <1>1 DEF HighestBidStands, Listed

(* Where every set of scopes that the house may give leaves cancellations   *)
(* and sales to the auctioneer, the highest bid of a lot that does not      *)
(* allow its cancellation is open as long as the lot is listed.             *)
THEOREM HighestBidIsHeld ==
  ASSUME \A sc \in ScopeChoices : {"Cancel", "ExecuteSale"} \subseteq sc
  PROVE  AuctioneerSpec => []HighestBidStands
<1>1. AuctioneerInit => HighestBidStands
  BY DEF AuctioneerInit, HighestBidStands, Listed
<1>2. LotInv /\ HighestBidStands /\ [AuctioneerNext]_auctioneerVars => HighestBidStands'
  <2>1. CASE UNCHANGED auctioneerVars
    BY <2>1 DEF auctioneerVars, lotVars, vars, HighestBidStands, Listed
  <2> QED BY <2>1, StandsStep
<1> QED BY <1>1, <1>2, LotInvariant, PTL DEF AuctioneerSpec
=============================================================================
