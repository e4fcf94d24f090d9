----------------------------- MODULE SaleProofs -----------------------------
(***************************************************************************)
(* Proofs about the fixed price sale, for any buyers, funders, shares,     *)
(* markets and changes of them: the counts of pieces, the end of a sold    *)
(* out sale, that the takings are final once somebody has been paid, and   *)
(* that they are enough for everybody who is entitled to a part of them.   *)
(***************************************************************************)
EXTENDS FixedPriceSale, Sums, TLAPS

(* A resource has a market when it is taken by one, and sells nothing before. *)
MarketTaken ==
  /\ market = None <=> resource_state \in {"Uninitialized", "Created"}
  /\ market = None => supply = 0

(* The last piece is what exhausts a resource, and supply stays there.      *)
ExhaustedAtMax == resource_state = "Exhausted" => max_supply # None /\ supply = max_supply

(* Payouts begin when the market is over, and it is never open again.       *)
PayoutsWhenOver == (\E f \in Funders : used[f]) => Over

SaleInv == TypeOK /\ MarketTaken /\ ExhaustedAtMax /\ SoldOutEnds /\ PayoutsWhenOver

(* A percentage of an amount is an amount. *)
LEMMA QuotientNat ==
  ASSUME NEW n \in Nat, NEW q \in Nat
  PROVE  (n * q) \div 100 \in Nat
<1> DEFINE x == n * q
<1>1. x \in Nat
  BY SMT
<1> HIDE DEF x
<1>2. x \div 100 \in Nat
  BY <1>1, SMT
<1> QED BY <1>2 DEF x

(* The royalties are part of the takings, the owner has the rest. *)
LEMMA RoyaltiesFit ==
  ASSUME TypeOK
  PROVE  Royalties \in Nat /\ OwnerShare \in Nat /\ Royalties + OwnerShare = funds_collected
<1>1. funds_collected \in Nat
  BY SaleAssumption DEF TypeOK
<1> DEFINE x == funds_collected * fee
<1>2. fee \in 0 .. 10000
  BY SaleAssumption
<1>3. x \in Nat /\ x <= funds_collected * 10000
  BY <1>1, <1>2, SMT
<1> HIDE DEF x
<1>4. x \div 10000 \in 0 .. funds_collected
  BY <1>1, <1>3, SMT
<1>5. Royalties \in 0 .. funds_collected
  BY <1>4 DEF x, Royalties
<1> QED BY <1>1, <1>5 DEF OwnerShare

(* A payout goes by a list of shares; there may be none in force. *)
LEMMA ListsTyped ==
  ASSUME TypeOK
  PROVE  /\ \A s \in Lists : IsShares(s)
         /\ SharesNow = None \/ IsShares(SharesNow)
BY SaleAssumption DEF TypeOK, Lists, SharesNow

(* Shares in percent are amounts, of funders. *)
LEMMA SharesTyped ==
  ASSUME NEW s, s = None \/ IsShares(s)
  PROVE  /\ Creators(s) \subseteq Funders
         /\ \A f \in Creators(s) : s # None /\ s[f] \in Nat
<1>1. CASE s = None
  BY <1>1 DEF Creators
<1>2. CASE s # None
  <2>1. DOMAIN s \subseteq Funders /\ s \in [DOMAIN s -> Nat]
    BY <1>2 DEF IsShares
  <2> QED BY <1>2, <2>1 DEF Creators
<1> QED BY <1>1, <1>2

(* What a funder is entitled to by a list is an amount. *)
LEMMA AmountNat ==
  ASSUME TypeOK, NEW f \in Funders, NEW s, s = None \/ IsShares(s)
  PROVE  Amount(s, f) \in Nat
<1>1. funds_collected \in Nat
  BY SaleAssumption DEF TypeOK
<1>2. Royalties \in Nat /\ OwnerShare \in Nat
  BY RoyaltiesFit
<1>3. ASSUME f \in Creators(s) PROVE CreatorShare(s, f) \in Nat
  <2>1. s[f] \in Nat
    BY <1>3, SharesTyped
  <2> QED BY <2>1, <1>1, <1>2, QuotientNat DEF CreatorShare
<1> QED BY <1>2, <1>3 DEF Amount

(* The initial accounts satisfy the invariant. *)
LEMMA SaleInvInit == Init => SaleInv
<1> SUFFICES ASSUME Init PROVE SaleInv
  OBVIOUS
<1> USE DEF Init
<1>1. TypeOK
  <2>1. /\ bought \in [Wallets -> Nat] /\ money \in [Wallets -> Nat]
        /\ gate_tokens \in [Wallets -> Nat] /\ used \in [Funders -> BOOLEAN]
        /\ got \in [Funders -> Nat]
    BY SaleAssumption
  <2>2. /\ now \in 0 .. MaxTime /\ funds_collected \in 0 .. MaxU64
        /\ gifts \in 0 .. MaxGifts /\ treasury \in 0 .. funds_collected + gifts
    BY SaleAssumption, SMT
  <2>3. me_supply = InitialEditions + supply /\ (me_max # None => me_supply <= me_max)
    BY SaleAssumption, SMT
  <2> QED BY <2>1, <2>2, <2>3 DEF TypeOK, Optional, ResourceStates, MarketStates
<1>2. ~(\E f \in Funders : used[f])
  OBVIOUS
<1> QED BY <1>1, <1>2 DEF SaleInv, MarketTaken, ExhaustedAtMax, SoldOutEnds, PayoutsWhenOver

(* Depositing the master edition, saving creators, creating the market. *)
LEMMA SetupPreserves ==
  ASSUME SaleInv,
         \/ \E max \in Supplies : InitSellingResource(max)
         \/ \E shares \in PrimaryShares : SavePrimaryMetadataCreators(shares)
         \/ \E m \in Markets : CreateMarket(m)
  PROVE  SaleInv'
<1> USE DEF resourceVars, marketVars, metadataVars, buyerVars, payoutVars
<1>1. CASE \E max \in Supplies : InitSellingResource(max)
  <2> PICK max \in Supplies : InitSellingResource(max)
    BY <1>1
  <2>1. market = None /\ ~(\E f \in Funders : used[f])
    BY DEF SaleInv, MarketTaken, PayoutsWhenOver, Over, InitSellingResource
  <2>2. max \in Optional(Nat)
    BY SaleAssumption
  <2>3. TypeOK'
    BY <2>1, <2>2 DEF SaleInv, InitSellingResource, TypeOK, MarketTaken, Optional, ResourceStates
  <2>4. MarketTaken' /\ ExhaustedAtMax' /\ SoldOutEnds' /\ PayoutsWhenOver'
    BY <2>1 DEF SaleInv, InitSellingResource, MarketTaken, ExhaustedAtMax, SoldOutEnds, PayoutsWhenOver
  <2> QED BY <2>3, <2>4 DEF SaleInv
<1>2. CASE \E shares \in PrimaryShares : SavePrimaryMetadataCreators(shares)
  BY <1>2, SaleAssumption DEF SaleInv, SavePrimaryMetadataCreators, TypeOK, MarketTaken,
       ExhaustedAtMax, SoldOutEnds, PayoutsWhenOver, Over, PastEnd
<1>3. CASE \E m \in Markets : CreateMarket(m)
  <2> PICK m \in Markets : CreateMarket(m)
    BY <1>3
  <2>1. m \in Market /\ m # None
    BY SaleAssumption DEF CreateMarket, Market
  <2>2. market = None /\ ~(\E f \in Funders : used[f])
    BY DEF SaleInv, MarketTaken, PayoutsWhenOver, Over, CreateMarket
  <2>3. TypeOK'
    BY <2>1 DEF SaleInv, CreateMarket, TypeOK, Optional, ResourceStates, MarketStates
  <2>4. MarketTaken' /\ ExhaustedAtMax' /\ SoldOutEnds'
    BY <2>1 DEF CreateMarket, MarketTaken, ExhaustedAtMax, SoldOutEnds
  <2>5. PayoutsWhenOver'
    BY <2>2 DEF CreateMarket, PayoutsWhenOver
  <2> QED BY <2>3, <2>4, <2>5 DEF SaleInv
<1> QED BY <1>1, <1>2, <1>3

(* A market that is over stays over as long as its state and dates do. *)
LEMMA OverStays ==
  ASSUME TypeOK, Over, market' # None, market'.end_date = market.end_date,
         market.end_date = None => market_state' = "Ended",
         now' \in Nat, now' >= now, market \in Market
  PROVE  Over'
<1>1. now \in Nat
  BY SaleAssumption DEF TypeOK
<1>2. CASE market.end_date = None
  BY <1>2 DEF Over
<1>3. CASE market.end_date # None
  <2>1. market.end_date \in Nat
    BY <1>3 DEF Market, Optional
  <2> QED BY <1>1, <1>3, <2>1 DEF Over, PastEnd
<1> QED BY <1>2, <1>3

(* A purchase: there was stock, so the sale was not sold out, and the market *)
(* was open, so nobody has been paid.                                        *)
LEMMA BuyPreserves ==
  ASSUME SaleInv, NEW w \in Wallets, Buy(w)
  PROVE  SaleInv'
<1> USE DEF resourceVars, marketVars, metadataVars, buyerVars, payoutVars
<1>1. /\ supply \in Nat /\ me_supply \in Nat /\ funds_collected \in Nat /\ treasury \in Nat /\ gifts \in Nat
      /\ market \in Market /\ market # None /\ market.price \in Nat
  BY SaleAssumption DEF SaleInv, TypeOK, Buy, Optional, Market
<1>2. max_supply # None => max_supply \in Nat /\ supply + 1 <= max_supply
  BY DEF SaleInv, TypeOK, Buy, InStock, Optional
<1>3. ~Over
  BY DEF Buy, Open, Over
<1>4. TypeOK'
  <2>1. supply' \in Nat /\ (max_supply' # None => supply' <= max_supply')
    BY <1>1, <1>2 DEF Buy
  <2>2. me_supply' = InitialEditions + supply' /\ (me_max' # None => me_supply' <= me_max')
    BY <1>1, SaleAssumption DEF SaleInv, TypeOK, Buy
  <2>3. funds_collected' \in 0 .. MaxU64 /\ treasury' \in 0 .. funds_collected' + gifts'
    BY <1>1, SaleAssumption DEF SaleInv, TypeOK, Buy
  <2>4. money' \in [Wallets -> Nat]
    BY <1>1 DEF SaleInv, TypeOK, Buy
  <2>5. gate_tokens' \in [Wallets -> Nat]
    BY DEF SaleInv, TypeOK, Buy
  <2>6. bought' \in [Wallets -> Nat]
    BY DEF SaleInv, TypeOK, Buy
  <2>7. resource_state' \in ResourceStates /\ market_state' \in MarketStates
    BY DEF SaleInv, TypeOK, Buy, ResourceStates, MarketStates
  <2> QED BY <2>1, <2>2, <2>3, <2>4, <2>5, <2>6, <2>7 DEF SaleInv, TypeOK, Buy
<1>5. ExhaustedAtMax' /\ SoldOutEnds'
  BY <1>1, <1>2, SaleAssumption DEF SaleInv, ExhaustedAtMax, SoldOutEnds, Buy
<1>6. MarketTaken'
  BY <1>1 DEF SaleInv, MarketTaken, Buy
<1>7. PayoutsWhenOver'
  BY <1>3 DEF SaleInv, PayoutsWhenOver, Buy
<1> QED BY <1>4, <1>5, <1>6, <1>7 DEF SaleInv

(* Suspending, resuming, closing and changing the market. *)
LEMMA MarketPreserves ==
  ASSUME SaleInv,
         \/ SuspendMarket \/ ResumeMarket \/ CloseMarket
         \/ \E c \in Changes : ChangeMarket(c)
  PROVE  SaleInv'
<1> USE DEF resourceVars, marketVars, metadataVars, buyerVars, payoutVars
<1>1. market # None /\ market \in Market
  BY DEF SaleInv, TypeOK, Optional, SuspendMarket, ResumeMarket, CloseMarket, ChangeMarket,
       Suspendable, Started
<1>2. now \in Nat
  BY SaleAssumption DEF SaleInv, TypeOK
<1>3. ASSUME NEW s \in MarketStates, MarketBecomes(s),
             resource_state = "Exhausted" => s = "Ended",
             Over /\ market.end_date = None => s = "Ended"
      PROVE  SaleInv'
  <2>1. TypeOK' /\ MarketTaken' /\ ExhaustedAtMax' /\ SoldOutEnds'
    BY <1>3 DEF SaleInv, TypeOK, MarketTaken, ExhaustedAtMax, SoldOutEnds, MarketBecomes
  <2>2. Over => Over'
    BY <1>1, <1>2, <1>3, OverStays DEF SaleInv, MarketBecomes
  <2> QED BY <1>3, <2>1, <2>2 DEF SaleInv, PayoutsWhenOver, MarketBecomes
<1>4. CASE SuspendMarket
  BY <1>3, <1>4 DEF SuspendMarket, Suspendable, SaleInv, SoldOutEnds, Over, MarketStates
<1>5. CASE ResumeMarket
  BY <1>3, <1>5 DEF ResumeMarket, SaleInv, SoldOutEnds, Over, MarketStates
<1>6. CASE CloseMarket
  BY <1>3, <1>6 DEF CloseMarket, MarketStates
<1>7. CASE \E c \in Changes : ChangeMarket(c)
  <2> PICK c \in Changes : ChangeMarket(c)
    BY <1>7
  <2>1. c \in Change
    BY SaleAssumption
  <2>2. market' \in Market /\ market' # None /\ market'.end_date = market.end_date
    <3>1. market' \in Market /\ market'.end_date = market.end_date
      <4>1. /\ c.mutable # None => c.mutable \in BOOLEAN
            /\ c.price # None => c.price \in Nat
            /\ c.pieces \in Optional(Nat)
        BY <2>1 DEF Change, Optional
      <4> QED BY <1>1, <4>1 DEF ChangeMarket, Market
    <3> QED BY <3>1, SaleAssumption
  <2>3. TypeOK' /\ MarketTaken' /\ ExhaustedAtMax' /\ SoldOutEnds'
    BY <1>1, <2>2 DEF SaleInv, TypeOK, MarketTaken, ExhaustedAtMax, SoldOutEnds, ChangeMarket, Optional
  <2>4. Over => Over'
    BY <1>1, <1>2, <2>2, OverStays DEF SaleInv, Over, ChangeMarket
  <2> QED BY <2>3, <2>4 DEF SaleInv, PayoutsWhenOver, ChangeMarket
<1> QED BY <1>4, <1>5, <1>6, <1>7

(* Payouts, gifts, the claim of the master edition, the flag and the clock. *)
LEMMA PayoutsPreserve ==
  ASSUME SaleInv,
         \/ \E f \in Funders : \E s \in Lists : Withdraw(f, s)
         \/ Gift \/ ClaimResource \/ PrimarySaleHappens \/ Tick
  PROVE  SaleInv'
<1> USE DEF resourceVars, marketVars, metadataVars, buyerVars, payoutVars
<1>1. now \in Nat /\ treasury \in Nat /\ funds_collected \in Nat /\ gifts \in Nat
  BY SaleAssumption DEF SaleInv, TypeOK
<1>2. CASE \E f \in Funders : \E s \in Lists : Withdraw(f, s)
  <2> PICK f \in Funders, s \in Lists : Withdraw(f, s)
    BY <1>2
  <2>1. Amount(s, f) \in Nat
    BY AmountNat, ListsTyped DEF SaleInv
  <2>2. treasury' \in 0 .. funds_collected' + gifts' /\ funds_collected' \in 0 .. MaxU64
    BY <1>1, <2>1 DEF SaleInv, TypeOK, Withdraw
  <2>3. used' \in [Funders -> BOOLEAN] /\ got' \in [Funders -> Nat]
    BY <2>1 DEF SaleInv, TypeOK, Withdraw
  <2>4. TypeOK'
    BY <2>2, <2>3 DEF SaleInv, TypeOK, Withdraw
  <2>5. MarketTaken' /\ ExhaustedAtMax' /\ SoldOutEnds'
    BY DEF SaleInv, MarketTaken, ExhaustedAtMax, SoldOutEnds, Withdraw
  <2>6. Over'
    BY DEF Withdraw, Over, PastEnd
  <2> QED BY <2>4, <2>5, <2>6 DEF SaleInv, PayoutsWhenOver
<1>5. CASE Gift
  <2>1. treasury' \in 0 .. funds_collected' + gifts' /\ gifts' \in 0 .. MaxGifts
    BY <1>1, <1>5, SaleAssumption DEF SaleInv, TypeOK, Gift
  <2>2. TypeOK'
    BY <1>5, <2>1 DEF SaleInv, TypeOK, Gift
  <2> QED BY <1>5, <2>2 DEF SaleInv, MarketTaken, ExhaustedAtMax, SoldOutEnds, PayoutsWhenOver,
           Over, PastEnd, Gift
<1>3. CASE ClaimResource \/ PrimarySaleHappens
  BY <1>3 DEF SaleInv, TypeOK, MarketTaken, ExhaustedAtMax, SoldOutEnds, PayoutsWhenOver, Over,
       PastEnd, ClaimResource, PrimarySaleHappens
<1>4. CASE Tick
  <2>1. now' \in 0 .. MaxTime /\ now' \in Nat /\ now' >= now
    BY <1>1, <1>4, SaleAssumption DEF SaleInv, TypeOK, Tick
  <2>2. TypeOK'
    BY <1>4, <2>1 DEF SaleInv, TypeOK, Tick
  <2>3. MarketTaken' /\ ExhaustedAtMax' /\ SoldOutEnds'
    BY <1>4 DEF SaleInv, MarketTaken, ExhaustedAtMax, SoldOutEnds, Tick
  <2>4. Over => Over'
    <3>1. Over => market \in Market /\ (market.end_date = None => market_state = "Ended")
      BY DEF SaleInv, TypeOK, Optional, Over
    <3> QED BY <1>4, <2>1, <3>1, OverStays DEF SaleInv, Tick, Over
  <2> QED BY <1>4, <2>2, <2>3, <2>4 DEF SaleInv, PayoutsWhenOver, Tick
<1> QED BY <1>2, <1>3, <1>4, <1>5

LEMMA SaleInvStep == SaleInv /\ [Next]_vars => SaleInv'
<1> SUFFICES ASSUME SaleInv, [Next]_vars PROVE SaleInv'
  OBVIOUS
<1>1. CASE UNCHANGED vars
  BY <1>1 DEF SaleInv, TypeOK, MarketTaken, ExhaustedAtMax, SoldOutEnds, PayoutsWhenOver, Over,
       PastEnd, vars, resourceVars, marketVars, metadataVars, buyerVars, payoutVars
<1>2. CASE Next
  BY <1>2, SetupPreserves, BuyPreserves, MarketPreserves, PayoutsPreserve DEF Next
<1> QED BY <1>1, <1>2

LEMMA SaleInvariant == Spec => []SaleInv
BY SaleInvInit, SaleInvStep, PTL DEF Spec

(* Pieces are counted alike by the resource and the master edition, never   *)
(* more than promised, and treasury and takings stay in their ranges.       *)
THEOREM SaleTypes == Spec => []TypeOK
<1>1. SaleInv => TypeOK
  BY DEF SaleInv
<1> QED BY <1>1, SaleInvariant, PTL

(* No suspension, resumption or late buyer revives a sold out sale. *)
THEOREM SoldOutForGood == Spec => []SoldOutEnds
<1>1. SaleInv => SoldOutEnds
  BY DEF SaleInv
<1> QED BY <1>1, SaleInvariant, PTL

(* Nothing is sold, and so no share changes, once somebody has been paid. *)
THEOREM TakingsAreFinal == Spec => TakingsFinal
<1>1. SaleInv /\ [Next]_vars => [(\E f \in Funders : used[f]) => funds_collected' = funds_collected]_vars
  <2> SUFFICES ASSUME SaleInv, Next, \E f \in Funders : used[f]
               PROVE  funds_collected' = funds_collected
    OBVIOUS
  <2>1. Over
    BY DEF SaleInv, PayoutsWhenOver
  <2>2. ASSUME NEW w \in Wallets, Buy(w) PROVE FALSE
    BY <2>1, <2>2 DEF Buy, Open, Over
  <2> QED BY <2>2 DEF Next, InitSellingResource, SavePrimaryMetadataCreators, CreateMarket,
               SuspendMarket, ResumeMarket, CloseMarket, MarketBecomes, ChangeMarket, Withdraw,
               Gift, ClaimResource, PrimarySaleHappens, Tick, marketVars
<1> QED BY <1>1, SaleInvariant, PTL DEF Spec, TakingsFinal
----------------------------------------------------------------------------
(***************************************************************************)
(* Payouts: what is owing never exceeds what the treasury holds.           *)
(***************************************************************************)

(* Takings and gifts are in the treasury or were paid out, to funders whose  *)
(* tickets are used.                                                        *)
Accounted ==
  /\ treasury + SumFunction(got) = funds_collected + gifts
  /\ \A f \in Funders : ~used[f] => got[f] = 0

(* Shares of at most 100 percent, each rounded down, of n and, for one      *)
(* funder, of the rest of the takings: together not more than was taken.    *)
LEMMA SharesOfTakings ==
  ASSUME NEW U, IsFiniteSet(U), NEW own, NEW n \in Nat, NEW rest \in Nat,
         NEW share, NEW amount, \A f \in U : share[f] \in Nat /\ amount[f] \in Nat,
         \A f \in U \ {own} : 100 * amount[f] <= n * share[f],
         own \in U => 100 * amount[own] <= n * share[own] + 100 * rest,
         SumFunctionOnSet(share, U) <= 100
  PROVE  SumFunctionOnSet(amount, U) <= n + rest
<1> DEFINE others == U \ {own}
           A == SumFunctionOnSet(amount, others)
           S == SumFunctionOnSet(share, others)
<1>1. IsFiniteSet(others) /\ others \subseteq U
  BY FS_Subset
<1>2. A \in Nat /\ S \in Nat
  BY <1>1, SumNat
<1>3. 100 * A <= n * S
  <2>1. \A f \in others : amount[f] \in Int /\ share[f] \in Int /\ 100 * amount[f] <= n * share[f]
    <3> TAKE f \in others
    <3>1. f \in U /\ f \in U \ {own}
      OBVIOUS
    <3>2. amount[f] \in Nat /\ share[f] \in Nat
      BY <3>1
    <3> QED BY <3>1, <3>2
  <2>2. 100 \in Int /\ n \in Int
    OBVIOUS
  <2> HIDE DEF others
  <2> QED BY <1>1, <2>1, <2>2, SumScaled
<1> HIDE DEF A, S
<1>4. CASE own \notin U
  <2>1. others = U /\ SumFunctionOnSet(amount, U) = A /\ S <= 100
    BY <1>4 DEF A, S
  <2>2. n * S <= n * 100
    BY <1>2, <2>1
  <2>3. 100 * A <= n * 100
    <3> DEFINE x == n * S
    <3>1. x \in Nat
      BY <1>2
    <3> HIDE DEF x
    <3>2. 100 * A <= x /\ x <= n * 100
      BY <1>3, <2>2 DEF x
    <3> QED BY <1>2, <3>1, <3>2
  <2> QED BY <1>2, <2>1, <2>3
<1>5. CASE own \in U
  <2>1. PICK a \in Nat, s \in Nat : a = amount[own] /\ s = share[own]
    BY <1>5
  <2>2. SumFunctionOnSet(amount, U) = a + A /\ SumFunctionOnSet(share, U) = s + S
    BY <1>5, <2>1, SumSplit DEF A, S
  <2>3. 100 * a <= n * s + 100 * rest /\ s + S <= 100
    BY <1>5, <2>1, <2>2
  <2>4. n * s + n * S <= n * 100
    <3>1. n * (s + S) <= n * 100
      BY <1>2, <2>1, <2>3
    <3>2. n * (s + S) = n * s + n * S
      BY <1>2, <2>1
    <3> QED BY <3>1, <3>2
  <2>5. a + A <= n + rest
    <3> DEFINE x == n * s
               y == n * S
    <3>1. x \in Nat /\ y \in Nat
      BY <1>2, <2>1
    <3> HIDE DEF x, y
    <3>2. 100 * a <= x + 100 * rest /\ 100 * A <= y /\ x + y <= n * 100
      BY <1>3, <2>3, <2>4 DEF x, y
    <3> QED BY <1>2, <2>1, <3>1, <3>2
  <2> QED BY <2>2, <2>5
<1> QED BY <1>4, <1>5

(* What divides evenly or not: the quotient times the divisor. *)
LEMMA RoundedDown ==
  ASSUME NEW x \in Nat
  PROVE  x \div 100 \in Nat /\ 100 * (x \div 100) <= x
BY SMT

(* The shares in force, zero for those who have none. *)
ShareOf == [f \in Funders |-> IF f \in Creators(SharesNow) THEN SharesNow[f] ELSE 0]

(* The shares add up to 100 at most, if they fit. *)
LEMMA SharesAddUp ==
  ASSUME TypeOK, SharesFit
  PROVE  /\ \A f \in Funders : ShareOf[f] \in Nat
         /\ SumFunctionOnSet(ShareOf, Funders) <= 100
<1> DEFINE C == Creators(SharesNow)
           D == Funders \ C
<1>1. C \subseteq Funders /\ \A f \in C : SharesNow # None /\ SharesNow[f] \in Nat
  BY ListsTyped, SharesTyped
<1>2. /\ \A f \in Funders : ShareOf[f] \in Nat
      /\ \A f \in D : ShareOf[f] = 0
      /\ \A f \in C : ShareOf[f] = SharesNow[f]
  BY <1>1 DEF ShareOf
<1>3. IsFiniteSet(C) /\ IsFiniteSet(D) /\ C \cap D = {} /\ C \cup D = Funders
  BY <1>1, SaleAssumption, FS_Subset
<1>4. SumFunctionOnSet(ShareOf, C) \in Nat /\ SumFunctionOnSet(ShareOf, C) <= 100
  <2>1. SumFunctionOnSet(ShareOf, C) \in Nat
    BY <1>1, <1>2, <1>3, SumNat
  <2>2. CASE SharesNow = None
    BY <2>1, <2>2, SumEmpty DEF Creators
  <2>3. CASE SharesNow # None
    <3>1. SumFunctionOnSet(SharesNow, C) <= 100
      BY <2>3 DEF SharesFit, Creators, SumFunction
    <3>2. SumFunctionOnSet(ShareOf, C) = SumFunctionOnSet(SharesNow, C)
      BY <1>2, <1>3, SumSame
    <3> QED BY <2>1, <3>1, <3>2
  <2> QED BY <2>2, <2>3
<1> HIDE DEF C, D
<1>5. SumFunctionOnSet(ShareOf, D) = Cardinality(D) * 0 /\ Cardinality(D) \in Nat
  BY <1>2, <1>3, SumConstant, FS_CardinalityType
<1>6. SumFunctionOnSet(ShareOf, Funders) = SumFunctionOnSet(ShareOf, C) + SumFunctionOnSet(ShareOf, D)
  <2>1. \A f \in C \cup D : ShareOf[f] \in Nat
    BY <1>2, <1>3
  <2> QED BY <1>3, <2>1, SumUnion
<1> QED BY <1>2, <1>4, <1>5, <1>6

(* What a creator has is its share of the amount that is shared out. *)
LEMMA CreatorShareBound ==
  ASSUME TypeOK, NEW f \in Creators(SharesNow), NEW n \in Nat,
         n = (IF primary_sale_happened THEN Royalties ELSE funds_collected)
  PROVE  CreatorShare(SharesNow, f) \in Nat /\ 100 * CreatorShare(SharesNow, f) <= n * ShareOf[f]
<1>1. SharesNow[f] \in Nat /\ f \in Funders
  BY ListsTyped, SharesTyped
<1> DEFINE x == n * SharesNow[f]
<1>2. x \in Nat
  BY <1>1
<1>3. ShareOf[f] = SharesNow[f]
  BY <1>1 DEF ShareOf
<1>4. CreatorShare(SharesNow, f) = x \div 100
  BY DEF CreatorShare
<1> HIDE DEF x
<1>5. x \div 100 \in Nat /\ 100 * (x \div 100) <= x
  BY <1>2, RoundedDown
<1> QED BY <1>3, <1>4, <1>5 DEF x

(* All that is due by the list in force: not more than was taken. *)
LEMMA TakingsCover ==
  ASSUME TypeOK, SharesFit
  PROVE  SumFunctionOnSet([f \in Funders |-> Due(f)], Funders) <= funds_collected
<1> DEFINE due == [f \in Funders |-> Due(f)]
           n == IF primary_sale_happened THEN Royalties ELSE funds_collected
           rest == IF primary_sale_happened THEN OwnerShare ELSE 0
<1>1. n \in Nat /\ rest \in Nat /\ n + rest = funds_collected
  BY RoyaltiesFit, SaleAssumption DEF TypeOK
<1>2. \A f \in Funders : ShareOf[f] \in Nat /\ due[f] \in Nat /\ due[f] = Amount(SharesNow, f)
  BY SharesAddUp, AmountNat, ListsTyped DEF Due
<1>3. ASSUME NEW f \in Funders, NEW m \in Nat,
             Amount(SharesNow, f) = (IF f \in Creators(SharesNow) THEN CreatorShare(SharesNow, f) ELSE 0) + m
      PROVE  100 * due[f] <= n * ShareOf[f] + 100 * m
  <2> DEFINE x == n * ShareOf[f]
             c == CreatorShare(SharesNow, f)
  <2>1. x \in Nat /\ due[f] = Amount(SharesNow, f)
    BY <1>1, <1>2
  <2> HIDE DEF n, rest, due
  <2>2. CASE f \in Creators(SharesNow)
    <3>1. c \in Nat /\ 100 * c <= x /\ due[f] = c + m
      BY <1>1, <1>3, <2>1, <2>2, CreatorShareBound DEF n
    <3> HIDE DEF x, c
    <3>2. 100 * due[f] <= x + 100 * m
      BY <2>1, <3>1
    <3> QED BY <3>2 DEF x
  <2>3. CASE f \notin Creators(SharesNow)
    <3>1. due[f] = m
      BY <1>3, <2>1, <2>3
    <3> HIDE DEF x
    <3>2. 100 * due[f] <= x + 100 * m
      BY <2>1, <3>1
    <3> QED BY <3>2 DEF x
  <2> QED BY <2>2, <2>3
<1>4. \A f \in Funders \ {owner} : 100 * due[f] <= n * ShareOf[f]
  <2> SUFFICES ASSUME NEW f \in Funders \ {owner} PROVE 100 * due[f] <= n * ShareOf[f]
    OBVIOUS
  <2>1. 100 * due[f] <= n * ShareOf[f] + 100 * 0
    BY <1>3 DEF Amount
  <2> DEFINE x == n * ShareOf[f]
  <2>2. x \in Nat
    BY <1>1, <1>2
  <2> HIDE DEF x
  <2>3. 100 * due[f] <= x + 100 * 0
    BY <2>1 DEF x
  <2>4. 100 * due[f] <= x
    <3> HIDE DEF due
    <3> QED BY <2>2, <2>3
  <2> QED BY <2>4 DEF x
<1>5. 100 * due[owner] <= n * ShareOf[owner] + 100 * rest
  <2>1. owner \in Funders
    BY SaleAssumption
  <2>2. Amount(SharesNow, owner)
          = (IF owner \in Creators(SharesNow) THEN CreatorShare(SharesNow, owner) ELSE 0) + rest
    BY DEF Amount
  <2> HIDE DEF n, rest, due
  <2> QED BY <1>1, <1>3, <2>1, <2>2
<1>6. SumFunctionOnSet(ShareOf, Funders) <= 100 /\ IsFiniteSet(Funders)
  BY SharesAddUp, SaleAssumption
<1> HIDE DEF due, n, rest
<1>7. SumFunctionOnSet(due, Funders) <= n + rest
  BY <1>1, <1>2, <1>4, <1>5, <1>6, SharesOfTakings
<1> QED BY <1>1, <1>7 DEF due

(* A sum of parts that make up another one is not less than it. *)
LEMMA SumWithin ==
  ASSUME NEW f, NEW g, NEW h, NEW S, IsFiniteSet(S),
         \A x \in S : f[x] \in Nat /\ g[x] \in Nat /\ h[x] \in Nat /\ h[x] <= f[x] + g[x]
  PROVE  SumFunctionOnSet(h, S) <= SumFunctionOnSet(f, S) + SumFunctionOnSet(g, S)
<1> DEFINE P == {T \in SUBSET S :
                   SumFunctionOnSet(h, T) <= SumFunctionOnSet(f, T) + SumFunctionOnSet(g, T)}
<1>1. {} \in P
  BY SumEmpty
<1>2. ASSUME NEW T \in SUBSET S, T # {}, \A x \in T : T \ {x} \in P PROVE T \in P
  <2> DEFINE y == Chosen(T)
             F == SumFunctionOnSet(f, T \ {y})
             G == SumFunctionOnSet(g, T \ {y})
             H == SumFunctionOnSet(h, T \ {y})
  <2>1. IsFiniteSet(T) /\ IsFiniteSet(T \ {y})
    BY FS_Subset
  <2>2. /\ y \in T
        /\ SumFunctionOnSet(f, T) = f[y] + F
        /\ SumFunctionOnSet(g, T) = g[y] + G
        /\ SumFunctionOnSet(h, T) = h[y] + H
    BY <1>2, <2>1, SumChosen
  <2>3. F \in Nat /\ G \in Nat /\ H \in Nat
    BY <2>1, SumNat
  <2>4. H <= F + G
    BY <1>2, <2>2
  <2>5. f[y] \in Nat /\ g[y] \in Nat /\ h[y] \in Nat /\ h[y] <= f[y] + g[y]
    BY <2>2
  <2> HIDE DEF F, G, H, y
  <2>6. h[y] + H <= (f[y] + F) + (g[y] + G)
    BY <2>3, <2>4, <2>5
  <2> QED BY <2>2, <2>6
<1> HIDE DEF P
<1>3. \A T \in SUBSET S : T \in P
  BY <1>1, <1>2, SubsetInduction
<1> QED BY <1>3 DEF P

(* With everything accounted for, what is owed is in the treasury, but for  *)
(* what others were paid beyond their due.                                  *)
LEMMA PayableNow ==
  ASSUME TypeOK, Accounted, SharesFit
  PROVE  TotalOwed + gifts <= treasury + TotalExcess
<1> DEFINE owed == [f \in Funders |-> Owed(f)]
           due == [f \in Funders |-> Due(f)]
           excess == [f \in Funders |-> Excess(f)]
           part == [f \in Funders |-> IF got[f] > Due(f) THEN Due(f) ELSE got[f]]
           Sum(f) == SumFunctionOnSet(f, Funders)
<1>1. \A f \in Funders : Due(f) \in Nat /\ got[f] \in Nat /\ (~used[f] => got[f] = 0)
  BY AmountNat, ListsTyped DEF Due, TypeOK, Accounted
<1>2. ASSUME NEW f \in Funders
      PROVE  /\ owed[f] \in Nat /\ due[f] \in Nat /\ excess[f] \in Nat /\ part[f] \in Nat /\ got[f] \in Nat
             /\ owed[f] + part[f] <= due[f] /\ got[f] <= part[f] + excess[f]
  <2>1. Due(f) \in Nat /\ got[f] \in Nat /\ (~used[f] => got[f] = 0)
    BY <1>1
  <2>2. /\ owed[f] = (IF used[f] THEN 0 ELSE Due(f)) /\ due[f] = Due(f)
        /\ excess[f] = (IF got[f] > Due(f) THEN got[f] - Due(f) ELSE 0)
        /\ part[f] = (IF got[f] > Due(f) THEN Due(f) ELSE got[f])
    BY DEF Owed, Excess
  <2> HIDE DEF owed, due, excess, part
  <2> QED BY <2>1, <2>2
<1>3. IsFiniteSet(Funders) /\ DOMAIN got = Funders
  BY SaleAssumption DEF TypeOK
<1>4. TotalOwed = Sum(owed) /\ TotalExcess = Sum(excess) /\ SumFunction(got) = Sum(got)
  BY <1>3 DEF TotalOwed, TotalExcess, SumFunction
<1>5. Sum(due) <= funds_collected
  BY TakingsCover
<1> HIDE DEF owed, due, excess, part
<1>6. Sum(owed) + Sum(part) <= Sum(due)
  BY <1>2, <1>3, SumBoth
<1>7. Sum(got) <= Sum(part) + Sum(excess)
  BY <1>2, <1>3, SumWithin
<1>8. /\ Sum(owed) \in Nat /\ Sum(part) \in Nat /\ Sum(due) \in Nat
      /\ Sum(excess) \in Nat /\ Sum(got) \in Nat
  BY <1>2, <1>3, SumNat
<1>9. /\ treasury + Sum(got) = funds_collected + gifts
      /\ treasury \in Nat /\ funds_collected \in Nat /\ gifts \in Nat
  BY <1>4, SaleAssumption DEF Accounted, TypeOK
<1> HIDE DEF Sum
<1> QED BY <1>4, <1>5, <1>6, <1>7, <1>8, <1>9

LEMMA AccountedInit == Init => Accounted
<1> SUFFICES ASSUME Init PROVE Accounted
  OBVIOUS
<1>1. got = [f \in Funders |-> 0] /\ DOMAIN got = Funders /\ IsFiniteSet(Funders)
  BY SaleAssumption DEF Init
<1>2. SumFunctionOnSet(got, Funders) = Cardinality(Funders) * 0 /\ Cardinality(Funders) \in Nat
  <2>1. \A f \in Funders : got[f] = 0
    BY <1>1
  <2> QED BY <1>1, <2>1, SumConstant, FS_CardinalityType
<1>3. SumFunction(got) = 0
  BY <1>1, <1>2 DEF SumFunction
<1> QED BY <1>1, <1>3 DEF Init, Accounted

(* A payout adds to what was paid what it takes from the treasury. *)
LEMMA WithdrawAccounts ==
  ASSUME SaleInv, Accounted, NEW f \in Funders, NEW s \in Lists, Withdraw(f, s)
  PROVE  Accounted'
<1> DEFINE n == Amount(s, f)
<1>1. n \in Nat
  BY AmountNat, ListsTyped DEF SaleInv
<1>2. got \in [Funders -> Int] /\ got \in [Funders -> Nat] /\ IsFiniteSet(Funders) /\ got[f] = 0
  BY SaleAssumption DEF SaleInv, TypeOK, Accounted, Withdraw
<1>3. /\ treasury' = treasury - n /\ got' = [got EXCEPT ![f] = n]
      /\ used' = [used EXCEPT ![f] = TRUE] /\ used \in [Funders -> BOOLEAN]
      /\ gifts' = gifts /\ funds_collected' = funds_collected
  BY DEF Withdraw, marketVars, SaleInv, TypeOK
<1>4. treasury \in Nat /\ treasury + SumFunction(got) = funds_collected + gifts
  BY SaleAssumption DEF SaleInv, TypeOK, Accounted
<1> HIDE DEF n
<1>5. SumFunction(got') = SumFunction(got) - got[f] + n
  <2>1. n \in Int
    BY <1>1
  <2> QED BY <1>2, <1>3, <2>1, SumUpdate
<1>6. SumFunction(got) \in Int
  <2>1. DOMAIN got = Funders /\ \A g \in Funders : got[g] \in Int
    BY <1>2
  <2> QED BY <1>2, <2>1, SumInt DEF SumFunction
<1>7. treasury' + SumFunction(got') = funds_collected' + gifts'
  BY <1>1, <1>2, <1>3, <1>4, <1>5, <1>6
<1>8. \A g \in Funders : ~used'[g] => got'[g] = 0
  BY <1>2, <1>3 DEF Accounted
<1> QED BY <1>7, <1>8 DEF Accounted

LEMMA AccountedStep == SaleInv /\ Accounted /\ [Next]_vars => Accounted'
<1> SUFFICES ASSUME SaleInv, Accounted, [Next]_vars PROVE Accounted'
  OBVIOUS
<1> USE DEF resourceVars, marketVars, metadataVars, buyerVars, payoutVars
<1>1. ASSUME UNCHANGED <<treasury, got, funds_collected, gifts, used>> PROVE Accounted'
  BY <1>1 DEF Accounted
<1>2. SumFunction(got) \in Int
  <2>1. IsFiniteSet(Funders) /\ DOMAIN got = Funders /\ \A f \in Funders : got[f] \in Int
    BY SaleAssumption DEF SaleInv, TypeOK
  <2> QED BY <2>1, SumInt DEF SumFunction
<1>3. treasury \in Nat /\ funds_collected \in Nat /\ gifts \in Nat
  BY SaleAssumption DEF SaleInv, TypeOK
<1>4. ASSUME NEW n \in Nat, NEW m \in Nat, treasury' = treasury + n + m, got' = got, used' = used,
             funds_collected' = funds_collected + n, gifts' = gifts + m
      PROVE  Accounted'
  BY <1>2, <1>3, <1>4 DEF Accounted
<1>5. CASE UNCHANGED vars
  BY <1>1, <1>5 DEF vars
<1>6. CASE \E max \in Supplies : InitSellingResource(max)
  BY <1>1, <1>6 DEF InitSellingResource
<1>7. CASE \E shares \in PrimaryShares : SavePrimaryMetadataCreators(shares)
  BY <1>1, <1>7 DEF SavePrimaryMetadataCreators
<1>8. CASE \E m \in Markets : CreateMarket(m)
  BY <1>1, <1>8 DEF CreateMarket
<1>9. CASE \E w \in Wallets : Buy(w)
  <2> PICK w \in Wallets : Buy(w)
    BY <1>9
  <2>1. market.price \in Nat
    BY SaleAssumption DEF SaleInv, TypeOK, Buy, Optional, Market
  <2>2. /\ treasury' = treasury + market.price + 0 /\ gifts' = gifts + 0
        /\ funds_collected' = funds_collected + market.price /\ got' = got /\ used' = used
    BY <1>3, <2>1 DEF Buy
  <2> QED BY <1>4, <2>1, <2>2
<1>10. CASE SuspendMarket \/ ResumeMarket \/ CloseMarket
  BY <1>1, <1>10 DEF SuspendMarket, ResumeMarket, CloseMarket, MarketBecomes
<1>11. CASE \E c \in Changes : ChangeMarket(c)
  BY <1>1, <1>11 DEF ChangeMarket
<1>12. CASE \E f \in Funders : \E s \in Lists : Withdraw(f, s)
  BY <1>12, WithdrawAccounts
<1>13. CASE Gift
  <2>1. /\ treasury' = treasury + 0 + 1 /\ gifts' = gifts + 1
        /\ funds_collected' = funds_collected + 0 /\ got' = got /\ used' = used
    BY <1>3, <1>13 DEF Gift
  <2> QED BY <1>4, <2>1
<1>14. CASE ClaimResource \/ PrimarySaleHappens \/ Tick
  BY <1>1, <1>14 DEF ClaimResource, PrimarySaleHappens, Tick
<1> QED BY <1>5, <1>6, <1>7, <1>8, <1>9, <1>10, <1>11, <1>12, <1>13, <1>14 DEF Next

LEMMA PayInvariant == Spec => [](SaleInv /\ Accounted)
BY SaleInvInit, SaleInvStep, AccountedInit, AccountedStep, PTL DEF Spec

(* Whoever asks first and by whatever list, and whatever roundings,         *)
(* royalties and the owner's two roles do: what is still owed is in the     *)
(* treasury, but for what others were paid beyond their due (withdraw).     *)
THEOREM NobodyGoesUnpaid == Spec => []EverybodyCanBePaid
<1>1. SaleInv /\ Accounted => EverybodyCanBePaid
  BY PayableNow DEF EverybodyCanBePaid, SaleInv
<1> QED BY <1>1, PayInvariant, PTL

(* The owner takes the master edition back only when nothing is owed but    *)
(* what others were paid beyond their due (claim_resource).                 *)
THEOREM ClaimsComeLast == Spec => ClaimedWhenPaid
<1> DEFINE Settled == (vault /\ ~vault' /\ SharesFit) => TotalOwed + gifts <= TotalExcess
<1>1. SaleInv /\ Accounted /\ [Next]_vars => [Settled]_vars
  <2> SUFFICES ASSUME SaleInv, Accounted, Next, vault, ~vault', SharesFit
               PROVE  TotalOwed + gifts <= TotalExcess
    OBVIOUS
  <2>1. ClaimResource
    BY DEF Next, InitSellingResource, SavePrimaryMetadataCreators, CreateMarket, Buy,
         SuspendMarket, ResumeMarket, CloseMarket, MarketBecomes, ChangeMarket, Withdraw, Gift,
         PrimarySaleHappens, Tick
  <2>2. treasury = 0
    BY <2>1 DEF ClaimResource, TreasuryEmpty
  <2>3. TotalOwed + gifts <= 0 + TotalExcess
    BY <2>2, PayableNow DEF SaleInv
  <2>4. TotalExcess \in Nat
    <3> DEFINE excess == [f \in Funders |-> Excess(f)]
    <3>1. \A f \in Funders : Due(f) \in Nat /\ got[f] \in Nat
      BY AmountNat, ListsTyped DEF Due, SaleInv, TypeOK
    <3>2. DOMAIN excess = Funders /\ IsFiniteSet(Funders) /\ \A f \in Funders : excess[f] \in Nat
      BY <3>1, SaleAssumption DEF Excess
    <3> HIDE DEF excess
    <3>3. SumFunction(excess) \in Nat
      BY <3>2, SumNat DEF SumFunction
    <3> QED BY <3>3 DEF TotalExcess, excess
  <2> QED BY <2>3, <2>4
<1> QED BY <1>1, PayInvariant, PTL DEF Spec, ClaimedWhenPaid
=============================================================================
