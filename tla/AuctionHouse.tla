---------------------------- MODULE AuctionHouse ----------------------------
(***************************************************************************)
(* The auction house program: one house, the tokens of one mint, and the   *)
(* wallets that list, bid, deposit and trade through it.  A trade state is *)
(* an account whose address is derived from its contents, so it is modelled *)
(* by those contents and exists or does not.  The rent of accounts and the *)
(* fee account that pays it are left out.                                  *)
(***************************************************************************)
EXTENDS Integers, FiniteSets, Functions

CONSTANTS
  Wallets,        \* wallets, each with its associated token account
  Creators,       \* creators in the metadata of the mint
  share,          \* share of each creator, in percent
  royalty,        \* seller_fee_basis_points of the metadata
  Houses,         \* settings passed when a house is created or updated
  ScopeChoices,   \* sets of scopes an auctioneer is given
  MaxPrice,       \* u64::MAX, the price of an auctioneer's listing
  Listings, Bids, \* bound: the listings and bids the wallets may make
  Amounts,        \* amounts deposited, withdrawn and moved
  IsNative,       \* the payment currency is SOL
  initialTokens, initialMoney, \* what each wallet starts with
  MaxTradeStates, \* bound on the trade states open at once
  Any, None

BasisPoints == 10000
Scopes == {"Deposit", "Buy", "PublicBuy", "ExecuteSale", "Sell", "Cancel", "Withdraw"}
HouseSettings ==
  [seller_fee_basis_points : 0 .. BasisPoints, requires_sign_off : BOOLEAN,
   can_change_sale_price : BOOLEAN]

(* A public bid names no token account; a listing names its wallet's.        *)
TradeState == [wallet : Wallets, account : Wallets \cup {Any}, price : Nat, size : Nat]
Listing(w, price, size) == [wallet |-> w, account |-> w, price |-> price, size |-> size]

ASSUME HouseAssumption ==
  /\ Houses \subseteq HouseSettings
  /\ ScopeChoices \subseteq SUBSET Scopes
  /\ MaxPrice \in Nat /\ Amounts \subseteq Nat
  /\ Listings \subseteq TradeState /\ \A l \in Listings : l.account = l.wallet
  /\ Bids \subseteq TradeState
  /\ share \in [Creators -> 0 .. 100] /\ SumFunction(share) \in 0 .. 100
  /\ royalty \in 0 .. BasisPoints
  /\ IsNative \in BOOLEAN
  /\ initialTokens \in [Wallets -> Nat] /\ initialMoney \in [Wallets -> Nat]
  /\ Any \notin Wallets /\ None \notin Nat /\ None \notin HouseSettings
  /\ IsFiniteSet(Creators)

VARIABLES
  house, has_auctioneer, scopes,  \* AuctionHouse
  trade_states,      \* listings and bids that exist
  tokens, approved,  \* token accounts: amount, and amount the program may move or None
  money, escrow,     \* payment accounts and escrow accounts of the wallets
  treasury, royalties, \* the house's account, and what the creators were paid
  signed             \* history: listings the wallet itself has signed for

houseVars == <<house, has_auctioneer, scopes>>
tokenVars == <<tokens, approved>>
moneyVars == <<money, escrow, treasury, royalties>>
vars == <<houseVars, trade_states, tokenVars, moneyVars, signed>>

(* Types of the accounts: no sale or withdrawal takes more than there is. *)
TypeOK ==
  /\ house \in HouseSettings \cup {None}
  /\ has_auctioneer \in BOOLEAN /\ scopes \subseteq Scopes
  /\ trade_states \subseteq TradeState /\ signed \subseteq TradeState
  /\ tokens \in [Wallets -> Nat] /\ approved \in [Wallets -> Nat \cup {None}]
  /\ money \in [Wallets -> Nat] /\ escrow \in [Wallets -> Nat]
  /\ treasury \in Nat /\ royalties \in Nat
----------------------------------------------------------------------------
(* A handler of the auctioneer's and the direct one exclude each other: the *)
(* scope decides.  assert_valid_auctioneer_and_scope, MustUseAuctioneer-    *)
(* Handler.                                                                 *)
Handler(auctioneer, scope) == auctioneer <=> (has_auctioneer /\ scope \in scopes)

(* A bid of the auctioneer's needs the scope Buy, whether public or not.    *)
BidHandler(auctioneer, public) ==
  IF auctioneer THEN has_auctioneer /\ "Buy" \in scopes
  ELSE ~(has_auctioneer /\ (IF public THEN "PublicBuy" ELSE "Buy") \in scopes)

(* get_fee_payer: the house pays if its authority signs, else a signing     *)
(* wallet does, if the house does not insist on its signature.              *)
FeePayer(auth, wallet_signs) == auth \/ (wallet_signs /\ ~house.requires_sign_off)

(* Fees are rounded down; what the creators' shares do not add up to goes   *)
(* to the seller.  Mutants: it stays in the escrow; the seller's share is   *)
(* taken before the fee of the house.                                       *)
HouseFee(price) == (house.seller_fee_basis_points * price) \div BasisPoints
Royalty(price) == (royalty * price) \div BasisPoints
CreatorsFee(price) == SumFunction([c \in Creators |-> (share[c] * Royalty(price)) \div 100])
SellerShareWithoutDust(price) == price - Royalty(price) - HouseFee(price)
SellerShare(price) == price - Royalty(price) + (Royalty(price) - CreatorsFee(price)) - HouseFee(price)

(* Who may set a listing's price: the owner, or the authority for a listing *)
(* the owner gave away.  Mutant: it is not asked whether the owner did.     *)
RepricesAnything(w, price, size) == price # 0 /\ house.can_change_sale_price
Reprices(w, price, size) ==
  /\ price # 0 /\ house.can_change_sale_price
  /\ Listing(w, 0, size) \in trade_states

(* What is missing in the escrow for one bid. *)
Missing(w, price) == IF escrow[w] < price THEN price - escrow[w] ELSE 0

(* A bid for the whole listing, or for a part of it at the price of a unit. *)
(* Mutant: the part is not priced.                                          *)
WholeLot(auctioneer, l, t) ==
  t.size = l.size /\ l.price = (IF auctioneer THEN MaxPrice ELSE t.price)
UnpricedPartOfLot(l, t) == l.size > 0
PartOfLot(l, t) == l.size > 0 /\ (l.price \div l.size) * t.size = t.price
----------------------------------------------------------------------------
Init ==
  /\ house = None /\ has_auctioneer = FALSE /\ scopes = {}
  /\ trade_states = {} /\ signed = {}
  /\ tokens = initialTokens /\ approved = [w \in Wallets |-> None]
  /\ money = initialMoney /\ escrow = [w \in Wallets |-> 0]
  /\ treasury = 0 /\ royalties = 0

CreateHouse(settings) ==
  /\ house = None
  /\ house' = settings
  /\ UNCHANGED <<has_auctioneer, scopes, trade_states, tokenVars, moneyVars, signed>>

UpdateHouse(settings) ==
  /\ house # None
  /\ house' = settings
  /\ UNCHANGED <<has_auctioneer, scopes, trade_states, tokenVars, moneyVars, signed>>

DelegateAuctioneer(sc) ==
  /\ house # None /\ ~has_auctioneer
  /\ has_auctioneer' = TRUE
  /\ scopes' = sc
  /\ UNCHANGED <<house, trade_states, tokenVars, moneyVars, signed>>

UpdateAuctioneer(sc) ==
  /\ has_auctioneer
  /\ scopes' = sc
  /\ UNCHANGED <<house, has_auctioneer, trade_states, tokenVars, moneyVars, signed>>

WithdrawFromTreasury(n) ==
  /\ house # None /\ n <= treasury
  /\ treasury' = treasury - n
  /\ UNCHANGED <<houseVars, trade_states, tokenVars, money, escrow, royalties, signed>>

(* The wallet signs deposits and bids. *)
Deposit(auctioneer, w, n, auth) ==
  /\ house # None /\ Handler(auctioneer, "Deposit") /\ FeePayer(auth, TRUE)
  /\ n <= money[w]
  /\ money' = [money EXCEPT ![w] = @ - n]
  /\ escrow' = [escrow EXCEPT ![w] = @ + n]
  /\ UNCHANGED <<houseVars, trade_states, tokenVars, treasury, royalties, signed>>

Refund(w, n) ==
  /\ n <= escrow[w]
  /\ money' = [money EXCEPT ![w] = @ + n]
  /\ escrow' = [escrow EXCEPT ![w] = @ - n]
  /\ UNCHANGED <<houseVars, trade_states, tokenVars, treasury, royalties, signed>>

Withdraw(auctioneer, w, n, wallet_signs, auth) ==
  /\ house # None /\ Handler(auctioneer, "Withdraw") /\ FeePayer(auth, wallet_signs)
  /\ Refund(w, n)

(* close_escrow_account: asks neither for a scope nor for a sign-off.       *)
CloseEscrow(w) ==
  /\ house # None /\ IsNative /\ escrow[w] > 0
  /\ Refund(w, escrow[w])

RoomFor(ts) == ts \in trade_states \/ Cardinality(trade_states) < MaxTradeStates

(* sell_logic: the owner's signature also renews the program's approval.    *)
Sell(auctioneer, l, wallet_signs, auth) ==
  /\ house # None /\ Handler(auctioneer, "Sell")
  /\ auctioneer => l.price = MaxPrice
  /\ wallet_signs \/ (auth /\ Reprices(l.wallet, l.price, l.size))
  /\ FeePayer(auth, wallet_signs)
  /\ l.size <= tokens[l.wallet]
  /\ RoomFor(l)
  /\ approved' = IF wallet_signs THEN [approved EXCEPT ![l.wallet] = l.size] ELSE approved
  /\ signed' = IF wallet_signs THEN signed \cup {l} ELSE signed
  /\ trade_states' = trade_states \cup {l}
  /\ UNCHANGED <<houseVars, tokens, moneyVars>>

(* bid_logic: fills the escrow up to the price of this bid.                 *)
Bid(auctioneer, t, auth) ==
  /\ house # None /\ BidHandler(auctioneer, t.account = Any) /\ FeePayer(auth, TRUE)
  /\ Missing(t.wallet, t.price) <= money[t.wallet]
  /\ RoomFor(t)
  /\ money' = [money EXCEPT ![t.wallet] = @ - Missing(t.wallet, t.price)]
  /\ escrow' = [escrow EXCEPT ![t.wallet] = @ + Missing(t.wallet, t.price)]
  /\ trade_states' = trade_states \cup {t}
  /\ signed' = IF t.account = t.wallet THEN signed \cup {t} ELSE signed
  /\ UNCHANGED <<houseVars, tokenVars, treasury, royalties>>

(* cancel_logic for a bid or a listing, with the token account of o.  The   *)
(* approval of the wallet's own account goes with it only if it signs.      *)
Cancel(auctioneer, ts, o, wallet_signs, auth) ==
  /\ house # None /\ Handler(auctioneer, "Cancel") /\ FeePayer(auth, wallet_signs)
  /\ ts \in trade_states
  /\ ts.account \in {o, Any}
  /\ approved' = IF wallet_signs /\ o = ts.wallet THEN [approved EXCEPT ![o] = None] ELSE approved
  /\ trade_states' = trade_states \ {ts}
  /\ UNCHANGED <<houseVars, tokens, moneyVars, signed>>

(* execute_sale_logic and its twin for auctioneers: listing l meets bid t.  *)
(* The twin asks for the price of the whole lot in the escrow.  The amount  *)
(* that decides whether the trade states are closed was read before the     *)
(* transfer.                                                                *)
ExecuteSale(auctioneer, l, t, partial, seller_signs, buyer_signs, auth) ==
  LET s == l.wallet
      b == t.wallet
      asked == IF partial THEN l.price ELSE t.price
      left == approved[s] - t.size
  IN /\ house # None /\ Handler(auctioneer, "ExecuteSale")
     /\ FeePayer(auth, seller_signs \/ buyer_signs)
     /\ {l, t} \subseteq trade_states
     /\ l.account = s /\ t.account \in {s, Any}
     /\ IF partial THEN PartOfLot(l, t) ELSE WholeLot(auctioneer, l, t)
     /\ asked = 0 => auth \/ seller_signs
     /\ approved[s] # None /\ approved[b] = None
     /\ t.size <= tokens[s] /\ t.size <= approved[s]
     /\ SellerShare(t.price) >= 0
     /\ t.price <= escrow[b]
     /\ auctioneer /\ IsNative => asked <= escrow[b]
     /\ tokens[s] = 0 => seller_signs
     /\ escrow' = [escrow EXCEPT ![b] = @ - CreatorsFee(t.price) - HouseFee(t.price)
                                          - SellerShare(t.price)]
     /\ royalties' = royalties + CreatorsFee(t.price)
     /\ treasury' = treasury + HouseFee(t.price)
     /\ money' = [money EXCEPT ![s] = @ + SellerShare(t.price)]
     /\ tokens' = [tokens EXCEPT ![s] = @ - t.size, ![b] = @ + t.size]
     /\ approved' = [approved EXCEPT ![s] = IF left = 0 THEN None ELSE left]
     /\ trade_states' = IF tokens[s] = 0
                        THEN trade_states \ {l, t, Listing(s, 0, l.size)} ELSE trade_states
     /\ UNCHANGED <<houseVars, signed>>

(* The token program lets the owner move its tokens while they are listed.  *)
Move(w, v, n) ==
  /\ w # v /\ n <= tokens[w]
  /\ tokens' = [tokens EXCEPT ![w] = @ - n, ![v] = @ + n]
  /\ UNCHANGED <<houseVars, trade_states, approved, moneyVars, signed>>

Next ==
  \/ \E c \in Houses : CreateHouse(c) \/ UpdateHouse(c)
  \/ \E sc \in ScopeChoices : DelegateAuctioneer(sc) \/ UpdateAuctioneer(sc)
  \/ \E n \in Amounts : WithdrawFromTreasury(n)
  \/ \E a, auth \in BOOLEAN, w \in Wallets, n \in Amounts : Deposit(a, w, n, auth)
  \/ \E a, auth, signs \in BOOLEAN, w \in Wallets, n \in Amounts : Withdraw(a, w, n, signs, auth)
  \/ \E w \in Wallets : CloseEscrow(w)
  \/ \E a, auth, signs \in BOOLEAN, l \in Listings : Sell(a, l, signs, auth)
  \/ \E a, auth \in BOOLEAN, t \in Bids : Bid(a, t, auth)
  \/ \E a, auth, signs \in BOOLEAN, ts \in trade_states, o \in Wallets : Cancel(a, ts, o, signs, auth)
  \/ \E a, auth, ss, bs, partial \in BOOLEAN, l, t \in trade_states :
       ExecuteSale(a, l, t, partial, ss, bs, auth)
  \/ \E w, v \in Wallets, n \in Amounts : Move(w, v, n)

Spec == Init /\ [][Next]_vars
----------------------------------------------------------------------------
(***************************************************************************)
(* Safety.                                                                 *)
(***************************************************************************)

(* The escrow of a wallet goes down only to that wallet, or for a bid of    *)
(* its own that exists: then by its price exactly, fees and rounding        *)
(* included, against the tokens it bid for (execute_sale_logic,             *)
(* withdraw_logic, close_escrow_account).                                   *)
EscrowSpentOnBids ==
  [][\A w \in Wallets : escrow'[w] < escrow[w] =>
       LET spent == escrow[w] - escrow'[w]
       IN \/ money'[w] = money[w] + spent
          \/ \E t \in trade_states :
               t.wallet = w /\ t.price = spent /\ tokens'[w] = tokens[w] + t.size]_vars

(* Tokens leave a wallet in a sale only for a price it listed them at, that *)
(* of the whole lot or of a unit: paid to the creators, the house and the   *)
(* wallet to the last lamport (execute_sale_logic and its twin).  The price *)
(* of an auction is open.                                                   *)
SalesAsListed ==
  [][\A s \in Wallets : (tokens'[s] < tokens[s] /\ money'[s] >= money[s] /\ escrow' # escrow) =>
       LET sold == tokens[s] - tokens'[s]
           paid == (money'[s] - money[s]) + (treasury' - treasury) + (royalties' - royalties)
       IN \E l \in trade_states :
            /\ l.account = s /\ l.wallet = s
            /\ \/ sold = l.size /\ l.price \in {paid, MaxPrice}
               \/ paid = sold * (l.price \div l.size)]_vars

(* A listing without a price of its owner's is one the house set for a      *)
(* listing that the owner gave away: whatever was cancelled, sold and       *)
(* listed since, no listing carries a price its owner did not agree to.     *)
PricesAgreed ==
  \A l \in trade_states : l.account = l.wallet =>
    l \in signed \/ (Listing(l.wallet, 0, l.size) \in signed /\ l.price # 0)
----------------------------------------------------------------------------
(* bid/mod.rs:104: a public bid stays open "until either the user closes it *)
(* or [...] it is matched with a counter bid and closed as a transaction".  *)
BidsClosedBySale ==
  [][\A b \in Wallets :
       (/\ escrow'[b] < escrow[b] /\ tokens'[b] > tokens[b]
        /\ \A t \in trade_states : t.wallet = b => t.account = Any) =>
         \E t \in trade_states \ trade_states' : t.wallet = b]_vars
============================================================================
