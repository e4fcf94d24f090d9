-------------------------------- MODULE Vault --------------------------------
(***************************************************************************)
(* The token vault program: one vault, its safety deposit boxes, the mint  *)
(* of its fractional shares with the treasury that keeps the uncirculated  *)
(* ones, the treasury that shareholders are paid from, and the external    *)
(* price accounts.  An instruction that returns an error changes nothing,  *)
(* so every instruction is one action guarded by its checks.               *)
(***************************************************************************)
EXTENDS Integers, FiniteSets, Functions

CONSTANTS
  Tokens,         \* mints that may get a safety deposit box
  Holders,        \* owners of share accounts and of payment accounts
  Authorities,    \* wallets that may be the authority of the vault
  PriceAccounts,  \* addresses of ExternalPriceAccounts
  Currencies,     \* mints of the money
  Prices,         \* contents an ExternalPriceAccount may be given
  Deposits,       \* amounts passed to AddToken
  ShareCounts,    \* numbers of shares passed to the instructions on shares
  Gifts,          \* amounts sent to a store by the token program itself
  InitialTokens,  \* tokens of each mint outside the vault at the start
  InitialMoney,   \* money every holder starts with
  MaxU8, MaxU64,  \* largest values of the integer types
  None

ExternalPriceAccount ==
  [price_per_share : Nat, price_mint : Currencies \cup {None}, allowed_to_combine : BOOLEAN]

ASSUME VaultAssumption ==
  /\ Prices \subseteq ExternalPriceAccount
  /\ Deposits \subseteq Nat
  /\ ShareCounts \subseteq Nat
  /\ Gifts \subseteq Nat
  /\ InitialTokens \in Nat
  /\ InitialMoney \in Nat
  /\ MaxU8 \in Nat
  /\ MaxU64 \in Nat
  /\ IsFiniteSet(Tokens) /\ IsFiniteSet(Holders)
  /\ None \notin Nat

VARIABLES
  state, authority, allow_further_share_creation, pricing_lookup_address,
  token_type_count, locked_price_per_share,         \* Vault
  order,            \* SafetyDepositBox::order of each mint, or None without a box
  store, outside,   \* tokens of each mint in the store of its box, and elsewhere
  supply, fraction_treasury, shares,   \* the share mint, its treasury, its holders
  redeem_mint, redeem_treasury, money, \* the payment currency, its treasury, its holders
  price,                               \* the ExternalPriceAccounts
  refills           \* history: how often a gift came into an empty store

vaultVars == <<state, authority, allow_further_share_creation, pricing_lookup_address,
               token_type_count, locked_price_per_share>>
boxVars   == <<order, store, outside, refills>>
shareVars == <<supply, fraction_treasury, shares>>
moneyVars == <<redeem_mint, redeem_treasury, money>>
vars == <<vaultVars, boxVars, shareVars, moneyVars, price>>

Boxes == {t \in Tokens : order[t] # None}
Filled == {t \in Tokens : store[t] > 0}

(* Types of the accounts; the count of boxes fits the byte it is kept in. *)
TypeOK ==
  /\ state \in {"Missing", "Inactive", "Active", "Combined", "Deactivated"}
  /\ authority \in Authorities \cup {None}
  /\ allow_further_share_creation \in BOOLEAN
  /\ pricing_lookup_address \in PriceAccounts \cup {None}
  /\ token_type_count \in 0 .. MaxU8
  /\ locked_price_per_share \in Nat
  /\ order \in [Tokens -> Nat \cup {None}]
  /\ store \in [Tokens -> Nat]
  /\ outside \in [Tokens -> Nat]
  /\ supply \in Nat
  /\ fraction_treasury \in Nat
  /\ shares \in [Holders -> Nat]
  /\ redeem_mint \in Currencies \cup {None}
  /\ redeem_treasury \in Nat
  /\ money \in [Holders -> Nat]
  /\ price \in [PriceAccounts -> ExternalPriceAccount]
  /\ refills \in Nat
----------------------------------------------------------------------------
(* What the account passed as fraction treasury holds.  combine_vault never *)
(* compares it with vault.fraction_treasury; the burn asks for an account   *)
(* of the share mint that the burn authority owns, and an empty one will do. *)
Treasuries == {fraction_treasury, 0}

(* The combining holder pays for the shares that it does not hold, without  *)
(* those stored in the account passed as fraction treasury.                 *)
OwedToCombine(h, stored, p) ==
  supply * p.price_per_share - stored * p.price_per_share - shares[h] * p.price_per_share

(* The price that is locked.  Mutant: that of the address kept in the vault. *)
LookupPrice(a) == price[pricing_lookup_address].price_per_share
LockedPrice(a) == price[a].price_per_share

(* The supply left by the two burns.  Mutant: the treasury is not burnt.    *)
SupplyWithoutOwn(h, stored) == supply - shares[h]
SupplyAfterCombine(h, stored) == supply - shares[h] - stored

(* Every product of combine_vault is checked against u64. *)
CapFits(h, stored, p) ==
  \A n \in {supply, stored, shares[h]} : n * p.price_per_share <= MaxU64

(* What redeem_shares pays for all the shares of one account. *)
WeOweYou(h) == locked_price_per_share * shares[h]

(* The vault is done when the last share or the last box goes.  Mutant:     *)
(* the boxes are not asked for.                                             *)
DoneWithoutShares(count, left) == left = 0
Done(count, left) == left = 0 /\ count = 0

(* The order key of a new box.                                               *)
NextOrder == token_type_count

(* checked_add on the byte.                                                 *)
RoomForBox == token_type_count < MaxU8

(* The count after a withdrawal of n.  Mutant: never counted down.          *)
CountKept(t, n) == token_type_count
CountAfter(t, n) == IF store[t] = n THEN token_type_count - 1 ELSE token_type_count
----------------------------------------------------------------------------
Init ==
  /\ state = "Missing" /\ authority = None
  /\ allow_further_share_creation = FALSE /\ pricing_lookup_address = None
  /\ token_type_count = 0 /\ locked_price_per_share = 0
  /\ order = [t \in Tokens |-> None]
  /\ store = [t \in Tokens |-> 0]
  /\ outside = [t \in Tokens |-> InitialTokens]
  /\ refills = 0
  /\ supply = 0 /\ fraction_treasury = 0 /\ shares = [h \in Holders |-> 0]
  /\ redeem_mint = None /\ redeem_treasury = 0
  /\ money = [h \in Holders |-> InitialMoney]
  /\ price = [a \in PriceAccounts |->
                [price_per_share |-> 0, price_mint |-> None, allowed_to_combine |-> FALSE]]

(* process_update_external_price_account, signed by the account itself. *)
UpdatePrice(a, p) ==
  /\ price' = [price EXCEPT ![a] = p]
  /\ UNCHANGED <<vaultVars, boxVars, shareVars, moneyVars>>

(* The redeem treasury, still empty, holds the mint the lookup account names. *)
InitVault(s, a, allow) ==
  /\ state = "Missing"
  /\ price[a].price_mint # None
  /\ state' = "Inactive"
  /\ authority' = s
  /\ allow_further_share_creation' = allow
  /\ pricing_lookup_address' = a
  /\ redeem_mint' = price[a].price_mint
  /\ UNCHANGED <<token_type_count, locked_price_per_share, boxVars, shareVars,
                 redeem_treasury, money, price>>

SetAuthority(s, new) ==
  /\ state # "Missing"
  /\ s = authority
  /\ authority' = new
  /\ UNCHANGED <<state, allow_further_share_creation, pricing_lookup_address, token_type_count,
                 locked_price_per_share, boxVars, shareVars, moneyVars, price>>

(* One box per mint: its address is derived from the mint. *)
AddToken(s, t, n) ==
  /\ state = "Inactive"
  /\ s = authority
  /\ order[t] = None
  /\ outside[t] > 0 /\ n <= outside[t]
  /\ RoomForBox
  /\ order' = [order EXCEPT ![t] = NextOrder]
  /\ token_type_count' = token_type_count + 1
  /\ store' = [store EXCEPT ![t] = @ + n]
  /\ outside' = [outside EXCEPT ![t] = @ - n]
  /\ UNCHANGED <<state, authority, allow_further_share_creation, pricing_lookup_address,
                 locked_price_per_share, refills, shareVars, moneyVars, price>>

Activate(s, n) ==
  /\ state = "Inactive"
  /\ s = authority
  /\ supply + n <= MaxU64
  /\ state' = "Active"
  /\ supply' = supply + n
  /\ fraction_treasury' = fraction_treasury + n
  /\ UNCHANGED <<authority, allow_further_share_creation, pricing_lookup_address,
                 token_type_count, locked_price_per_share, boxVars, shares, moneyVars, price>>

MintShares(s, n) ==
  /\ state = "Active"
  /\ s = authority
  /\ allow_further_share_creation
  /\ supply + n <= MaxU64
  /\ supply' = supply + n
  /\ fraction_treasury' = fraction_treasury + n
  /\ UNCHANGED <<vaultVars, boxVars, shares, moneyVars, price>>

AddShares(s, h, n) ==
  /\ state = "Active"
  /\ s = authority
  /\ shares[h] >= n
  /\ shares' = [shares EXCEPT ![h] = @ - n]
  /\ fraction_treasury' = fraction_treasury + n
  /\ UNCHANGED <<vaultVars, boxVars, supply, moneyVars, price>>

WithdrawShares(s, h, n) ==
  /\ state = "Active"
  /\ s = authority
  /\ fraction_treasury >= n
  /\ fraction_treasury' = fraction_treasury - n
  /\ shares' = [shares EXCEPT ![h] = @ + n]
  /\ UNCHANGED <<vaultVars, boxVars, supply, moneyVars, price>>

(* combine_vault: h pays and burns its shares, and those of the account     *)
(* passed as treasury are burnt too.  Any price account in the right        *)
(* currency that allows it is accepted.                                     *)
Combine(s, h, a, new, stored) ==
  LET p == price[a]
      owed == OwedToCombine(h, stored, p)
  IN /\ state = "Active"
     /\ s = authority
     /\ p.price_mint = redeem_mint
     /\ p.allowed_to_combine
     /\ CapFits(h, stored, p)
     /\ owed \in 0 .. money[h]
     /\ SupplyAfterCombine(h, stored) >= 0
     /\ money' = [money EXCEPT ![h] = @ - owed]
     /\ redeem_treasury' = redeem_treasury + owed
     /\ supply' = SupplyAfterCombine(h, stored)
     /\ shares' = [shares EXCEPT ![h] = 0]
     /\ fraction_treasury' = fraction_treasury - stored
     /\ state' = "Combined"
     /\ authority' = new
     /\ locked_price_per_share' = LockedPrice(a)
     /\ UNCHANGED <<allow_further_share_creation, pricing_lookup_address, token_type_count,
                    boxVars, redeem_mint, price>>

(* redeem_shares needs no authority: it pays and burns the whole account.   *)
Redeem(h) ==
  /\ state = "Combined"
  /\ shares[h] > 0
  /\ WeOweYou(h) <= MaxU64
  /\ WeOweYou(h) <= redeem_treasury
  /\ shares[h] <= supply
  /\ redeem_treasury' = redeem_treasury - WeOweYou(h)
  /\ money' = [money EXCEPT ![h] = @ + WeOweYou(h)]
  /\ supply' = supply - shares[h]
  /\ shares' = [shares EXCEPT ![h] = 0]
  /\ state' = IF Done(token_type_count, supply') THEN "Deactivated" ELSE state
  /\ UNCHANGED <<authority, allow_further_share_creation, pricing_lookup_address,
                 token_type_count, locked_price_per_share, boxVars, fraction_treasury,
                 redeem_mint, price>>

(* withdraw_token: the box counts as opened when its store is emptied.      *)
WithdrawToken(s, t, n) ==
  /\ state = "Combined"
  /\ s = authority
  /\ order[t] # None
  /\ store[t] > 0 /\ n <= store[t]
  /\ CountAfter(t, n) >= 0
  /\ store' = [store EXCEPT ![t] = @ - n]
  /\ outside' = [outside EXCEPT ![t] = @ + n]
  /\ token_type_count' = CountAfter(t, n)
  /\ state' = IF n = store[t] /\ Done(token_type_count', supply) THEN "Deactivated" ELSE state
  /\ UNCHANGED <<authority, allow_further_share_creation, pricing_lookup_address,
                 locked_price_per_share, order, refills, shareVars, moneyVars, price>>

(* The token program lets anybody send tokens to a store. *)
Gift(t, n) ==
  /\ order[t] # None
  /\ n <= outside[t]
  /\ store' = [store EXCEPT ![t] = @ + n]
  /\ outside' = [outside EXCEPT ![t] = @ - n]
  /\ refills' = IF store[t] = 0 /\ n > 0 THEN refills + 1 ELSE refills
  /\ UNCHANGED <<vaultVars, order, shareVars, moneyVars, price>>

Next ==
  \/ \E a \in PriceAccounts, p \in Prices : UpdatePrice(a, p)
  \/ \E s \in Authorities, a \in PriceAccounts, allow \in BOOLEAN : InitVault(s, a, allow)
  \/ \E s, new \in Authorities : SetAuthority(s, new)
  \/ \E s \in Authorities, t \in Tokens, n \in Deposits : AddToken(s, t, n)
  \/ \E s \in Authorities, n \in ShareCounts : Activate(s, n)
  \/ \E s \in Authorities, n \in ShareCounts : MintShares(s, n)
  \/ \E s \in Authorities, h \in Holders, n \in ShareCounts : AddShares(s, h, n)
  \/ \E s \in Authorities, h \in Holders, n \in ShareCounts : WithdrawShares(s, h, n)
  \/ \E s, new \in Authorities, h \in Holders, a \in PriceAccounts, stored \in Treasuries :
       Combine(s, h, a, new, stored)
  \/ \E h \in Holders : Redeem(h)
  \/ \E s \in Authorities, t \in Tokens, n \in 0 .. InitialTokens : WithdrawToken(s, t, n)
  \/ \E t \in Tokens, n \in Gifts : Gift(t, n)

Spec == Init /\ [][Next]_vars
----------------------------------------------------------------------------
(***************************************************************************)
(* Safety.                                                                 *)
(***************************************************************************)

(* No sequence of minting, circulating, combining and redeeming loses or    *)
(* makes a share: the supply is what the treasury and the holders have.     *)
SharesAddUp == supply = fraction_treasury + SumFunction(shares)

(* After the buyout the redeem treasury covers every share that is left at  *)
(* the locked price, whatever the price accounts say by then, so holders    *)
(* are paid in whatever order they come (redeem_shares, combine_vault).     *)
Solvent == state = "Combined" => redeem_treasury >= locked_price_per_share * supply

(* "could possibly have two safety deposits with the same order key": the   *)
(* order of the boxes, by which the auction manager pays its prizes, stays  *)
(* unambiguous.                                                             *)
OrderKeysUnique == \A t, u \in Boxes : order[t] = order[u] => t = u

(* state.rs:48: the count of boxes still to be opened and the supply tell    *)
(* when the vault is done.  The step that deactivates it leaves no share in *)
(* circulation, and tokens, which nobody could take out any more, in no     *)
(* more boxes than strangers sent tokens to while they were empty.          *)
NothingLeftWhenDeactivated ==
  [][ (state # "Deactivated" /\ state' = "Deactivated") =>
        supply' = 0 /\ Cardinality(Filled') <= refills' ]_vars

(* instruction.rs:107 and :122: the withdrawal or redemption after which    *)
(* the supply is zero and all tokens are removed deactivates the vault, if  *)
(* no counted box was without tokens.                                       *)
DeactivatesWithTheLast ==
  [][ (/\ state = "Combined" /\ token_type_count <= Cardinality(Filled)
       /\ supply' < supply \/ Filled' # Filled
       /\ supply' = 0 /\ Filled' = {}) => state' = "Deactivated" ]_vars
----------------------------------------------------------------------------
(***************************************************************************)
(* Liveness.  Holders redeem and the authority empties the boxes.           *)
(***************************************************************************)
Fairness ==
  /\ \A h \in Holders : WF_vars(Redeem(h))
  /\ \A t \in Tokens : WF_vars(WithdrawToken(authority, t, store[t]))
FairSpec == Spec /\ Fairness

(* A bought vault with shares or tokens left is deactivated in the end,     *)
(* whatever strangers send to its stores: nobody is stuck with a share or a *)
(* box that cannot be opened.  It must have burnt its treasury, and no      *)
(* counted box may be without tokens, for neither can be made good later.   *)
WindsDown ==
  (/\ state = "Combined"
   /\ supply > 0 \/ Filled # {}
   /\ fraction_treasury = 0
   /\ token_type_count <= Cardinality(Filled)) ~> state = "Deactivated"
============================================================================
