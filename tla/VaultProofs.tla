----------------------------- MODULE VaultProofs -----------------------------
(***************************************************************************)
(* Proofs about the token vault, for any tokens, holders, prices and       *)
(* amounts: the solvency of the redeem treasury, the order keys of the     *)
(* boxes, the count by which the vault knows that it is empty, and the sum *)
(* of the shares.                                                          *)
(***************************************************************************)
EXTENDS Vault, Sums, FiniteSetTheorems, TLAPS

(* The keys handed out so far are below the count while boxes are added.    *)
OrdersBelowCount ==
  state \in {"Missing", "Inactive"} => \A t \in Boxes : order[t] < token_type_count

(* Every box with tokens in it is still counted, but for those that were     *)
(* filled again from outside; the count may be larger (boxes created empty), *)
(* never smaller.                                                           *)
FilledCounted ==
  /\ Filled \subseteq Boxes
  /\ Cardinality(Filled) <= token_type_count + refills

VaultInv == TypeOK /\ Solvent /\ OrderKeysUnique /\ OrdersBelowCount /\ FilledCounted

(* The checked products of combine_vault, taken apart, are the price of what remains. *)
LEMMA PriceOfTheRest ==
  ASSUME NEW all \in Nat, NEW kept \in Nat, NEW own \in Nat, NEW p \in Nat
  PROVE  all * p - kept * p - own * p = p * (all - own - kept)
BY SMT

(* What combine_vault may burn as the treasury is at most the treasury. *)
LEMMA TreasuryLeft ==
  ASSUME VaultInv, NEW stored \in Treasuries
  PROVE  stored \in Nat /\ fraction_treasury - stored \in Nat
BY DEF VaultInv, TypeOK, Treasuries

(* Selling one part of the shares leaves the price of the others. *)
LEMMA PriceOfTheOthers ==
  ASSUME NEW all \in Nat, NEW own \in Nat, NEW p \in Nat, NEW funds \in Nat,
         funds >= p * all
  PROVE  funds - p * own >= p * (all - own)
<1>1. p * (all - own) = p * all - p * own
  BY SMT
<1> QED BY <1>1, SMT

LEMMA FilledFinite == IsFiniteSet(Filled) /\ IsFiniteSet(Filled')
<1>1. IsFiniteSet(Tokens)
  BY VaultAssumption
<1>2. Filled \subseteq Tokens /\ Filled' \subseteq Tokens
  BY DEF Filled
<1> QED BY <1>1, <1>2, FS_Subset

(* The initial accounts satisfy the invariant. *)
LEMMA VaultInvInit == Init => VaultInv
<1> SUFFICES ASSUME Init PROVE VaultInv
  OBVIOUS
<1> USE DEF Init
<1>1. TypeOK
  <2>1. price \in [PriceAccounts -> ExternalPriceAccount]
    BY DEF ExternalPriceAccount
  <2>2. /\ store \in [Tokens -> Nat] /\ outside \in [Tokens -> Nat]
        /\ order \in [Tokens -> Nat \cup {None}]
        /\ shares \in [Holders -> Nat] /\ money \in [Holders -> Nat]
    BY VaultAssumption
  <2>3. token_type_count \in 0 .. MaxU8
    BY VaultAssumption, SMT
  <2> QED BY <2>1, <2>2, <2>3 DEF TypeOK
<1>2. Boxes = {} /\ Filled = {}
  BY DEF Boxes, Filled
<1>3. Cardinality(Filled) = 0
  BY <1>2, FS_EmptySet
<1> QED BY <1>1, <1>2, <1>3 DEF VaultInv, Solvent, OrderKeysUnique, OrdersBelowCount, FilledCounted
----------------------------------------------------------------------------
(***************************************************************************)
(* The instructions that move tokens in and out of the boxes.              *)
(***************************************************************************)

(* Opening a box of its own order, with or without tokens in it. *)
LEMMA AddTokenPreserves ==
  ASSUME VaultInv, NEW s \in Authorities, NEW t \in Tokens, NEW n \in Deposits,
         AddToken(s, t, n)
  PROVE  VaultInv'
<1> USE DEF AddToken
<1>0. n \in Nat /\ MaxU8 \in Nat /\ None \notin Nat
  BY VaultAssumption
<1>1. TypeOK'
  <2>1. /\ store' \in [Tokens -> Nat] /\ outside' \in [Tokens -> Nat]
    BY <1>0 DEF VaultInv, TypeOK
  <2>2. order' \in [Tokens -> Nat \cup {None}] /\ token_type_count' \in 0 .. MaxU8
    BY <1>0 DEF VaultInv, TypeOK, NextOrder, RoomForBox
  <2> QED BY <2>1, <2>2 DEF VaultInv, TypeOK, vaultVars, shareVars, moneyVars
<1>2. Solvent'
  BY DEF VaultInv, Solvent
<1>3. Boxes' = Boxes \cup {t}
  BY <1>0 DEF VaultInv, TypeOK, Boxes, NextOrder
<1>4. /\ \A u \in Boxes : order[u] < token_type_count /\ order'[u] = order[u]
      /\ order'[t] = token_type_count
      /\ t \notin Boxes
  BY DEF VaultInv, TypeOK, OrdersBelowCount, Boxes, NextOrder
<1>5. OrderKeysUnique'
  <2> SUFFICES ASSUME NEW u \in Boxes', NEW v \in Boxes', order'[u] = order'[v]
               PROVE  u = v
    BY DEF OrderKeysUnique
  <2>1. \A w \in Boxes : order[w] \in Nat
    BY DEF VaultInv, TypeOK, Boxes
  <2> QED BY <1>3, <1>4, <2>1 DEF VaultInv, OrderKeysUnique, TypeOK
<1>6. OrdersBelowCount'
  <2>1. \A w \in Boxes : order[w] \in Nat
    BY DEF VaultInv, TypeOK, Boxes
  <2> QED BY <1>3, <1>4, <2>1 DEF VaultInv, OrdersBelowCount, TypeOK
<1>7. FilledCounted'
  <2>1. Filled' \subseteq Filled \cup {t}
    BY <1>0 DEF VaultInv, TypeOK, Filled
  <2>2. Filled' \subseteq Boxes'
    BY <2>1, <1>3 DEF VaultInv, FilledCounted
  <2>3. Cardinality(Filled') <= Cardinality(Filled) + 1
    <3>1. IsFiniteSet(Filled)
      BY FilledFinite
    <3>2. /\ IsFiniteSet(Filled \cup {t})
          /\ \/ Cardinality(Filled \cup {t}) = Cardinality(Filled)
             \/ Cardinality(Filled \cup {t}) = Cardinality(Filled) + 1
      BY <3>1, FS_AddElement
    <3>3. Cardinality(Filled') <= Cardinality(Filled \cup {t})
      BY <2>1, <3>2, FS_Subset
    <3>4. Cardinality(Filled') \in Nat /\ Cardinality(Filled) \in Nat
          /\ Cardinality(Filled \cup {t}) \in Nat
      BY <3>1, <3>2, FilledFinite, FS_CardinalityType
    <3> QED BY <3>2, <3>3, <3>4, SMT
  <2>4. Cardinality(Filled) \in Nat /\ Cardinality(Filled') \in Nat
    BY FilledFinite, FS_CardinalityType
  <2> QED BY <2>2, <2>3, <2>4 DEF VaultInv, FilledCounted, TypeOK
<1> QED BY <1>1, <1>2, <1>5, <1>6, <1>7 DEF VaultInv

(* Opening a box counts down only when it empties it. *)
LEMMA WithdrawTokenPreserves ==
  ASSUME VaultInv, NEW s \in Authorities, NEW t \in Tokens, NEW n \in 0 .. InitialTokens,
         WithdrawToken(s, t, n)
  PROVE  VaultInv'
<1> USE DEF WithdrawToken
<1>0. n \in Nat /\ n <= store[t] /\ store[t] \in Nat /\ t \in Boxes
  BY DEF VaultInv, TypeOK, Boxes
<1>1. TypeOK'
  <2>1. /\ store' \in [Tokens -> Nat] /\ outside' \in [Tokens -> Nat]
    BY <1>0 DEF VaultInv, TypeOK
  <2>2. token_type_count' \in 0 .. MaxU8
    BY VaultAssumption DEF VaultInv, TypeOK, CountAfter
  <2>3. state' \in {"Missing", "Inactive", "Active", "Combined", "Deactivated"}
    BY DEF VaultInv, TypeOK
  <2> QED BY <2>1, <2>2, <2>3 DEF VaultInv, TypeOK, shareVars, moneyVars
<1>2. Solvent'
  BY DEF VaultInv, Solvent, shareVars, moneyVars
<1>3. Boxes' = Boxes
  BY DEF Boxes
<1>4. OrderKeysUnique'
  BY <1>3 DEF VaultInv, OrderKeysUnique
<1>5. OrdersBelowCount'
  BY DEF OrdersBelowCount
<1>6. FilledCounted'
  <2>1. Filled' \subseteq Filled
    BY <1>0 DEF VaultInv, TypeOK, Filled
  <2>2. Cardinality(Filled) \in Nat /\ Cardinality(Filled') \in Nat
    BY FilledFinite, FS_CardinalityType
  <2>3. Cardinality(Filled') <= Cardinality(Filled)
    BY <2>1, FilledFinite, FS_Subset
  <2>4. CASE store[t] = n
    <3>1. t \in Filled /\ Filled' = Filled \ {t}
      BY <1>0, <2>4 DEF VaultInv, TypeOK, Filled
    <3>2. Cardinality(Filled \ {t}) = Cardinality(Filled) - 1
      BY <3>1, FilledFinite, FS_RemoveElement
    <3>3. token_type_count' = token_type_count - 1
      BY <2>4 DEF CountAfter
    <3> QED BY <1>3, <2>1, <2>2, <3>1, <3>2, <3>3 DEF VaultInv, FilledCounted, TypeOK
  <2>5. CASE store[t] # n
    <3>1. token_type_count' = token_type_count
      BY <2>5 DEF CountAfter
    <3> QED BY <1>3, <2>1, <2>2, <2>3, <3>1 DEF VaultInv, FilledCounted, TypeOK
  <2> QED BY <2>4, <2>5
<1> QED BY <1>1, <1>2, <1>4, <1>5, <1>6 DEF VaultInv

(* Tokens from elsewhere do not concern the vault; its count misses them     *)
(* when they come into an empty store.                                      *)
LEMMA GiftPreserves ==
  ASSUME VaultInv, NEW t \in Tokens, NEW n \in Gifts, Gift(t, n)
  PROVE  VaultInv'
<1> USE DEF Gift
<1>0. n \in Nat
  BY VaultAssumption
<1>1. store' \in [Tokens -> Nat] /\ outside' \in [Tokens -> Nat]
  BY <1>0 DEF VaultInv, TypeOK
<1>2. TypeOK' /\ Solvent'
  <2>1. refills' \in Nat /\ refills' >= refills
    BY DEF VaultInv, TypeOK
  <2> QED BY <1>1, <2>1 DEF VaultInv, TypeOK, Solvent, vaultVars, shareVars, moneyVars
<1>3. Boxes' = Boxes /\ t \in Boxes
  BY DEF Boxes
<1>4. OrderKeysUnique' /\ OrdersBelowCount'
  BY <1>3 DEF VaultInv, OrderKeysUnique, OrdersBelowCount, vaultVars
<1>5. Filled' \subseteq Filled \cup {t}
  BY <1>0 DEF VaultInv, TypeOK, Filled
<1>6. Cardinality(Filled') <= Cardinality(Filled) + refills' - refills
  <2>1. /\ IsFiniteSet(Filled) /\ IsFiniteSet(Filled \cup {t})
        /\ Cardinality(Filled \cup {t}) =
             IF t \in Filled THEN Cardinality(Filled) ELSE Cardinality(Filled) + 1
    BY FilledFinite, FS_AddElement
  <2>2. /\ Cardinality(Filled) \in Nat /\ Cardinality(Filled') \in Nat
        /\ Cardinality(Filled') <= Cardinality(Filled \cup {t})
    BY <1>5, <2>1, FilledFinite, FS_Subset, FS_CardinalityType
  <2>3. CASE t \in Filled
    BY <2>1, <2>2, <2>3 DEF VaultInv, TypeOK
  <2>4. CASE t \notin Filled /\ n > 0
    <3>1. store[t] = 0
      BY <2>4 DEF VaultInv, TypeOK, Filled
    <3>2. refills' = refills + 1 /\ refills \in Nat
      BY <2>4, <3>1 DEF VaultInv, TypeOK
    <3> QED BY <2>1, <2>2, <2>4, <3>2
  <2>5. CASE n = 0
    <3>1. Filled' = Filled /\ refills' = refills /\ refills \in Nat
      BY <2>5 DEF VaultInv, TypeOK, Filled
    <3> QED BY <2>2, <3>1
  <2> QED BY <1>0, <2>3, <2>4, <2>5
<1>7. FilledCounted'
  <2>1. Cardinality(Filled) \in Nat /\ Cardinality(Filled') \in Nat
    BY FilledFinite, FS_CardinalityType
  <2>2. /\ token_type_count' = token_type_count /\ token_type_count \in Nat
        /\ refills \in Nat /\ refills' \in Nat
    BY <1>2 DEF VaultInv, TypeOK, vaultVars
  <2>3. Cardinality(Filled) <= token_type_count + refills
    BY DEF VaultInv, FilledCounted
  <2>4. Cardinality(Filled') <= token_type_count' + refills'
    BY <1>6, <2>1, <2>2, <2>3
  <2> QED BY <1>3, <1>5, <2>4 DEF VaultInv, FilledCounted
<1> QED BY <1>2, <1>4, <1>7 DEF VaultInv
----------------------------------------------------------------------------
(***************************************************************************)
(* The buyout.                                                             *)
(***************************************************************************)

(* The payment of the combining holder is the price of the shares it leaves. *)
LEMMA CombinePreserves ==
  ASSUME VaultInv, NEW s \in Authorities, NEW new \in Authorities, NEW h \in Holders,
         NEW a \in PriceAccounts, NEW stored \in Treasuries, Combine(s, h, a, new, stored)
  PROVE  VaultInv'
<1> DEFINE p == price[a].price_per_share
<1>1. /\ p \in Nat /\ supply \in Nat /\ stored \in Nat /\ shares[h] \in Nat
      /\ money[h] \in Nat /\ redeem_treasury \in Nat /\ fraction_treasury - stored \in Nat
  BY TreasuryLeft DEF VaultInv, TypeOK, ExternalPriceAccount
<1> DEFINE owed == supply * p - stored * p - shares[h] * p
           left == supply - shares[h] - stored
<1>2. /\ owed \in 0 .. money[h] /\ left >= 0
      /\ money' = [money EXCEPT ![h] = @ - owed]
      /\ redeem_treasury' = redeem_treasury + owed
      /\ supply' = left
      /\ locked_price_per_share' = p
      /\ shares' = [shares EXCEPT ![h] = 0]
      /\ fraction_treasury' = fraction_treasury - stored
      /\ state' = "Combined" /\ authority' = new
      /\ UNCHANGED <<allow_further_share_creation, pricing_lookup_address, token_type_count,
                     boxVars, redeem_mint, price>>
  BY DEF Combine, OwedToCombine, SupplyAfterCombine, LockedPrice
<1>3. owed = p * left
  BY <1>1, PriceOfTheRest
<1> HIDE DEF p
<1>4. owed \in Int /\ left \in Int
  BY <1>1, SMT
<1> HIDE DEF owed, left
<1>5. Solvent'
  BY <1>1, <1>2, <1>3, <1>4, SMT DEF Solvent
<1>6. TypeOK'
  <2>1. money' \in [Holders -> Nat] /\ shares' \in [Holders -> Nat]
    BY <1>1, <1>2, <1>4 DEF VaultInv, TypeOK
  <2>2. /\ supply' \in Nat /\ redeem_treasury' \in Nat /\ locked_price_per_share' \in Nat
        /\ fraction_treasury' \in Nat
    BY <1>1, <1>2, <1>4
  <2> QED BY <1>2, <2>1, <2>2 DEF VaultInv, TypeOK, boxVars
<1>7. Boxes' = Boxes /\ Filled' = Filled
  BY <1>2 DEF Boxes, Filled, boxVars
<1> QED BY <1>2, <1>5, <1>6, <1>7 DEF VaultInv, OrderKeysUnique, OrdersBelowCount, FilledCounted,
                                      boxVars

(* A redemption pays exactly the price of the shares it burns. *)
LEMMA RedeemPreserves ==
  ASSUME VaultInv, NEW h \in Holders, Redeem(h)
  PROVE  VaultInv'
<1> USE DEF Redeem
<1>1. /\ supply \in Nat /\ shares[h] \in Nat /\ money[h] \in Nat
      /\ redeem_treasury \in Nat /\ locked_price_per_share \in Nat
  BY DEF VaultInv, TypeOK
<1>2. WeOweYou(h) = locked_price_per_share * shares[h] /\ WeOweYou(h) \in Nat
  BY <1>1, SMT DEF WeOweYou
<1>3. redeem_treasury' >= locked_price_per_share' * supply'
  BY <1>1, <1>2, PriceOfTheOthers DEF VaultInv, Solvent
<1>4. TypeOK'
  <2>1. money' \in [Holders -> Nat] /\ shares' \in [Holders -> Nat]
    BY <1>1, <1>2 DEF VaultInv, TypeOK
  <2>2. supply' \in Nat /\ redeem_treasury' \in Nat
    BY <1>1, <1>2
  <2> QED BY <2>1, <2>2 DEF VaultInv, TypeOK, boxVars
<1>5. Boxes' = Boxes /\ Filled' = Filled
  BY DEF Boxes, Filled, boxVars
<1> QED BY <1>3, <1>4, <1>5 DEF VaultInv, Solvent, OrderKeysUnique, OrdersBelowCount,
                                FilledCounted, boxVars
----------------------------------------------------------------------------
(***************************************************************************)
(* The instructions before the buyout.                                     *)
(***************************************************************************)

(* Minting and circulating shares happens before there is a locked price. *)
LEMMA SharesPreserve ==
  ASSUME VaultInv,
         \/ \E s \in Authorities, n \in ShareCounts : Activate(s, n)
         \/ \E s \in Authorities, n \in ShareCounts : MintShares(s, n)
         \/ \E s \in Authorities, h \in Holders, n \in ShareCounts : AddShares(s, h, n)
         \/ \E s \in Authorities, h \in Holders, n \in ShareCounts : WithdrawShares(s, h, n)
  PROVE  VaultInv'
<1>0. ShareCounts \subseteq Nat
  BY VaultAssumption
<1>1. /\ supply' \in Nat /\ fraction_treasury' \in Nat
      /\ state' = "Active"
      /\ UNCHANGED <<authority, allow_further_share_creation, pricing_lookup_address,
                     token_type_count, locked_price_per_share, boxVars, moneyVars, price>>
  BY <1>0 DEF VaultInv, TypeOK, Activate, MintShares, AddShares, WithdrawShares, vaultVars
<1>2. shares' \in [Holders -> Nat]
  <2>1. CASE \E s \in Authorities, n \in ShareCounts : Activate(s, n) \/ MintShares(s, n)
    BY <2>1 DEF VaultInv, TypeOK, Activate, MintShares
  <2>2. CASE \E s \in Authorities, h \in Holders, n \in ShareCounts : AddShares(s, h, n)
    BY <1>0, <2>2 DEF VaultInv, TypeOK, AddShares
  <2>3. CASE \E s \in Authorities, h \in Holders, n \in ShareCounts : WithdrawShares(s, h, n)
    BY <1>0, <2>3 DEF VaultInv, TypeOK, WithdrawShares
  <2> QED BY <2>1, <2>2, <2>3
<1>3. TypeOK'
  BY <1>1, <1>2 DEF VaultInv, TypeOK, boxVars, moneyVars
<1>4. Boxes' = Boxes /\ Filled' = Filled
  BY <1>1 DEF Boxes, Filled, boxVars
<1> QED BY <1>1, <1>3, <1>4 DEF VaultInv, Solvent, OrderKeysUnique, OrdersBelowCount,
                                FilledCounted, boxVars

(* Creating the vault and handing it over, and the price accounts. *)
LEMMA SetupPreserves ==
  ASSUME VaultInv,
         \/ \E a \in PriceAccounts, p \in Prices : UpdatePrice(a, p)
         \/ \E s \in Authorities, a \in PriceAccounts, allow \in BOOLEAN : InitVault(s, a, allow)
         \/ \E s, new \in Authorities : SetAuthority(s, new)
  PROVE  VaultInv'
<1>1. CASE \E a \in PriceAccounts, p \in Prices : UpdatePrice(a, p)
  <2>1. price' \in [PriceAccounts -> ExternalPriceAccount]
    BY <1>1, VaultAssumption DEF UpdatePrice, VaultInv, TypeOK
  <2>2. UNCHANGED <<vaultVars, boxVars, shareVars, moneyVars>>
    BY <1>1 DEF UpdatePrice
  <2>3. Boxes' = Boxes /\ Filled' = Filled
    BY <2>2 DEF Boxes, Filled, boxVars
  <2> QED BY <2>1, <2>2, <2>3 DEF VaultInv, TypeOK, Solvent, OrderKeysUnique, OrdersBelowCount,
                                  FilledCounted, vaultVars, boxVars, shareVars, moneyVars
<1>2. CASE \/ \E s \in Authorities, a \in PriceAccounts, allow \in BOOLEAN : InitVault(s, a, allow)
           \/ \E s, new \in Authorities : SetAuthority(s, new)
  <2>1. /\ authority' \in Authorities /\ allow_further_share_creation' \in BOOLEAN
        /\ pricing_lookup_address' \in PriceAccounts \cup {None}
        /\ redeem_mint' \in Currencies \cup {None}
        /\ UNCHANGED <<token_type_count, locked_price_per_share, boxVars, shareVars,
                       redeem_treasury, money, price>>
    BY <1>2 DEF InitVault, SetAuthority, VaultInv, TypeOK, ExternalPriceAccount, moneyVars
  <2>2. \/ state = "Missing" /\ state' = "Inactive"
        \/ state' = state
    BY <1>2 DEF InitVault, SetAuthority
  <2>3. Boxes' = Boxes /\ Filled' = Filled
    BY <2>1 DEF Boxes, Filled, boxVars
  <2>4. TypeOK'
    BY <2>1, <2>2 DEF VaultInv, TypeOK, boxVars, shareVars
  <2> QED BY <2>1, <2>2, <2>3, <2>4 DEF VaultInv, Solvent, OrderKeysUnique, OrdersBelowCount,
                                        FilledCounted, boxVars, shareVars
<1> QED BY <1>1, <1>2
----------------------------------------------------------------------------
(* Every step, and stuttering, preserves the invariant. *)
LEMMA VaultInvStep == VaultInv /\ [Next]_vars => VaultInv'
<1> SUFFICES ASSUME VaultInv, [Next]_vars PROVE VaultInv'
  OBVIOUS
<1>1. ASSUME NEW s \in Authorities, NEW t \in Tokens, NEW n \in Deposits, AddToken(s, t, n)
      PROVE  VaultInv'
  BY <1>1, AddTokenPreserves
<1>2. ASSUME NEW s \in Authorities, NEW new \in Authorities, NEW h \in Holders,
             NEW a \in PriceAccounts, NEW stored \in Treasuries, Combine(s, h, a, new, stored)
      PROVE  VaultInv'
  BY <1>2, CombinePreserves
<1>3. ASSUME NEW h \in Holders, Redeem(h) PROVE VaultInv'
  BY <1>3, RedeemPreserves
<1>4. ASSUME NEW s \in Authorities, NEW t \in Tokens, NEW n \in 0 .. InitialTokens,
             WithdrawToken(s, t, n)
      PROVE  VaultInv'
  BY <1>4, WithdrawTokenPreserves
<1>5. ASSUME NEW t \in Tokens, NEW n \in Gifts, Gift(t, n) PROVE VaultInv'
  BY <1>5, GiftPreserves
<1>6. CASE UNCHANGED vars
  <2>1. Boxes' = Boxes /\ Filled' = Filled
    BY <1>6 DEF Boxes, Filled, vars, boxVars
  <2> QED BY <1>6, <2>1 DEF VaultInv, TypeOK, Solvent, OrderKeysUnique, OrdersBelowCount,
                            FilledCounted, vars, vaultVars, boxVars, shareVars, moneyVars
<1> QED BY <1>1, <1>2, <1>3, <1>4, <1>5, <1>6, SharesPreserve, SetupPreserves DEF Next

LEMMA VaultInvariant == Spec => []VaultInv
BY VaultInvInit, VaultInvStep, PTL DEF Spec

(* The accounts of the vault keep their types; the byte that counts the      *)
(* boxes never wraps.                                                       *)
THEOREM TypeCorrect == Spec => []TypeOK
<1>1. VaultInv => TypeOK
  BY DEF VaultInv
<1> QED BY <1>1, VaultInvariant, PTL

(* After combine_vault the redeem treasury covers every remaining share at   *)
(* the locked price, for any holders, shares and price accounts.            *)
THEOREM RedeemTreasurySolvent == Spec => []Solvent
<1>1. VaultInv => Solvent
  BY DEF VaultInv
<1> QED BY <1>1, VaultInvariant, PTL

(* No two safety deposit boxes of a vault carry the same order key.         *)
THEOREM BoxesOrdered == Spec => []OrderKeysUnique
<1>1. VaultInv => OrderKeysUnique
  BY DEF VaultInv
<1> QED BY <1>1, VaultInvariant, PTL

(* The step that deactivates the vault leaves no share in circulation, and   *)
(* tokens in no more boxes than were filled from outside while empty: the   *)
(* count of boxes errs by nothing else, for any mints, amounts and gifts.   *)
THEOREM DeactivatedEmpty == Spec => NothingLeftWhenDeactivated
<1>1. VaultInv /\ VaultInv' /\ [Next]_vars =>
        [(state # "Deactivated" /\ state' = "Deactivated") =>
           supply' = 0 /\ Cardinality(Filled') <= refills']_vars
  <2> SUFFICES ASSUME VaultInv', Next, state # "Deactivated", state' = "Deactivated"
               PROVE  supply' = 0 /\ Cardinality(Filled') <= refills'
    BY DEF vars
  <2>1. token_type_count' = 0 /\ supply' = 0
    <3>1. CASE \E h \in Holders : Redeem(h)
      BY <3>1 DEF Redeem, Done
    <3>2. CASE \E s \in Authorities, t \in Tokens, n \in 0 .. InitialTokens :
                 WithdrawToken(s, t, n)
      BY <3>2 DEF WithdrawToken, Done, shareVars
    <3> QED BY <3>1, <3>2 DEF Next, UpdatePrice, InitVault, SetAuthority, AddToken, Activate,
                              MintShares, AddShares, WithdrawShares, Combine, Gift, vaultVars
  <2>2. /\ Cardinality(Filled') \in Nat /\ refills' \in Nat
        /\ Cardinality(Filled') <= token_type_count' + refills'
    BY FilledFinite, FS_CardinalityType DEF VaultInv, TypeOK, FilledCounted
  <2> QED BY <2>1, <2>2
<1> QED BY <1>1, VaultInvariant, PTL DEF Spec, NothingLeftWhenDeactivated
----------------------------------------------------------------------------
(***************************************************************************)
(* Shares are neither lost nor made.                                       *)
(***************************************************************************)

(* What is written for one holder changes the sum by the difference. *)
LEMMA HoldersSum ==
  ASSUME TypeOK, NEW h \in Holders, NEW n \in Int
  PROVE  /\ SumFunction(shares) \in Int /\ shares[h] \in Int
         /\ SumFunction([shares EXCEPT ![h] = n]) = SumFunction(shares) - shares[h] + n
<1>1. shares \in [Holders -> Int] /\ DOMAIN shares = Holders /\ IsFiniteSet(Holders)
  BY VaultAssumption DEF TypeOK
<1>2. SumFunction(shares) \in Int
  BY <1>1, SumInt DEF SumFunction
<1> QED BY <1>1, <1>2, SumUpdate

LEMMA SharesAddUpInit == Init => SharesAddUp
<1> SUFFICES ASSUME Init PROVE SharesAddUp
  OBVIOUS
<1>1. DOMAIN shares = Holders /\ IsFiniteSet(Holders) /\ \A h \in Holders : shares[h] = 0
  BY VaultAssumption DEF Init
<1>2. 1 * SumFunction(shares) <= 0 * SumFunction(shares)
  BY <1>1, SumScaled DEF SumFunction
<1>3. SumFunction(shares) \in Nat
  BY <1>1, SumNat DEF SumFunction
<1> QED BY <1>2, <1>3 DEF Init, SharesAddUp

LEMMA SharesAddUpStep == VaultInv /\ SharesAddUp /\ [Next]_vars => SharesAddUp'
<1> SUFFICES ASSUME VaultInv, SharesAddUp, [Next]_vars PROVE SharesAddUp'
  OBVIOUS
<1>1. /\ supply \in Nat /\ fraction_treasury \in Nat /\ ShareCounts \subseteq Nat
      /\ supply = fraction_treasury + SumFunction(shares)
  BY VaultAssumption DEF VaultInv, TypeOK, SharesAddUp
<1>2. \A h \in Holders : shares[h] \in Nat /\ SumFunction(shares) \in Int
  BY HoldersSum DEF VaultInv, TypeOK
<1>3. ASSUME NEW h \in Holders, NEW n \in Nat, shares' = [shares EXCEPT ![h] = n],
             supply' - fraction_treasury' = supply - fraction_treasury - shares[h] + n,
             supply' \in Int, fraction_treasury' \in Int
      PROVE  SharesAddUp'
  <2>1. SumFunction([shares EXCEPT ![h] = n]) = SumFunction(shares) - shares[h] + n
    BY HoldersSum DEF VaultInv
  <2>2. PICK sum \in Int, own \in Int : sum = SumFunction(shares) /\ own = shares[h]
    BY <1>2
  <2>3. supply' = fraction_treasury' + (sum - own + n)
    BY <1>1, <1>3, <2>2
  <2> QED BY <1>3, <2>1, <2>2, <2>3 DEF SharesAddUp
<1>4. ASSUME UNCHANGED shares, supply' - fraction_treasury' = supply - fraction_treasury,
             supply' \in Int, fraction_treasury' \in Int
      PROVE  SharesAddUp'
  <2>1. SumFunction(shares) \in Int
    <3>1. DOMAIN shares = Holders /\ IsFiniteSet(Holders) /\ \A h \in Holders : shares[h] \in Int
      BY VaultAssumption DEF VaultInv, TypeOK
    <3> QED BY <3>1, SumInt DEF SumFunction
  <2> QED BY <1>1, <1>4, <2>1 DEF SharesAddUp
<1>5. ASSUME NEW s \in Authorities, NEW n \in ShareCounts, Activate(s, n) \/ MintShares(s, n)
      PROVE  SharesAddUp'
  BY <1>1, <1>4, <1>5 DEF Activate, MintShares
<1>6. ASSUME NEW s \in Authorities, NEW h \in Holders, NEW n \in ShareCounts, AddShares(s, h, n)
      PROVE  SharesAddUp'
  <2> DEFINE m == shares[h] - n
  <2>1. shares' = [shares EXCEPT ![h] = m] /\ m \in Nat
    BY <1>1, <1>2, <1>6 DEF AddShares
  <2>2. /\ supply' - fraction_treasury' = supply - fraction_treasury - shares[h] + m
        /\ supply' \in Int /\ fraction_treasury' \in Int
    BY <1>1, <1>2, <1>6 DEF AddShares
  <2> QED BY <1>3, <2>1, <2>2
<1>7. ASSUME NEW s \in Authorities, NEW h \in Holders, NEW n \in ShareCounts,
             WithdrawShares(s, h, n)
      PROVE  SharesAddUp'
  <2> DEFINE m == shares[h] + n
  <2>1. shares' = [shares EXCEPT ![h] = m] /\ m \in Nat
    BY <1>1, <1>2, <1>7 DEF WithdrawShares
  <2>2. /\ supply' - fraction_treasury' = supply - fraction_treasury - shares[h] + m
        /\ supply' \in Int /\ fraction_treasury' \in Int
    BY <1>1, <1>2, <1>7 DEF WithdrawShares
  <2> QED BY <1>3, <2>1, <2>2
<1>8. ASSUME NEW s \in Authorities, NEW new \in Authorities, NEW h \in Holders,
             NEW a \in PriceAccounts, NEW stored \in Treasuries, Combine(s, h, a, new, stored)
      PROVE  SharesAddUp'
  <2>1. /\ shares' = [shares EXCEPT ![h] = 0]
        /\ supply' = supply - shares[h] - stored
        /\ fraction_treasury' = fraction_treasury - stored
    BY <1>8 DEF Combine, SupplyAfterCombine
  <2>2. stored \in Nat /\ shares[h] \in Nat
    BY <1>2, TreasuryLeft
  <2>3. /\ supply' - fraction_treasury' = supply - fraction_treasury - shares[h] + 0
        /\ supply' \in Int /\ fraction_treasury' \in Int
    BY <1>1, <2>1, <2>2
  <2> QED BY <1>3, <2>1, <2>3
<1>9. ASSUME NEW h \in Holders, Redeem(h) PROVE SharesAddUp'
  <2>1. /\ shares' = [shares EXCEPT ![h] = 0]
        /\ supply' = supply - shares[h] /\ fraction_treasury' = fraction_treasury
    BY <1>9 DEF Redeem
  <2>2. /\ supply' - fraction_treasury' = supply - fraction_treasury - shares[h] + 0
        /\ supply' \in Int /\ fraction_treasury' \in Int
    BY <1>1, <1>2, <2>1
  <2> QED BY <1>3, <2>1, <2>2
<1>10. ASSUME UNCHANGED shareVars PROVE SharesAddUp'
  BY <1>1, <1>4, <1>10 DEF shareVars
<1>11. CASE UNCHANGED vars
  BY <1>10, <1>11 DEF vars
<1> QED BY <1>5, <1>6, <1>7, <1>8, <1>9, <1>10, <1>11 DEF Next, UpdatePrice, InitVault, SetAuthority,
             AddToken, WithdrawToken, Gift

(* No sequence of minting, circulating, combining and redeeming loses or    *)
(* makes a share, for any holders and amounts: the supply of the mint is    *)
(* what its treasury and the holders have.                                  *)
THEOREM SharesConserved == Spec => []SharesAddUp
<1>1. VaultInv /\ SharesAddUp /\ [Next]_vars => SharesAddUp'
  BY SharesAddUpStep
<1> QED BY <1>1, SharesAddUpInit, VaultInvariant, PTL DEF Spec
============================================================================
