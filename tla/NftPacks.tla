------------------------------ MODULE NftPacks ------------------------------
(***************************************************************************)
(* The NFT packs program.  An authority puts master editions into a pack   *)
(* as cards and names the master editions whose prints open it (vouchers). *)
(* A wallet burns a print of a voucher once, draws cards at random, one    *)
(* request at a time, and claims a print of every card drawn.  A draw      *)
(* leaves the change of the list of weights to an instruction of its own,  *)
(* CleanUp.  One pack, whose address is used once.                         *)
(***************************************************************************)
EXTENDS Integers, Sequences, FiniteSets, Functions, FiniteSetsExt

CONSTANTS
  Wallets,
  Admins,      \* whom the store lets create packs: all when it is public
  Masters,     \* master editions for cards
  Vouchers,    \* master editions for vouchers
  InitialPrints, \* prints of the masters in Vouchers: their parent, holder and delegate
  Heirs,       \* to whom the pack's authority and its masters may be handed
  Packs,       \* arguments of InitPack
  Supplies,    \* max_supply in the arguments of AddCardToPack
  Weights,     \* weight in the arguments of AddCardToPack
  MaxPrints,   \* MasterEditionV2::max_supply of the cards' masters
  MaxCards,    \* MAX_PACK_CARDS_AMOUNT
  MaxEntries,  \* entries that fit the account of the configuration, PackConfig::LEN
  MaxWeight,   \* MAX_WEIGHT_VALUE
  MaxVouchers, \* bound: numbers a voucher account may have
  MaxDraws,    \* bound: draws of one voucher, which the program does not bound
  MaxStrays,   \* bound: claims from other packs with one of these masters
  MaxTime,     \* bound: the clock stops here
  Program,     \* the program's authority, which holds the masters of cards
  None

Distributions == {"MaxSupply", "Fixed", "Unlimited"}
PackSetStates == {"NotActivated", "Activated", "Deactivated", "Ended", "Deleted"}
InitPackSetArgs ==
  [distribution : Distributions, allowed : Nat, mutable : BOOLEAN,
   start : Nat \cup {None}, end : Nat \cup {None}]

Editions == DOMAIN InitialPrints
\* a delegate is a wallet the holder has approved for its token
PrintOfVoucher ==
  [parent : Vouchers, holder : Wallets \cup {None}, delegate : Wallets \cup {None}]

PacksAssumption ==
  /\ Heirs \subseteq Wallets /\ InitialPrints \in [Editions -> PrintOfVoucher]
  /\ IsFiniteSet(Editions)
  /\ Admins \subseteq Wallets /\ Packs \subseteq InitPackSetArgs
  /\ Supplies \subseteq Nat /\ Weights \subseteq Nat
  /\ MaxPrints \in [Masters -> Nat \cup {None}]
  /\ MaxCards \in Nat /\ MaxEntries \in Nat /\ MaxWeight \in Nat /\ MaxVouchers \in Nat
  /\ MaxDraws \in Nat /\ MaxStrays \in Nat /\ MaxTime \in Nat
  /\ Program \notin Wallets /\ None \notin Wallets \cup {Program} \cup Nat
  /\ None \notin Masters \cup Vouchers

VARIABLES
  now,      \* Clock::unix_timestamp
  pack,     \* PackSet
  config,   \* PackConfig: weights and action_to_do
  card,     \* PackCard by number
  voucher,  \* PackVoucher by number: the master edition
  proving,  \* ProvingProcess by the mint of the burnt print
  holder,   \* who has the token of a card's master
  supply,   \* MasterEditionV2::supply of a card's master
  strayed,  \* history: the prints of a master made for claims of another card
  print     \* the prints of vouchers: their parent and who has the token

accounts == <<pack, config, card, voucher, proving>>
tokens == <<holder, supply, strayed, print>>
vars == <<now, accounts, tokens>>

CardNumbers == 1 .. MaxCards
VoucherNumbers == 1 .. MaxVouchers
PackSet ==
  [authority : Wallets, state : PackSetStates, distribution : Distributions, mutable : BOOLEAN,
   allowed : Nat, start : Nat, end : Nat \cup {None}, cards : Nat, vouchers : Nat,
   total_weight : Nat, total_editions : Nat]
\* <<card, weight or supply left, supply left of a card with a weight>>
Weight == CardNumbers \X Nat \X Nat
NoAction == [do |-> "None"]
Sort == [do |-> "Sort"]
Change(i, n) == [do |-> "Change", card |-> i, value |-> n]
CleanUpActions ==
  {NoAction, Sort} \cup [do : {"Change"}, card : CardNumbers, value : Nat]
PackConfig == [weights : Seq(Weight), action : CleanUpActions]
PackCard == [master : Masters, max_supply : Nat, weight : Nat]
\* after draws of the cards in S
ProvingProcess(S) ==
  [wallet : Wallets, exhausted : BOOLEAN, redeemed : Nat, to_redeem : [S -> Nat]]
IsProvingProcess(p) == \E S \in SUBSET CardNumbers : p \in ProvingProcess(S)

Exists == pack # None /\ pack.state # "Deleted"
Authority(w) == Exists /\ w = pack.authority
----------------------------------------------------------------------------
Init ==
  /\ now = 0
  /\ pack = None /\ config = None
  /\ card = [i \in CardNumbers |-> None]
  /\ voucher = [i \in VoucherNumbers |-> None]
  /\ proving = [e \in Editions |-> None]
  /\ holder \in [Masters -> Admins]
  /\ supply = [m \in Masters |-> 0] /\ strayed = [m \in Masters |-> 0]
  /\ print = InitialPrints

Tick == now < MaxTime /\ now' = now + 1 /\ UNCHANGED <<accounts, tokens>>

AdminWhitelisted(w) == w \in Admins
InitPack(w, args) ==
  /\ pack = None /\ AdminWhitelisted(w) /\ args.allowed # 0
  /\ LET start == IF args.start = None THEN now ELSE args.start IN
     /\ start >= now /\ (args.end # None => args.end > start)
     /\ pack' = [authority |-> w, state |-> "NotActivated", distribution |-> args.distribution,
                 mutable |-> args.mutable, allowed |-> args.allowed, start |-> start,
                 end |-> args.end, cards |-> 0, vouchers |-> 0,
                 total_weight |-> 0, total_editions |-> 0]
  /\ UNCHANGED <<now, config, card, voucher, proving, tokens>>

\* PackSet::add_card_volume: what a card may ask for
VolumeAllowed(m, max_supply, weight) ==
  /\ pack.distribution = "Unlimited" => (MaxPrints[m] = None /\ max_supply = 0)
  /\ pack.distribution # "Unlimited" =>
       /\ max_supply # 0
       /\ MaxPrints[m] # None => max_supply <= MaxPrints[m] - supply[m]
  /\ IF pack.distribution = "MaxSupply" THEN weight = 0 ELSE weight \in 1 .. MaxWeight

\* the list of weights, where MaxSupply uses the supply as the weight
NewWeight(i, max_supply, weight) ==
  IF pack.distribution = "MaxSupply" THEN <<i, max_supply, 0>> ELSE <<i, weight, max_supply>>

\* the configuration is made with the first card
PackConfigData == IF config = None THEN << >> ELSE config.weights

AddCardToPack(w, m, max_supply, weight) ==
  /\ Authority(w) /\ pack.state = "NotActivated" /\ pack.cards + 1 <= MaxCards
  /\ VolumeAllowed(m, max_supply, weight)
  /\ holder[m] = w
  /\ LET i == pack.cards + 1
         weights == PackConfigData
     IN /\ card[i] = None /\ Len(weights) < MaxEntries
        /\ config' = [weights |-> Append(weights, NewWeight(i, max_supply, weight)),
                      action |-> Sort]
        /\ card' = [card EXCEPT ![i] = [master |-> m, max_supply |-> max_supply, weight |-> weight]]
        /\ pack' = [pack EXCEPT !.cards = i, !.total_weight = @ + weight,
                                !.total_editions = @ + max_supply]
  /\ holder' = [holder EXCEPT ![m] = Program]
  /\ UNCHANGED <<now, voucher, proving, supply, strayed, print>>

\* add_pack_voucher adds the incremented counter to the counter
AfterVoucher(n) == n + (n + 1)

\* nobody needs to hold a token of the voucher's master: the balance is not read
AddVoucherToPack(w, v) ==
  /\ Authority(w) /\ pack.state = "NotActivated"
  /\ pack.vouchers + 1 \in VoucherNumbers /\ voucher[pack.vouchers + 1] = None
  /\ \E e \in Editions : print[e].parent = v
  /\ voucher' = [voucher EXCEPT ![pack.vouchers + 1] = v]
  /\ pack' = [pack EXCEPT !.vouchers = AfterVoucher(@)]
  /\ UNCHANGED <<now, config, card, proving, tokens>>

ActivatePack(w) ==
  /\ Authority(w) /\ pack.cards # 0 /\ pack.vouchers # 0
  /\ pack.state \in {"NotActivated", "Deactivated"}
  /\ pack' = [pack EXCEPT !.state = "Activated"]
  /\ UNCHANGED <<now, config, card, voucher, proving, tokens>>

DeactivatePack(w) ==
  /\ Authority(w) /\ pack.state = "Activated"
  /\ pack' = [pack EXCEPT !.state = "Deactivated"]
  /\ UNCHANGED <<now, config, card, voucher, proving, tokens>>

ClosePack(w) ==
  /\ Authority(w) /\ pack.state # "Ended"
  /\ pack.end # None => now >= pack.end
  /\ pack' = [pack EXCEPT !.state = "Ended"]
  /\ UNCHANGED <<now, config, card, voucher, proving, tokens>>

TransferPackAuthority(w, to) ==
  /\ Authority(w) /\ pack.state # "Activated"
  /\ pack' = [pack EXCEPT !.authority = to]
  /\ UNCHANGED <<now, config, card, voucher, proving, tokens>>

\* a new text or the end of all editing; a value that is already set is refused
EditPack(w) ==
  /\ Authority(w) /\ pack.mutable /\ pack.state \in {"NotActivated", "Deactivated"}
  /\ pack' = [pack EXCEPT !.mutable = FALSE]
  /\ UNCHANGED <<now, config, card, voucher, proving, tokens>>
----------------------------------------------------------------------------
(* Drawing *)

\* PackConfig::select_weighted_random: the first entry at which the weights up to it
\* reach the bound, the last entry when they never do
UpTo(weights, k) == SumFunctionOnSet([i \in 1 .. k |-> weights[i][2]], 1 .. k)
SelectWeightedRandom(weights, bound) ==
  LET reached == {k \in 1 .. Len(weights) : UpTo(weights, k) >= bound} IN
  weights[IF reached = {} THEN Len(weights) ELSE Min(reached)]
\* the hash of the slot, the time and the account, scaled to the sum of the weights
WeightSum == IF pack.distribution = "MaxSupply" THEN pack.total_editions ELSE pack.total_weight
Bounds == 0 .. WeightSum

\* get_proving_process_data: the first request burns the print and needs its holder or
\* a delegate, later ones come from the same wallet
NewProvingProcess(w) ==
  [wallet |-> w, exhausted |-> FALSE, redeemed |-> 0, to_redeem |-> << >>]
ProvingProcessOf(w, e) == IF proving[e] = None THEN NewProvingProcess(w) ELSE proving[e]
MayProve(w, e) ==
  IF proving[e] # None THEN proving[e].wallet = w
  ELSE print[e].holder # None /\ w \in {print[e].holder, print[e].delegate}
\* one more card of number c, which may be the first
OneMore(to_redeem, c) ==
  [x \in DOMAIN to_redeem \cup {c} |->
     (IF x \in DOMAIN to_redeem THEN to_redeem[x] ELSE 0) + (IF x = c THEN 1 ELSE 0)]

RequestCardForRedeemWith(w, e, i, bound, cleaned_up) ==
  /\ Exists /\ config # None /\ cleaned_up
  /\ i \in VoucherNumbers /\ voucher[i] # None /\ print[e].parent = voucher[i]
  /\ MayProve(w, e)
  /\ pack.state = "Activated" /\ now >= pack.start /\ (pack.end # None => now <= pack.end)
  /\ config.weights # << >>
  /\ LET process == ProvingProcessOf(w, e)
         drawn == SelectWeightedRandom(config.weights, bound)
         c == drawn[1]
     IN /\ Cardinality(DOMAIN process.to_redeem) # pack.allowed
        /\ process.redeemed + SumFunction(process.to_redeem) < MaxDraws
        /\ proving' = [proving EXCEPT ![e] =
                         [process EXCEPT !.to_redeem = OneMore(@, c)]]
        /\ CASE pack.distribution = "MaxSupply" ->
                  /\ drawn[2] >= 1
                  /\ config' = [config EXCEPT !.action = Change(c, drawn[2] - 1)]
             [] pack.distribution = "Fixed" ->
                  /\ drawn[3] >= 1
                  /\ config' = [config EXCEPT !.action = Change(c, drawn[3] - 1)]
             [] OTHER -> UNCHANGED config
  /\ print' = [print EXCEPT ![e].holder = None]
  /\ UNCHANGED <<now, pack, card, voucher, holder, supply, strayed>>
RequestUncleaned(w, e, i, bound) == \* without assert_cleaned_up
  RequestCardForRedeemWith(w, e, i, bound, TRUE)
RequestCardForRedeem(w, e, i, bound) ==
  RequestCardForRedeemWith(w, e, i, bound, config # None /\ config.action = NoAction)

PositionOf(weights, c) == {k \in 1 .. Len(weights) : weights[k][1] = c}
Swap(s, i, j) == [s EXCEPT ![i] = s[j], ![j] = s[i]]
\* PackConfig::sort, which keeps the order of equal weights
Sorted(weights) ==
  LET n == Len(weights)
      before(i, j) == weights[i][2] > weights[j][2] \/ (weights[i][2] = weights[j][2] /\ i < j)
      place(i) == Cardinality({j \in 1 .. n : before(j, i)}) + 1
  IN [k \in 1 .. n |-> weights[CHOOSE i \in 1 .. n : place(i) = k]]
RemoveAt(weights, c) ==
  IF PositionOf(weights, c) = {} THEN weights
  ELSE LET k == Min(PositionOf(weights, c)) IN
       SubSeq(weights, 1, k - 1) \o SubSeq(weights, k + 1, Len(weights))

\* PackConfig::change_weight: the entry after it, counted from zero, is swapped with the one
\* at the number of the card; the program aborts when the list has no such entry
NeedsSwap(weights, k) == k # Len(weights) /\ weights[k + 1][2] > weights[k][2]
ChangeWeight(weights, c, n) ==
  LET k == Min(PositionOf(weights, c))
      changed == [weights EXCEPT ![k][2] = n]
  IN IF NeedsSwap(changed, k) THEN Swap(changed, k + 1, c + 1) ELSE changed
ChangeSupply(weights, c, n) == [weights EXCEPT ![Min(PositionOf(weights, c))][3] = n]

\* may the change be made, or does the program fail
CanChange(weights, c, n) ==
  \/ n = 0
  \/ /\ PositionOf(weights, c) # {}
     /\ pack.distribution = "MaxSupply" =>
          LET k == Min(PositionOf(weights, c)) IN
          NeedsSwap([weights EXCEPT ![k][2] = n], k) => c + 1 <= Len(weights)
Changed(weights, c, n) ==
  IF n = 0 THEN RemoveAt(weights, c)
  ELSE IF pack.distribution = "MaxSupply" THEN ChangeWeight(weights, c, n)
  ELSE ChangeSupply(weights, c, n)

CleanUpTo(weights, editions) ==
  /\ config' = [weights |-> weights, action |-> NoAction]
  /\ pack' = [pack EXCEPT !.total_editions = editions]
  /\ UNCHANGED <<now, card, voucher, proving, tokens>>
CleanUp ==
  /\ Exists /\ pack.state # "NotActivated" /\ config # None
  /\ \/ /\ config.action.do = "Change"
        /\ CanChange(config.weights, config.action.card, config.action.value)
        /\ pack.total_editions >= 1
        /\ CleanUpTo(Changed(config.weights, config.action.card, config.action.value),
                     pack.total_editions - 1)
     \/ /\ config.action.do = "Sort"
        /\ CleanUpTo(Sorted(config.weights), pack.total_editions)

\* the program prints with any master its authority holds: nothing compares it with the
\* one of the card
MayPrintWith(m) ==
  holder[m] = Program /\ (MaxPrints[m] # None => supply[m] < MaxPrints[m])
OneMorePrint(m) == [x \in Masters |-> supply[x] + (IF x = m THEN 1 ELSE 0)]

\* m is the master to print with, None for one of another pack's; the state of the pack
\* is not checked
ClaimPackOf(e, c, m, used, counted) ==
  /\ Exists /\ proving[e] # None /\ card[c] # None
  /\ c \in DOMAIN proving[e].to_redeem /\ proving[e].to_redeem[c] >= 1
  /\ pack.distribution # "Unlimited" => card[c].max_supply >= 1
  /\ m # None => MayPrintWith(m)
  /\ supply' = OneMorePrint(m)
  /\ strayed' = [x \in Masters |->
                   strayed[x] + (IF x = m /\ x # card[c].master THEN 1 ELSE 0)]
  /\ LET redeemed == proving[e].redeemed + 1
     IN proving' = [proving EXCEPT
          ![e].redeemed = redeemed, ![e].to_redeem[c] = @ - used,
          ![e].exhausted = @ \/ redeemed = pack.allowed]
  /\ card' = IF counted THEN [card EXCEPT ![c].max_supply = @ - 1] ELSE card
  /\ UNCHANGED <<now, pack, config, voucher, holder, print>>
ClaimPack(e, c, m) == ClaimPackOf(e, c, m, 1, Exists /\ pack.distribution # "Unlimited")
----------------------------------------------------------------------------
(* Taking the pack apart *)

\* only the last card, and none of which editions are left
DeletePackCardAt(w, to, c) ==
  /\ Authority(w) /\ pack.state \in {"Ended", "NotActivated"}
  /\ c \in CardNumbers /\ card[c] # None /\ card[c].max_supply = 0
  /\ pack.cards >= 1
  /\ card' = [card EXCEPT ![c] = None]
  /\ holder' = [holder EXCEPT ![card[c].master] = to]
  /\ pack' = [pack EXCEPT !.cards = @ - 1]
  /\ UNCHANGED <<now, config, voucher, proving, supply, strayed, print>>
DeleteAnyCard(w, to) == \E c \in CardNumbers : DeletePackCardAt(w, to, c)
DeletePackCard(w, to) == DeletePackCardAt(w, to, pack.cards)

DeletePackVoucher(w) ==
  /\ Authority(w) /\ pack.state = "Ended"
  /\ pack.vouchers \in VoucherNumbers /\ voucher[pack.vouchers] # None
  /\ voucher' = [voucher EXCEPT ![pack.vouchers] = None]
  /\ pack' = [pack EXCEPT !.vouchers = @ - 1]
  /\ UNCHANGED <<now, config, card, proving, tokens>>

Emptied == pack.state = "Ended" /\ pack.cards = 0 /\ pack.vouchers = 0
DeletePackConfig(w) ==
  /\ Authority(w) /\ Emptied /\ config # None
  /\ config' = None
  /\ UNCHANGED <<now, pack, card, voucher, proving, tokens>>

DeletePack(w) ==
  /\ Authority(w) /\ Emptied
  /\ pack' = [pack EXCEPT !.state = "Deleted"]
  /\ UNCHANGED <<now, config, card, voucher, proving, tokens>>

\* the holder of a master prints outside of the program
PrintElsewhere(m) ==
  /\ holder[m] \in Wallets /\ MaxPrints[m] # None /\ supply[m] < MaxPrints[m]
  /\ supply' = [supply EXCEPT ![m] = @ + 1]
  /\ UNCHANGED <<now, accounts, holder, strayed, print>>

\* a claim of another pack's card prints with one of these masters
ClaimElsewhere(m) ==
  /\ MayPrintWith(m) /\ SumFunction(strayed) < MaxStrays
  /\ supply' = OneMorePrint(m)
  /\ strayed' = [strayed EXCEPT ![m] = @ + 1]
  /\ UNCHANGED <<now, accounts, holder, print>>
----------------------------------------------------------------------------
Authorities(w) ==
  \/ \E args \in Packs : InitPack(w, args)
  \/ \E m \in Masters, max_supply \in Supplies, weight \in Weights :
       AddCardToPack(w, m, max_supply, weight)
  \/ \E v \in Vouchers : AddVoucherToPack(w, v)
  \/ ActivatePack(w)
  \/ DeactivatePack(w)
  \/ ClosePack(w)
  \/ \E to \in Heirs : TransferPackAuthority(w, to)
  \/ EditPack(w)
  \/ \E to \in Heirs : DeletePackCard(w, to)
  \/ DeletePackVoucher(w)
  \/ DeletePackConfig(w)
  \/ DeletePack(w)
Openers(e) ==
  \/ \E w \in Wallets, i \in VoucherNumbers :
       Exists /\ \E bound \in Bounds : RequestCardForRedeem(w, e, i, bound)
  \/ \E c \in CardNumbers, m \in Masters \cup {None} : ClaimPack(e, c, m)
Next ==
  \/ \E w \in Wallets : Authorities(w)
  \/ \E e \in Editions : Openers(e)
  \/ CleanUp
  \/ \E m \in Masters : PrintElsewhere(m) \/ ClaimElsewhere(m)
  \/ Tick
Spec == Init /\ [][Next]_vars
----------------------------------------------------------------------------
TypeOK ==
  /\ now \in 0 .. MaxTime
  /\ pack \in PackSet \cup {None}
  /\ config \in PackConfig \cup {None}
  /\ card \in [CardNumbers -> PackCard \cup {None}]
  /\ voucher \in [VoucherNumbers -> Vouchers \cup {None}]
  /\ DOMAIN proving = Editions
  /\ \A e \in Editions : proving[e] = None \/ IsProvingProcess(proving[e])
  /\ holder \in [Masters -> Wallets \cup {Program}]
  /\ supply \in [Masters -> Nat] /\ strayed \in [Masters -> Nat]
  /\ print \in [Editions -> PrintOfVoucher]

IsLimited == pack # None /\ pack.distribution # "Unlimited"
\* what the list of weights says is left of a card
Left(c) ==
  LET at == PositionOf(config.weights, c) IN
  SumFunctionOnSet([k \in at |-> config.weights[k][IF pack.distribution = "Fixed" THEN 3 ELSE 2]], at)
IsPending(c) == config.action.do = "Change" /\ config.action.card = c
Outstanding(e, c) ==
  IF proving[e] # None /\ c \in DOMAIN proving[e].to_redeem THEN proving[e].to_redeem[c] ELSE 0
OutstandingOf(c) == SumFunctionOnSet([e \in Editions |-> Outstanding(e, c)], Editions)

\* The list of weights, from which cards are drawn, the cards' own accounts, from which they are
\* claimed, and the number of editions of the pack are three records of one stock, brought up to
\* date by three instructions (request, clean up, claim): what a card's account has left is what
\* the list has left, less a draw waiting to be cleaned up, plus the draws not yet claimed, and
\* its master can print that many, less the prints that claims of other cards took from it.  So
\* a wallet that drew a card can claim it unless such claims used its master up.
ClaimsCovered ==
  IsLimited /\ config # None =>
    /\ pack.total_editions = SumFunctionOnSet([c \in CardNumbers |-> Left(c)], CardNumbers)
    /\ \A c \in CardNumbers : card[c] # None =>
         /\ card[c].max_supply = Left(c) - (IF IsPending(c) THEN 1 ELSE 0) + OutstandingOf(c)
         /\ MaxPrints[card[c].master] # None =>
              supply[card[c].master] + card[c].max_supply
                <= MaxPrints[card[c].master] + strayed[card[c].master]

\* The program holds exactly the masters of the cards there are, each for one card, and the cards
\* are those numbered up to the counter: taking the pack apart card by card from the last returns
\* every master once.
MastersKept ==
  /\ \A c \in CardNumbers : card[c] # None <=> (pack # None /\ c <= pack.cards)
  /\ \A m \in Masters : holder[m] = Program <=> \E c \in CardNumbers : card[c] # None /\ card[c].master = m
  /\ \A c, d \in CardNumbers :
       card[c] # None /\ card[d] # None /\ card[c].master = card[d].master => c = d

\* Closing a pack is for good: it is never opened again, and what is still to be claimed of any
\* opened voucher only goes down.
EndIsFinal ==
  [][pack # None /\ pack.state \in {"Ended", "Deleted"} =>
       /\ pack'.state \in {"Ended", "Deleted"}
       /\ \A e \in Editions, c \in CardNumbers : Outstanding(e, c)' <= Outstanding(e, c)]_vars

\* state/pack_set.rs:89 of allowed_amount_to_redeem: "Count of cards user can try to redeem".
\* The cards one voucher was given, claimed or not, are no more than that.
DrawsAllowed ==
  \A e \in Editions : proving[e] # None =>
    proving[e].redeemed + SumFunction(proving[e].to_redeem) <= pack.allowed
=============================================================================
