---------------------------- MODULE CandyMachine ----------------------------
(***************************************************************************)
(* The candy machine program: one candy machine that sells a fixed supply  *)
(* of NFTs, its config lines, its freeze account and the money of its      *)
(* buyers.  A transaction is atomic: a handler that returns an error       *)
(* changes nothing, one that taxes a bot succeeds without minting.         *)
(***************************************************************************)
EXTENDS Integers, Sequences, FiniteSets, FiniteSetsExt

CONSTANTS
  Wallets,       \* wallets that buy or hold the authority
  Authorities,   \* wallets that may hold the authority
  Tokens,        \* SPL mints the machine may sell for
  SOL,           \* the native currency: token_mint is None
  DataChoices,   \* CandyMachineData records passed to initialize and update
  FreezeTimes,   \* freeze_time values passed to set_freeze
  InitialMoney,  \* amount of every currency a wallet starts with
  Tickets,       \* whitelist tokens of each wallet at the start
  BotFee,        \* BOT_FEE
  ByteSize,      \* bits in a byte of the mask of minted lines: 8
  MaxMints,      \* bound: NFTs minted
  MaxOthers,     \* bound: tokens from elsewhere thawed through the freeze account
  MaxTime,       \* bound: the clock stops here
  None           \* Option::None

Currencies == Tokens \cup {SOL}

WhitelistMintSettings == [burn : BOOLEAN, presale : BOOLEAN, discount_price : Nat \cup {None}]
CandyMachineData ==
  [ price : Nat,
    go_live_date : Nat \cup {None},
    end_settings : [kind : {"None", "Date", "Amount"}, number : Nat],
    hidden_settings : BOOLEAN,
    whitelist_mint_settings : WhitelistMintSettings \cup {None},
    items_available : Nat,
    gatekeeper : BOOLEAN,
    retain_authority : BOOLEAN ]
FreezePDA ==
  [ allow_thaw : BOOLEAN, frozen_count : Nat, mint_start : Nat \cup {None}, freeze_time : Nat ]
(* The config line it was made from or, of a hidden machine, its number.    *)
NFT == [line : Nat, numbered : BOOLEAN, frozen : BOOLEAN]

ASSUME CandyAssumption ==
  /\ None \notin Int /\ None \notin WhitelistMintSettings
  /\ None \notin CandyMachineData /\ None \notin FreezePDA
  /\ SOL \notin Tokens
  /\ Authorities \subseteq Wallets /\ None \notin Authorities
  /\ DataChoices \subseteq CandyMachineData
  /\ FreezeTimes \subseteq Nat
  /\ InitialMoney \in Nat /\ BotFee \in Nat
  /\ Tickets \in [Wallets -> Nat]
  /\ ByteSize \in Nat \ {0}
  /\ MaxMints \in Nat /\ MaxOthers \in Nat /\ MaxTime \in Nat

VARIABLES
  now,             \* Clock::unix_timestamp
  phase,           \* whether the account exists: "Missing", "Open", "Closed"
  authority, token_mint, items_redeemed, data,   \* CandyMachine
  flags,           \* feature flags in data.uuid
  has_lines,       \* the account has room for the config lines it comes to sell
  taken,           \* mask of the config lines that are minted
  freeze,          \* FreezePDA, or None
  nfts,            \* NFTs in the order of their mint
  others_thawed,   \* history: tokens from elsewhere thawed through the freeze account
  escrow,          \* money of each currency held by the freeze account
  revenue,         \* money of each currency that reached the wallet of the machine
  taxes,           \* bot taxes held by the machine account
  money,           \* what each wallet holds of each currency
  tickets          \* whitelist tokens of each wallet

machineVars == <<phase, authority, token_mint, data, flags, has_lines>>
payVars == <<escrow, revenue, taxes, money, tickets>>
vars == <<now, machineVars, items_redeemed, taken, freeze, nfts, others_thawed, payVars>>

TypeOK ==
  /\ now \in Nat
  /\ phase \in {"Missing", "Open", "Closed"}
  /\ authority \in Authorities \cup {None}
  /\ token_mint \in Currencies
  /\ items_redeemed \in Nat
  /\ data \in DataChoices \cup {None}
  /\ (data = None) = (phase = "Missing")
  /\ flags \subseteq {"collections", "freeze", "freeze_lock"}
  /\ has_lines \in BOOLEAN
  /\ taken \subseteq Nat
  /\ freeze \in FreezePDA \cup {None}
  /\ nfts \in Seq(NFT)
  /\ others_thawed \in Nat
  /\ escrow \in [Currencies -> Nat] /\ revenue \in [Currencies -> Nat]
  /\ taxes \in Nat
  /\ money \in [Wallets -> [Currencies -> Nat]]
  /\ tickets \in [Wallets -> Nat]
----------------------------------------------------------------------------
(***************************************************************************)
(* get_good_index: the search for a line that is not minted, first upwards *)
(* from a random place, then downwards.  A byte of the mask that is full   *)
(* is skipped as a whole.                                                  *)
(***************************************************************************)
Nowhere == -1
ByteFull(i) ==
  \A k \in 0 .. ByteSize - 1 : (i \div ByteSize) * ByteSize + k \in taken

SearchUp(n, start) ==
  LET up[i \in 0 .. n + ByteSize] ==
        IF i >= n THEN Nowhere
        ELSE IF ByteFull(i) THEN up[i + (ByteSize - (i % ByteSize))]
        ELSE IF i \in taken THEN up[i + 1]
        ELSE i
  IN up[start]

(* Mutant: a full byte ends the search downwards. *)
SearchDownByBytes(n, start) ==
  LET down[i \in 0 .. n] ==
        IF ByteFull(i) THEN Nowhere
        ELSE IF i \in taken THEN (IF i = 0 THEN Nowhere ELSE down[i - 1])
        ELSE i
  IN down[start]

SearchDown(n, start) ==
  LET down[i \in 0 .. n] ==
        IF ByteFull(i)
        THEN IF i < ByteSize THEN Nowhere ELSE down[i - ((i % ByteSize) + 1)]
        ELSE IF i \in taken THEN (IF i = 0 THEN Nowhere ELSE down[i - 1])
        ELSE i
  IN down[start]

(* get_config_line *)
FoundLine(start) ==
  LET up == SearchUp(data.items_available, start)
  IN IF up # Nowhere THEN up ELSE SearchDown(data.items_available, start)

(* Mutant: the line is not marked. *)
UnmarkedLine(line) == taken
MarkedLine(line) == taken \cup {line}
----------------------------------------------------------------------------
(***************************************************************************)
(* Who may mint.                                                           *)
(***************************************************************************)
(* assert_valid_go_live *)
Live(p) == p = authority \/ (data.go_live_date # None /\ now >= data.go_live_date)

DatePassed(p) ==
  data.end_settings.kind = "Date" /\ now > data.end_settings.number /\ p # authority

AmountReached ==
  data.end_settings.kind = "Amount" /\ items_redeemed >= data.end_settings.number

(* A whitelist token opens a presale; without one, a list that is neither a *)
(* presale nor a discount is forced, and otherwise the go live date counts. *)
WhitelistRefuses(p) ==
  LET ws == data.whitelist_mint_settings
  IN IF ws = None THEN ~Live(p)
     ELSE IF tickets[p] > 0 THEN ~Live(p) /\ ~ws.presale
     ELSE ~Live(p) \/ (ws.discount_price = None /\ ~ws.presale)

UsesTicket(p) == data.whitelist_mint_settings # None /\ tickets[p] > 0

PriceFor(p) ==
  IF UsesTicket(p) /\ data.whitelist_mint_settings.discount_price # None
  THEN data.whitelist_mint_settings.discount_price ELSE data.price

(* A transaction: whether it has instructions of other programs, what the  *)
(* next instruction is, and whether the gateway token passes.              *)
Transaction == [foreign : BOOLEAN, next : {"none", "set_collection"}, gateway : BOOLEAN]

(* The mint attempts that cost the bot tax, in the order of the handler: an *)
(* authority past the amount to sell gets an error before the later ones.   *)
Taxed(p, tx) ==
  \/ items_redeemed >= data.items_available
  \/ tx.foreign
  \/ tx.next = "none" /\ "collections" \in flags
  \/ DatePassed(p)
  \/ AmountReached /\ p # authority
  \/ ~AmountReached /\ ((data.gatekeeper /\ ~tx.gateway) \/ WhitelistRefuses(p))

(* FreezePDA::thaw_eligible.  Mutant: the freeze never runs out. *)
ThawByAuthority == freeze.allow_thaw
ThawEligible ==
  \/ freeze.allow_thaw
  \/ items_redeemed >= data.items_available
  \/ freeze.mint_start # None /\ now >= freeze.mint_start + freeze.freeze_time

(* A mint is frozen and its price held back until the freeze is over.  The  *)
(* account that decides is one the caller names: it is compared with the    *)
(* machine's own only where it asks for a freeze, so an account of another  *)
(* machine whose freeze is over does as well.                               *)
MintsFrozen == IF "freeze" \in flags /\ ~ThawEligible THEN BOOLEAN ELSE {FALSE}

(* Mutant: a thaw does not count. *)
CountUnchanged == freeze.frozen_count
CountAfterThaw == IF freeze.frozen_count > 0 THEN freeze.frozen_count - 1 ELSE 0

(* Mutant: the count does not keep the funds. *)
UnlockAnyTime == freeze # None
MayUnlock == freeze # None /\ freeze.frozen_count = 0

MayWithdraw == "freeze" \notin flags /\ "freeze_lock" \notin flags
----------------------------------------------------------------------------
Init ==
  /\ now = 0
  /\ phase = "Missing" /\ authority = None /\ token_mint = SOL /\ data = None
  /\ items_redeemed = 0 /\ flags = {} /\ has_lines = FALSE /\ taken = {}
  /\ freeze = None
  /\ nfts = << >> /\ others_thawed = 0
  /\ escrow = [c \in Currencies |-> 0] /\ revenue = [c \in Currencies |-> 0]
  /\ taxes = 0
  /\ money = [w \in Wallets |-> [c \in Currencies |-> InitialMoney]]
  /\ tickets = Tickets

(* initialize_candy_machine; the account may be larger than the handler asks *)
(* for, and a hidden machine needs no room for lines.                       *)
Initialize(s, d, c, room) ==
  /\ phase = "Missing"
  /\ ~d.hidden_settings /\ d.items_available > 0 => room
  /\ phase' = "Open" /\ authority' = s /\ data' = d /\ token_mint' = c
  /\ has_lines' = room
  /\ UNCHANGED <<now, items_redeemed, flags, taken, freeze, nfts, others_thawed, payVars>>

(* update_candy_machine replaces data, wallet and token_mint. *)
Update(d, c) ==
  /\ phase = "Open"
  /\ d.items_available # data.items_available => d.hidden_settings
  /\ (data.items_available > 0 /\ d.hidden_settings) => data.hidden_settings
  /\ "freeze" \in flags => c = token_mint
  /\ "collections" \in flags => d.retain_authority
  /\ data' = d /\ token_mint' = c
  /\ UNCHANGED <<now, phase, authority, items_redeemed, flags, has_lines, taken, freeze,
                 nfts, others_thawed, payVars>>

UpdateAuthority(new) ==
  /\ phase = "Open"
  /\ "freeze" \in flags => new = authority
  /\ authority' = new
  /\ UNCHANGED <<now, phase, token_mint, data, items_redeemed, flags, has_lines, taken,
                 freeze, nfts, others_thawed, payVars>>

(* set_collection and remove_collection, refused once minting has begun.    *)
SetCollection ==
  /\ phase = "Open" /\ items_redeemed = 0 /\ data.retain_authority
  /\ flags' = flags \cup {"collections"}
  /\ UNCHANGED <<now, phase, authority, token_mint, data, items_redeemed, has_lines, taken,
                 freeze, nfts, others_thawed, payVars>>

RemoveCollection ==
  /\ phase = "Open" /\ items_redeemed = 0 /\ "collections" \in flags
  /\ flags' = flags \ {"collections"}
  /\ UNCHANGED <<now, phase, authority, token_mint, data, items_redeemed, has_lines, taken,
                 freeze, nfts, others_thawed, payVars>>

SetFreeze(freeze_time) ==
  /\ phase = "Open" /\ items_redeemed = 0 /\ freeze = None
  /\ freeze' = [allow_thaw |-> FALSE, frozen_count |-> 0, mint_start |-> None,
                freeze_time |-> freeze_time]
  /\ flags' = flags \cup {"freeze", "freeze_lock"}
  /\ UNCHANGED <<now, phase, authority, token_mint, data, items_redeemed, has_lines, taken,
                 nfts, others_thawed, payVars>>

(* remove_freeze allows thawing; before the first mint it closes the account. *)
RemoveFreeze ==
  /\ phase = "Open" /\ freeze # None
  /\ IF items_redeemed = 0
     THEN freeze' = None /\ flags' = flags \ {"freeze", "freeze_lock"}
     ELSE freeze' = [freeze EXCEPT !.allow_thaw = TRUE] /\ flags' = flags \ {"freeze"}
  /\ UNCHANGED <<now, phase, authority, token_mint, data, items_redeemed, has_lines, taken,
                 nfts, others_thawed, payVars>>

(* unlock_funds closes the freeze account: its lamports and, when the       *)
(* machine sells for a token, what it holds of that token go to the         *)
(* authority.  The handler clears the freeze flag twice.                    *)
UnlockFunds ==
  /\ phase = "Open" /\ MayUnlock
  /\ escrow' = [escrow EXCEPT ![SOL] = 0, ![token_mint] = 0]
  /\ money' = [money EXCEPT ![authority] =
                 [c \in Currencies |-> @[c] + escrow[c] - escrow'[c]]]
  /\ flags' = flags \ {"freeze"}
  /\ freeze' = None
  /\ UNCHANGED <<now, phase, authority, token_mint, data, items_redeemed, has_lines, taken,
                 nfts, others_thawed, revenue, taxes, tickets>>

(* thaw_nft, by anybody, also when the machine account is gone.  It asks    *)
(* that the token account has the freeze account for its delegate and is    *)
(* frozen, never that its mint came from this machine: the token is one of  *)
(* nfts or one from elsewhere, and the count falls for either.              *)
CanThaw == freeze # None /\ (phase = "Closed" \/ ThawEligible)

Thaw(i) ==
  /\ CanThaw /\ nfts[i].frozen
  /\ nfts' = [nfts EXCEPT ![i].frozen = FALSE]
  /\ freeze' = [freeze EXCEPT !.frozen_count = CountAfterThaw]
  /\ UNCHANGED <<now, machineVars, items_redeemed, taken, others_thawed, payVars>>

ThawOther ==
  /\ CanThaw /\ others_thawed < MaxOthers
  /\ others_thawed' = others_thawed + 1
  /\ freeze' = [freeze EXCEPT !.frozen_count = CountAfterThaw]
  /\ UNCHANGED <<now, machineVars, items_redeemed, taken, nfts, payVars>>

(* mint_nft up to the tax: punish_bots takes what the wallet has, up to the *)
(* fee.  A following set_collection_during_mint finds no metadata and stops. *)
TaxedMint(p, tx) ==
  /\ phase = "Open"
  /\ tx.next = "set_collection" => "collections" \in flags
  /\ Taxed(p, tx)
  /\ LET fee == IF money[p][SOL] < BotFee THEN money[p][SOL] ELSE BotFee
     IN money' = [money EXCEPT ![p][SOL] = @ - fee] /\ taxes' = taxes + fee
  /\ UNCHANGED <<now, machineVars, items_redeemed, taken, freeze, nfts, others_thawed, escrow,
                 revenue, tickets>>

(* The price goes to the freeze account or to the wallet of the machine.    *)
PayMint(p, price, frozen) ==
  /\ money[p][token_mint] >= price
  /\ money' = [money EXCEPT ![p][token_mint] = @ - price]
  /\ IF frozen
     THEN escrow' = [escrow EXCEPT ![token_mint] = @ + price] /\ UNCHANGED revenue
     ELSE revenue' = [revenue EXCEPT ![token_mint] = @ + price] /\ UNCHANGED escrow

(* A frozen NFT counts; the first one starts the time of the freeze.        *)
CountFrozen(frozen) ==
  freeze' = IF frozen
            THEN [freeze EXCEPT !.frozen_count = @ + 1,
                                !.mint_start = IF @ = None THEN now ELSE @]
            ELSE freeze

(* mint_nft; start is the place the slot hashes select, frozen what the     *)
(* freeze account the caller names makes of it.                             *)
Mint(p, tx, start, frozen) ==
  LET line == IF data.hidden_settings THEN items_redeemed ELSE FoundLine(start)
  IN /\ phase = "Open" /\ Len(nfts) < MaxMints
     /\ tx.next = "set_collection" => "collections" \in flags
     /\ ~Taxed(p, tx) /\ ~AmountReached
     /\ ~data.hidden_settings => has_lines /\ line # Nowhere
     /\ PayMint(p, PriceFor(p), frozen)
     /\ tickets' = IF UsesTicket(p) /\ data.whitelist_mint_settings.burn
                   THEN [tickets EXCEPT ![p] = @ - 1] ELSE tickets
     /\ taken' = IF data.hidden_settings THEN taken ELSE MarkedLine(line)
     /\ items_redeemed' = items_redeemed + 1
     /\ nfts' = Append(nfts, [line |-> line, numbered |-> data.hidden_settings, frozen |-> frozen])
     /\ CountFrozen(frozen)
     /\ UNCHANGED <<now, machineVars, others_thawed, taxes>>

(* withdraw_funds closes the machine account. *)
Withdraw ==
  /\ phase = "Open" /\ MayWithdraw
  /\ phase' = "Closed"
  /\ money' = [money EXCEPT ![authority][SOL] = @ + taxes]
  /\ taxes' = 0
  /\ UNCHANGED <<now, authority, token_mint, data, items_redeemed, flags, has_lines, taken,
                 freeze, nfts, others_thawed, escrow, revenue, tickets>>

Tick ==
  /\ now < MaxTime
  /\ now' = now + 1
  /\ UNCHANGED <<machineVars, items_redeemed, taken, freeze, nfts, others_thawed, payVars>>

(* The places the remainder of the slot hash by items_available can give.   *)
Starts == IF data = None THEN {} ELSE 0 .. data.items_available - 1

Next ==
  \/ \E s \in Authorities, d \in DataChoices, c \in Currencies, room \in BOOLEAN :
       Initialize(s, d, c, room)
  \/ \E d \in DataChoices, c \in Currencies : Update(d, c)
  \/ \E new \in Authorities : UpdateAuthority(new)
  \/ SetCollection
  \/ RemoveCollection
  \/ \E t \in FreezeTimes : SetFreeze(t)
  \/ RemoveFreeze
  \/ UnlockFunds
  \/ \E i \in DOMAIN nfts : Thaw(i)
  \/ ThawOther
  \/ \E p \in Wallets, tx \in Transaction : TaxedMint(p, tx)
  \/ \E p \in Wallets, tx \in Transaction, start \in Starts, frozen \in MintsFrozen :
       Mint(p, tx, start, frozen)
  \/ Withdraw
  \/ Tick

Spec == Init /\ [][Next]_vars
----------------------------------------------------------------------------
(***************************************************************************)
(* Safety.                                                                 *)
(***************************************************************************)

(* No config line, and no number of a hidden machine, is minted twice:      *)
(* get_config_line marks what get_good_index finds, also when a machine     *)
(* that sold numbers is turned into one that sells lines.                   *)
LineMintedOnce ==
  \A i, j \in DOMAIN nfts :
    nfts[i].line = nfts[j].line /\ nfts[i].numbered = nfts[j].numbered => i = j

(* While there are lines left the search finds one from wherever it starts: *)
(* the next free line above or, when there is none, the next one below.     *)
FreeLines == (0 .. data.items_available - 1) \ taken
SearchFindsNearest ==
  (phase = "Open" /\ has_lines /\ items_redeemed < data.items_available) =>
    \A start \in Starts :
      LET above == {i \in FreeLines : i >= start}
      IN FoundLine(start) = IF above # {} THEN Min(above) ELSE Max(FreeLines)

(* frozen_count never exceeds the number of frozen NFTs, whatever is thawed, *)
(* minted or reconfigured in between, and falls short of it by at most the  *)
(* tokens from elsewhere that were thawed; without them it is that number.  *)
(* Without the account it counts as zero.                                   *)
Frozen == {i \in DOMAIN nfts : nfts[i].frozen}
Count == IF freeze = None THEN 0 ELSE freeze.frozen_count
FrozenCounted == Count <= Cardinality(Frozen) /\ Cardinality(Frozen) <= Count + others_thawed

(* The funds of the freeze stay put while more NFTs are frozen than tokens  *)
(* from elsewhere were thawed, so while any is if none was: unlock_funds and *)
(* remove_freeze do not hand them over early.                               *)
EscrowHeldWhileFrozen ==
  [][(\E c \in Currencies : escrow'[c] < escrow[c]) => Cardinality(Frozen) <= others_thawed]_vars

(* A machine account that is closed leaves no frozen NFT and no held funds   *)
(* behind (thaw_nft: "shouldn't be possible to get into this state").       *)
ClosedIsThawed ==
  phase = "Closed" => Frozen = {} /\ \A c \in Currencies : escrow[c] = 0
----------------------------------------------------------------------------
(***************************************************************************)
(* Liveness.  Time passes and somebody thaws what may be thawed.           *)
(***************************************************************************)
FairSpec ==
  Spec /\ WF_vars(Tick) /\ \A i \in 1 .. MaxMints : WF_vars(i \in DOMAIN nfts /\ Thaw(i))

(* No NFT stays frozen: the freeze time runs from the first frozen mint, and *)
(* neither new settings nor the end of the sale stop it.  The one way out is *)
(* a freeze account closed before its NFTs were thawed, and that takes a     *)
(* token from elsewhere in the count.  (The clock of the model must be able *)
(* to reach the end of the freeze.)                                         *)
EveryNftThaws ==
  \A i \in 1 .. MaxMints :
    (i \in Frozen /\ freeze # None /\ freeze.mint_start + freeze.freeze_time <= MaxTime)
      ~> (i \notin Frozen \/ (freeze = None /\ others_thawed > 0))
----------------------------------------------------------------------------
(***************************************************************************)
(* What the code says and does not do.                                     *)
(***************************************************************************)

(* errors.rs:100: the machine cannot be withdrawn while frozen funds need to *)
(* be redeemed, "Unlock funds first."; with the funds unlocked the lock is  *)
(* open.  Once something is minted no other instruction opens it.           *)
LockedOnlyWithFunds ==
  (phase = "Open" /\ items_redeemed > 0 /\ "freeze_lock" \in flags) => freeze # None
=============================================================================
