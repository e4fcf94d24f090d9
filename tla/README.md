# A formal model of the Metaplex Program Library

The repository is a collection of Solana programs. A program owns accounts; an
instruction names accounts and arguments, runs one handler of one program, and
may call other programs. This shapes every module here:

* A transaction is atomic. A handler that returns an error changes nothing, so
  an instruction is one action: its checks are the guard, its writes the primed
  variables. Nothing runs in between, and nothing is half written.
* Everything else interleaves. Any wallet may send any instruction at any time,
  and the token program lets owners move tokens, burn shares or refill accounts
  behind the back of the program that counts them.
* Time is `Clock::unix_timestamp`. It is a variable `now` that only `Tick`
  advances, up to the bound `MaxTime`.
* An account whose address is derived from its contents (a trade state, a freeze
  account, a bidder's metadata) is modelled by what it is derived from. It
  exists or it is `None`.

Rent, compute budget, account sizes, serialization, logging and the checks that
an account is the one its seeds say are left out, except where the size or the
identity decides what happens (the room in a bid list, the room for config
lines). Where a handler takes an account as it is given, the model takes any: the
price and treasury accounts of `combine_vault`, the freeze account of `mint_nft`
and the NFT of `thaw_nft`, the list of creators of the sale's `withdraw`, the
master edition of `claim_pack`, the item index of `empty_payment_account`.

## 1. Inventory

| program (src/) | state | operations | talks to | module |
|---|---|---|---|---|
| `auction` | auction, bid list, extended data; metadata, pot and its token account per bidder | create, start, end, set authority, place, cancel, claim | token program; read by the auction manager | `Auction`, `EscrowCustody` |
| `token-vault` | vault, boxes and stores, share mint, two treasuries, price accounts | init, add token, activate, mint / add / withdraw shares, combine, redeem, withdraw token, set authority, update price | token program; driven by the auction manager | `Vault` |
| `candy-machine` | machine, settings, mask of lines, feature flags, freeze account, collection | initialize, update (authority, data), add lines, set / remove collection, set / remove freeze, thaw, unlock funds, mint, withdraw | token and token metadata programs, gateway | `CandyMachine` |
| `auction-house` | house, fee and treasury accounts, escrow per wallet, trade states, token approvals | create / update, delegate auctioneer, deposit, withdraw, close escrow, sell, bid (private, public), cancel, execute (whole, part), each direct and through an auctioneer; receipts | token program, token metadata | `AuctionHouse` |
| `auctioneer` | listing configuration with times and highest bid | authorize, sell, buy, deposit, withdraw, cancel, execute | every step calls the auction house | `Auctioneer` |
| `fixed-price-sale` | store, selling resource with its vault, market, trade histories, primary creators | init resource, create / change / suspend / resume / close market, buy, withdraw, claim resource | token metadata (prints) | `FixedPriceSale` |
| `metaplex` | auction manager, safety deposit configurations, token tracker, prize tracking, bid redemption tickets, payout tickets | init, validate safety deposit boxes, start, end, redeem bids of four kinds, redeem unused, claim, payouts, withdraw master edition, decommission | auction, vault, token metadata | `AuctionManager` (extends `Auction`) |
| `token-metadata` | metadata, master editions and their marks, collection and use records | create, update, sign, collections (verify, unverify, set, size), editions and prints, print via vault, uses and their approval, freeze, thaw, burn | token program, vault | `TokenMetadata` |
| `nft-packs` | pack set, weights, cards, vouchers, proving processes | init, edit, add card / voucher, activate, deactivate, close, request card, clean up, claim, delete | token metadata, random oracle | `NftPacks` |
| `gumdrop` | distributor, claim statuses, counts and proofs | new, claim (tokens, candy, edition, proven candy), prove, close, recover | candy machine, token metadata, temporal signer | `Gumdrop` |
| `token-entangler` | entangled pairs with two escrows each | create, update, swap | token program | `TokenEntangler` |
| `bubblegum` | tree configuration, mint requests, vouchers | create, request / approve / close mints, mint, verify creator / collection, delegate, transfer, redeem, cancel, decompress, burn | account compression (external), token metadata | `Bubblegum` |
| `candy-wrapper`, `core`, JavaScript packages, CLIs | none | builders of instructions, test helpers | | not modelled |

### What is hard in each of them, and what makes it correct

**Auction.** The list is kept sorted by insertion, bounded, and read from the
end; the money is in pots of bidders who may have dropped off the list; the end
is stored (`state`) *and* computed from the clock (`AuctionData::ended`), and the
two disagree for a while; a winner may be claimed while others still bid at an
instant sale price. Correct means: price and time priority, one bid per bidder,
listed bids backed by pots, a true count of live bids (it pays participation
prizes), final winners, money that only ever goes to its bidder or, for a winner,
to the seller, and that always goes somewhere.

**Vault.** Shares are in a mint, a treasury and in holders' hands; the price is
read once and locked; boxes are counted down by one handler and shares by
another, and whoever comes last must deactivate the vault. Correct means: shares
add up, the redeem treasury covers all shares at the locked price, order keys are
unique, deactivation comes with the last share and the last token and never
before, unless tokens were sent to an emptied box from outside.

**Candy machine.** `mint_nft` searches a bit mask from a random place, pays one of
two accounts, may burn a whitelist token, may freeze the NFT, and may tax instead
of fail; settings may change between any two mints; frozen NFTs are counted by
hand by four handlers. Correct means: a line or number is minted once, the search
finds a line while one is left, the count of frozen NFTs is true, funds stay put
while something is frozen, a closed machine leaves nothing frozen, and every
frozen NFT can be thawed in the end - all but for what thaws of NFTs from elsewhere
take off the count.

**Auction house.** All bids of a wallet share one escrow; all listings of a token
account share one approval; a trade state is a marker that outlives the
circumstances it was made in; the authority may reprice listings that the owner
gave away; a sale splits the price over creators, house and seller with three
roundings; every instruction has a twin for a delegated auctioneer. Correct
means: an escrow is spent on its wallet's own bids at their price, tokens are
sold at prices their owner listed them at, and no lamport of a sale is lost.

**Auctioneer.** The highest bid is remembered apart from the trade state that
carries it; times are extended by bids; in its last second an auction is both
active and over; a listing may be cancelled while its configuration stays, and
trade states of an earlier auction of the same lot are still there. Correct means:
where the lot says so, the highest bid cannot be withdrawn from under it; the sale
goes to the highest of the bids this auction has taken, for its price; an auction
with a bid is concluded unless a party takes its token or its money away.

**Fixed price sale.** Whether a market is over is decided by its state or by its
date, in six handlers, each in its own way; limits and prices change while people
buy; payouts are computed from the takings once per funder, in any order, and
rounded; the master edition may be claimed back only when the money is gone to the
last unit. Correct means: pieces never exceed the promise, a sold out sale is over,
the takings are final once somebody has been paid and cover everybody, except for what
payouts by another list of creators took, the master edition goes back after the
payouts, and does go back if the shares leave no rest and nobody adds one.

**Auction manager.** It reads an auction and a vault by their stored states while
both still change. What a box must hold is computed once, before any bid, from
ranges of places; winners, losers, the auctioneer and anybody who pushes payouts
then act in any order, each instruction remembering in bits of its own what it has
done. Correct means: what is left in a box is enough for the winners who have not
redeemed, an edition number reserved for one place is printed by nobody else, a bid
is never paid out beyond its amount under one item index, and payouts open when all
winners are claimed.

**Token metadata.** A dozen handlers write creators and collections, and prints
copy them; numbers of prints come from clients in any order, with marks spread over
accounts, bytes and bits; a frozen token stays with a delegate who could be revoked,
burnt or stripped of its edition. Correct means: nobody is verified without having
signed and no collection without its authority; a number is printed once and within
the maximum; a frozen token can be thawed.

**NFT packs.** A draw is recorded by one instruction, taken off the list of weights
by a second, claimed by a third, and each may come late or from another wallet;
cards are numbered by a counter. Correct means: what was drawn can be claimed, as
long as no claim of another card printed with its master, and the program holds the
master of every card.

**Gumdrop.** The accounts of claims outlive the distributor, which may be closed and
made again with another tree; there are five ways to claim, with two prefixes of
accounts, one of which need not look at the tree again. Correct means: an index
hands out no more than a published leaf gives it, under one prefix only, and to a
wallet that was vouched for.

**Token entangler.** A swap moves the whole supply of two mints as it finds them.
Correct means: of two mints one is always whole in escrow.

**Bubblegum.** An NFT is a leaf, a voucher or a token, made and unmade by different
programs; accounts are named unsigned and content is passed in by the caller;
approvals are counted twice. Correct means: approved mints fit into the tree, an NFT
has one form, what is gone stays gone, and nothing changes hands or is verified
without a signature.

`PROJECT.json` lists the hazards at their lines with the properties that cover
them, and says why where none does. Where a property was found to fail, the note
names the configuration that shows it (section 5).

## 2. Modules and how they correspond to the code

**`Auction`** keeps `AuctionData` in the variables `args` (what creation fixes),
`authority`, `state`, `ended_at`, `last_bid`, `price_floor`, `bids`; the extended
data in `total_uncancelled_bids`; `BidderMetadata`, `BidderPot` and the token
accounts in `meta`, `pot`, `wallet`, `proceeds`. The bid list has the code's
order, highest last. `BidState` methods are operators (`InsertPlace`, `WithBid`,
`WithoutBidder`, `IsWinner`, `WinningAmount`, `Slots`), instructions are actions.
`PlaceBidTooLate` is the early return of `place_bid` that only records the end. A
blinded price is kept in the clear: revealing it is a change of its kind.

**`EscrowCustody`** is what an auction promises about money whatever the rules of
bidding: three operations, no list, no clock. `Auction!CustodySpec` instantiates
it with `closed` as the *computed* end, `winners` as the set the list names, and
`held` as the pots. A run checks that every behaviour of `Auction` is one of it.

**`Vault`** keeps the `Vault` account, the `order` and `store` of each box, the
share mint with its treasury and holders, the payment currency with its treasury
and holders, and the price accounts, which their owners change at will. Every
product is checked against `MaxU64` in the order of the code. `Gift` is the token
program: anybody may send tokens to a store; `refills` is the history of those sent to
an empty one. `combine_vault` never compares the account passed as fraction treasury
with the vault's: `Treasuries` are the vault's own and an empty one.

**`CandyMachine`** has one machine. `nfts` is the history of mints with the state
of their token accounts. `Mint` is the whole of `mint_nft` with the instruction
that may follow it in the transaction; `TaxedMint` is its successful failure.
`mint_nft` looks at the freeze account it is given, whose own machine it checks only on
one of two branches: `MintsFrozen` are the outcomes. `thaw_nft` compares neither token
account nor mint with the machine: `ThawOther` is the thaw of an NFT from elsewhere whose
delegate is the freeze account, `others_thawed` their history.
`FoundLine` is `get_good_index` with the byte-skipping of the mask, for bytes of
`ByteSize` bits. The text of the lines is not modelled.

**`AuctionHouse`** has one house and the tokens of one mint. A trade state is the
record of its seeds. `Handler`, `BidHandler` are the guards that send an
instruction to the direct handler or to the auctioneer's; both twins of a handler
are one action with the argument `auctioneer`. `auth` and `..._signs` say who has
signed. `signed` is a history variable: the listings the owner itself has signed.
The fee account and rent are left out: `FeePayer` keeps the condition under which
somebody may pay.

**`Auctioneer`** extends `AuctionHouse` by the clock and the `ListingConfig` of each
lot (token account and size): `listing_config` is what it was created with,
`end_time` and `highest_bid` what bids change. Each action conjoins the checks of
the auctioneer with the action of the house it calls, so a refusal of the house
refuses the whole, as in one transaction. `Direct` are the other clients of the
house. Calls made with a `CpiContext` (buy, deposit) drop the authority's
signature, those built by hand keep it. `offers` is the history of the bids of the
running auction.

**`FixedPriceSale`** has one selling resource, its market, trade histories, payout
tickets, the treasury account (beyond the minimal balance that `create_market`
puts there) and what the program reads of token metadata: the creators, the fee,
`primary_sale_happened`, which the update authority may raise at any time, and the
supply of the master edition. `Over` is the end as payouts see it, `Open` as
buyers do. A gatekeeper is a number of gating tokens per buyer; the two ways of
proving one (its mint, its collection) are one. `Withdraw` goes by any of `Lists`:
`withdraw` reads the creators from the first of the remaining accounts without asking
whose it is, so besides the list saved it may be one of `GivenShares`. `Gift` sends money
to the treasury account. `got` is the history of what each funder was paid, `gifts` of
what was sent.

**`AuctionManager`** extends `Auction`, whose authorities are the seller and the
manager: every bid, cancellation and tick of its behaviours is a step of that
module, and the manager's own calls (`StartAuction`, `ClaimBid`, ...) conjoin its
checks with the action of the auction. `tokens`, `supply`, `update_authority`, `sold`
are what it reads and writes of the vault and of token metadata, box by box. A
behaviour follows one `plan` (the prizes, the optional steps and payouts asked for).
Amount ranges keep the code's list form; `RangesAt`, `Cumulative`, `Merged` are its
computations. `ticket` keeps the two ranges of bits of a `BidRedemptionTicket`,
which depend on whether it holds a winner index. `takes`, `printed`, `misstated` are
history, as are the fields `sold` and `shared` of a payout ticket: the sale flag and the
number of token types that the payout saw. A payout is asked for under any item index, and each has a ticket of its own, as
in the code. The vault changes hands by the vault program's `set_authority`
(`HandOverVault`), at first and whenever a decommission has given it back; a seller who
has it may take tokens from a box (`SellerWithdraws`, with the history `withdrawn`).
`LastPlace` bounds the places that anybody names. The deprecated version 1 manager, whose accounts are of their own kind, is left
out, as are the store and its caches; whom its whitelist admits is part of a plan.

**`TokenMetadata`** has several mints. Token accounts are `held`, `delegate` and
`frozen` per mint and wallet; `edition` is a master of either version or a print,
`marks` the bits of the edition markers with `ByteSize` and `MarkerBits` as the
numbers of the code. An account that gives up its lamports (burn) becomes `None`.
`consented`, `endorsed` and `seeded` are the histories against which verification is
judged. `clients` restricts what the wallets of one behaviour ask for; it is chosen
in the initial state and guards nothing the code guards.

**`NftPacks`** has one pack. `config` is the list of weights with the pending
`action_to_do`, in the order the code keeps it. `RequestCardForRedeem` takes any
random value: `SelectWeightedRandom` gives the card for it. `CleanUp` is the
deferred change. `ClaimPack` prints with any master the program holds, not only the
card's own, because `claim_pack` compares none of the accounts of the print with the
card; `ClaimElsewhere` is such a claim from another pack, `strayed` the history of both.
`PrintElsewhere` is a master's owner printing outside. A voucher is proved by its holder
or by the delegate of its account.

**`Gumdrop`** has the distributor of one base key. A root is its set of leaves.
`claims[prefix][index]` is the account at the address derived from both. The temporal
signer is whoever the service vouches for (`Temporal`). `published` and `handed` are
histories: distributors created, and units given out.

**`TokenEntangler`** has every pair of its mints, with the escrows `balance[mint]
[pair]`. A mint is entangled with a supply of one base unit or of one whole token
(`Unit`). `Transfer`, `BurnToken`, `MintToken` are the token program's.

**`Bubblegum`** has one tree. A leaf is its owner, delegate and the two hashes, each
represented by what was hashed; a call whose arguments do not hash to the leaf is
disabled. The Merkle tree (external) is a function from indexes to leaves.

`MCAuction`, `MCVault`, `MCCandyMachine`, `MCAuctionHouse`, `MCAuctioneer`,
`MCFixedPriceSale`, `MCTokenMetadata`, `MCAuctionManager`, `MCNftPacks`,
`MCBubblegum` only define small instances; two `ASSUME`s of `MCAuctionManager` have TLC
compare the lookups of amount ranges and their merging with the lists written out place
by place. `Drops` puts `Gumdrop`, `TokenEntangler` and `NftPacks` side by side; they share
no account, so the initial state chooses which of them a behaviour runs, and `MCDrops`
is a small instance of each. `AuctionProofs` (with the manager's), `VaultProofs`,
`SaleProofs`, `HouseProofs` (with the auctioneer's), `MetadataProofs`, `BubblegumProofs` and
`DropProofs` (gumdrop, candy machine, entangler, packs) hold the theorems, `Sums` the
lemmas about sums over finite sets that several of them need. Some
definitions come with a second version (marked "Mutant" or by a comment): a plausible
slip in that piece of code, against which the properties are tested.

## 3. Runs

| run | question | result |
|---|---|---|
| `auction_safety` | do the list, the pots, the winners and the custody of money hold up, and is every pot emptied | holds |
| `vault_buyout` | do shares add up, does the treasury cover them at a price that changes, is nothing left behind but what was sent from outside, does the vault wind down | holds |
| `candy_sale` | does the search of the mask find each line once; freeze, funds, settings, whitelist, two currencies; progress of thawing | holds |
| `candy_unlock_doc` | `errors.rs:100`: with the funds unlocked a withdrawal is possible | violated |
| `house` | escrows, prices, splitting of the price, over direct and auctioneer handlers | holds |
| `auctioneer` | does the highest bid stand, does the sale go to it, are auctions concluded, next to direct instructions | holds |
| `sale` | pieces, end of a sale, takings, payouts, return of the master edition | holds |
| `metadata` | is nothing verified without consent, are prints numbered once, can frozen tokens be thawed | holds |
| `manager` | do boxes last for all winners, are edition numbers reserved, do payouts open and stay within the bids | holds |
| `bubblegum` | do approvals fit, is there one form of an NFT, does it stay gone, does somebody sign for each change | holds |
| `bubblegum_creators_doc` | `lib.rs:691`: the creator hash is the one of the creators after verification | violated |
| `drops` | gumdrop: claims within the published leaves; entangler: one of two tokens in escrow; packs: draws can be claimed, masters are kept | holds |

The violations are kept because the program itself says otherwise; each is
described, with the quoted line, in `PROJECT.json` under `findings`. Six more
configurations, listed in section 5, reproduce disagreements of the same kind.

The modules define a few properties more than the runs check: `TypeOK` of each
module, `UncancelledCounted` (`Auction`), `OrderKeysUnique` and
`DeactivatesWithTheLast` (`Vault`), `ClosedIsThawed` (`CandyMachine`), `LotsOK`
(`Auctioneer`), `ClaimedWhenPaid` (`FixedPriceSale`), `OneOfAKind` and `UsesOnlyGoDown`
(`TokenMetadata`), `MasterKept` (`AuctionManager`), `EndIsFinal` (`NftPacks`),
`OneEndpoint` and `ClaimantsVouchedFor` (`Gumdrop`). They hold under the
configuration of their module too: name them in its `INVARIANTS` or `PROPERTIES`.

### Bounds, and why they are enough

* `auction_safety`: three bidders with two tokens each, amounts 1 and 2, `MinSlots`
  = 2, clock to 4. Two slots and three bidders make a bid drop off the list and
  return; two amounts give higher, equal and lower bids; the clock passes an end
  time (1), a gap (1) and the extension by a bid. The six argument records are
  the combinations that turn a branch of the code: gap with percentage, hidden
  reserve ended by the authority, instant sale with two winners and a minimum, no
  winner with a tick, no winner with an instant price, open edition.
* `vault_buyout`: two mints against `MaxU8` = 2, so the count of boxes meets its
  limit; `MaxU64` = 4, so products of prices and shares overflow; three prices, of
  which one forbids combining and one is in another currency; two authorities. Boxes
  hold a token or none (`Deposits` = {0, 1}), and anybody may send one to a store at any
  time (`Gifts` = {1}), so a box is emptied, refilled and emptied again.
* `candy_sale`: the authority and a buyer, two currencies, six settings (lines,
  lines before going live, four free lines, numbered with a presale, numbered with a
  forced whitelist and an end by amount, a single number with an end by date), at
  most `MaxMints` = 3 NFTs, money 1 each, freeze time 1, clock to 2, and one thaw of an
  NFT from elsewhere (`MaxOthers`), enough to have the funds unlocked and the freeze
  account closed with an NFT still frozen. `ByteSize` = 2 instead of 8:
  four lines are two bytes, so the search skips a full byte both ways and wraps.
* `house`: a seller with two tokens and a buyer with money 5; five listings (free,
  5 for two, an auction, 4 for one by either wallet) and four bids (all for 5 or
  one for the unit price 2, private or public); at most `MaxTradeStates` = 2 at a
  time; one house that reprices, one that insists on its signature and takes it
  all. 5 is not divisible by 2, and royalties of 50% shared 60 to 40 leave dust.
* `auctioneer`: a seller with one token, two bidders with money 2, at most
  `MaxTradeStates` = 3, clock to 2. One lot has a reserve, an increment and an
  extension and holds the highest bid fast, the other starts later and lets it be
  cancelled; the token is also offered directly for 2. So a lot can be sold, moved,
  listed again and bid for with trade states of the auction before.
* `sale`: two buyers with money 4 and 2, an artist and an owner who is a creator;
  a market without an end and with a limit of two, a dated one that is gated on its
  first day, an immutable one gated throughout; supply 2, 4 or unlimited; changes of
  price, limit and mutability. Takings from 1 to 6 give even and uneven shares;
  `MaxU64` = 20000 is exceeded by 5000 basis points of more than 4. Primary shares: halves, all to one, and 80 twice; a caller may also bring a list that
  nobody saved (`GivenShares`). At most one gift.
* `metadata`: three mints, two wallets, and six kinds of clients, so that creators,
  prints, an old master edition, collections, uses and freezing are each explored
  with the other features near at hand and not all at once. `ByteSize` = 2 and
  `MarkerBits` = 4 instead of 8 and 248: the numbers 0, 1, 4, 5, 6 of prints are both
  bits of a byte, both bytes of a marker and the second marker; maximum 5 refuses the
  sixth.
* `manager`: two bidders, amounts 2 and 3, two boxes, fourteen plans: one or two
  winners, an end by time and by authority, a box validated after payouts began, instant prices, hidden floors, open
  edition, each kind of prize, boxes that must be refused (too few tokens, unlisted
  creators, too small a supply), decommissioning after which the seller uses the vault
  again. One plan has two boxes paid for one place under different item indexes. A place is
  served from a box at most twice (`MaxTakes`).
* `bubblegum`: a tree of two leaves, two wallets that sign and one that is only
  named, an unsized and a sized collection, four contents: with that, approvals meet
  the capacity and two NFTs are in different forms.
* `drops`: three distributors that may follow each other (with and without temporal
  signer, the same index with less, more and another resource); pairs of three mints,
  of which one can be minted again and one has a whole token of two base units; packs of
  the three distributions with up to two cards, a voucher with two prints of which one has
  a delegate, two draws, one claim that prints with the master of another card, clock to 1.
  A card has two editions or none left to choose, so two draws and a stray print meet
  the master's maximum.

### Fairness

Safety needs none. The runs with liveness assume only what an interested party
can do alone: that the clock goes on; that a bidder asks for its money and the
authority claims what it may (`EscrowDrains`); that holders redeem and the
authority empties boxes (`WindsDown`); that somebody thaws an NFT that may be
thawed, which needs no permission (`EveryNftThaws`); that somebody executes the sale
of an auction that is over, which the buyer and the seller both can
(`AuctionConcludes`); that payouts are asked for, which anybody may, and the owner
claims its master edition (`SaleSettles`). No instruction is assumed to
succeed: fairness is weak and on the whole action with its guard.

## 4. Proofs

50 theorems hold for every value of the constants. Each of the 35 safety properties of a
passing run is one of them. The modules are `Sums` (the total of a
function over a finite set: split off a member, change a member, move an amount from one
to another, compare or scale term by term, take it group by group) and one per group of programs.

### Auction and auction manager (`AuctionProofs`)

For any number of bidders, amounts, arguments and clock:
types, `OneBidPerBidder`, `PriceTimePriority`, `BidsBacked`, then `WinnersFinal` and the
refinement `CustodySpec`. Of the invariants none is
inductive. Time priority needs that a listed bid was made in the past
(`BidTimesPast`), and that the metadata of a listed bidder is that bid
(`ListedKnown`); backing needs that a bidder who may bid again, cancelled or never
seen, has an empty pot (`DeadPotsEmpty`), and that the list is empty before the
auction starts (`Phases`). `AuctionInv` conjoins them. The heart is the list:
`PlaceOfBid` shows that the scan from the top, which stops at the first lower bid
or below the equal ones, finds the place that keeps order; `WithBidKeepsOrder` and
`WithoutBidderKeepsOrder` carry it through insertion with pruning and removal.

`WinnersFinal` follows from `AuctionInv`: when the time is over `cancel_bid` refuses the
winners, and a loser stands below them or under the floor, so that taking it out of the
list moves no winner across the line (`LoserLeaves`). The refinement of `EscrowCustody`
is proved step by step (`CustodyStepMaps`). It needs that whoever was claimed goes on
winning (`PaidWon`), before the end because nobody can outbid the instant sale price
(`PlacedBelow`). One assumption on the arguments is left, `FloorsWithinReach`: no hidden
floor above the instant sale price. `create_auction` does not ask for it, and without it
the statement is false (section 5).

The manager's behaviours are steps of the auction or leave it alone, so `AuctionInv` is
an invariant of them too. On it rests:

* `ManagerTypeCorrect`. The merging of a box's ranges into the tracker is a loop that cuts
  two lists at each other's ends (`AreCuts`); by induction on its steps it keeps lists of
  ranges (`CutsType`, `MergeType`).
* `PayoutsOpenWhenAllClaimed`. The idea is a bid whose place is *fixed* (`FixedAt`): the
  auction is over, or the bid is at the instant price, and the bids above it are so too;
  no instruction can move it any more (`FixedStays`). A claimed pot belongs to a fixed
  place (`PaidTop`), and the count pushed is the number of emptied pots (`PushedCounted`),
  so as many as there are winners means all of them.
* `PrizesKeptForWinners`. What has left a box is what was taken for its places, unless a
  seller to whom a decommission gave the vault back has taken from it, and a
  configured box held all that its ranges promise (`BoxAccounts`); `find_amount_and_cumulative_offset` and the total of `validate_safety_deposit_box` agree place by
  place (`CumulativeNext`, `DueBefore`).
* `EditionsAreReserved`. Who redeems before the end holds the instant price and so a fixed
  place (`InstantStands`, which needs that no listed bid is under the floor,
  `FloorHeld`); what it prints is reserved to that place (`PrintsReserved`), and the
  reserved intervals are disjoint and fit in the supply. For participation editions
  (`OneParticipation`) the bit that says "done" must be where the next redemption looks for it,
  and the ticket's two forms have it at different places: a bidder who has spoken the
  truth about its place keeps its form (`Done`).
* `PaidWithinTheBid`. The tracker has for every place the number of configured boxes that
  give something to it (`TrackerCounts`). For that the loop of the merge is followed place
  by place: one cut moves the reading position in both lists by the same length
  (`CutCounts`), every cut uses up a range until one list is empty (`CutUsesUp`), so the
  merged list has what it had and one more where the box gives something (`MergeCounts`).
  A payout is of a bid that nothing can move, because payouts open when all are claimed,
  and it is its payee's part of it, divided by the number the tracker had
  (`PayoutBacked`). The parts of the payees of one box, creators and auctioneer, make one
  whole at most, before the sale flag rises and after it (`BoxWeights`); summed over as many
  boxes as they were divided by (`SumGrouped`), they are no more than the bid. All this is
  under one item index: another index opens the tickets of the place anew.

### Token vault (`VaultProofs`)

`Solvent` (by the distributive law: both sides lose
`locked_price_per_share` times the redeemed shares), `OrderKeysUnique` (orders are
below the count while boxes are being added) and `DeactivatedEmpty`: deactivation leaves
no share, and tokens in no more boxes than were refilled (`FilledCounted`: the filled
stores are no more than the count and the gifts to empty stores). `SharesConserved`: every
instruction moves shares between two accounts or changes supply and one account alike.
None of them assumes anything of the gifts. `TreasuryLeft` is for a combination that
names another treasury account: what the vault's own still holds stays in the supply,
and the buyer has paid for it.

### Fixed price sale (`SaleProofs`)

For any buyers, funders, shares, markets and changes: types
and counts, `SoldOutEnds` and `TakingsFinal`. The argument of the latter is
`PayoutsWhenOver`: a payout is made only when the market is over, and over it stays
(`OverStays`), because a date that has passed has passed and the state Ended is left
only by a purchase, which it forbids, or by a suspension, which it refuses.

`NobodyGoesUnpaid` is about roundings: shares of at most 100 percent, each rounded down,
of the royalty, and one funder's rest of the takings, are together no more than the
takings (`SharesOfTakings`, `TakingsCover`); and the treasury is the takings and the
gifts less what the funders got (`Accounted`). So it covers what is owing to those not yet
paid but for what the others got beyond their due, by whatever list of creators their
payouts went, and before or after the flag rose. `ClaimsComeLast` follows: an empty
treasury owes nothing else.

### Candy machine, gumdrop, entangler, packs (`DropProofs`)

`FrozenCounted` and `EscrowHeldWhileFrozen` for any machine, wallets
and order of mints. The count is that of a finite set of NFTs, which grows by the one
just minted and loses the one thawed; a thaw of an NFT from elsewhere lowers the count
alone, at most to zero. So the count is never above the number of frozen NFTs, and with
the number of such thaws never below. `LinesAreMintedOnce` and `NoLineIsMissed` are about the search: the loops
over the mask are recursive functions, and by complete induction on where a scan starts it
returns the nearest free line above, which skipping full bytes does not change, or else
the nearest below (`FoundAbove`, `FoundBelow`). A line minted is taken, no more are
taken than were redeemed, and the NFTs of a machine with hidden settings are numbered in
order (`Lines`).

`ClaimedAtMost`, `OneEndpoint` and
`ClaimantsVouchedFor` for any trees, claimants and resources. Neither bound is
inductive: the account of an index must be tied to the history, in that its count is no
less than what was handed out (`CountsAtLeast`), that a proof repeats a published leaf
of its index (`ProofsPublished`), and that either prefix serves its own kind of leaves
(`KindsServed`), however many distributors came and went since.

`OneStaysInEscrow`: the supply of a mint is the sum of what all places hold of it
(`Ledger`), so a place that holds all of it leaves nothing to the others, and a swap, which
brings in the whole supply of one mint, takes none of it out; a pair has two mints
(`Apart`). `MastersAreKept` for any numbers of cards and masters.

`ClaimsAreCovered`: what is drawn from a pack can be claimed, whatever the numbers of
cards, masters, wallets and vouchers. A draw, its clean-up and the claim are separate
instructions that change three counts one after the other, so the invariant (`StockInv`)
reads all of them as one stock: a card has at most one entry in the list; the pack's number
of editions is what the list leaves in total; a change that waits takes exactly one from
its entry; and a card's account is what the list leaves, less the change that waits, plus
the draws not yet claimed, which its master can still print, less what claims of other
cards printed with it. While the pack is being
assembled nothing was drawn and the action that waits is the sort (`NotOpened`). The
lemmas about the list do without induction: sorting is a permutation, and the swap of
`change_weight` another, which the stock does not see; adding, changing or cutting off an
entry changes the stock of one card. Two assumptions come with the instance: the prints of
the vouchers are finitely many, and the value for "no account" (`NoAccount`) is neither a
configuration nor a process.

### Auction house and auctioneer (`HouseProofs`)

`PricesAgreed` is inductive: `signed` only grows, and the
authority makes a price only for a listing at zero that its owner has given away.
`EscrowIsTheBidders` and `SoldAtListedPrice` are action properties over `HouseTypes`; the latter
needs that the creators' parts, each rounded down, leave the seller no less than zero, so
that what is taken from the escrow is what creators, house and owner get.
`AuctioneerKeepsHouseRules` is a refinement: every instruction of the auctioneer is a step of
the house, or none, and so all theorems about the house hold of it. `HighestBidWins`: the
highest bid of a lot is among those taken since it was listed, and none of them was higher
(`Offered`, `BidsOnLots`). `HighestBidIsHeld` has a hypothesis: every set of scopes that the house may
give its auctioneer covers cancellations and sales. Without these two scopes the lot's
own bidders and sellers act through the house directly, and the statement is false.

### Token metadata (`MetadataProofs`)

`FrozenCanThaw`, `PrintsNumbered` and that an edition never has a
second token (`NoSecondToken`). The first rests on the last: burning a token could take
away the edition under which another wallet's token is frozen, but two holders mean a
supply of two. For that the supply is tied to the accounts by a ledger (`Booked`): a
finite set of tokens, each with one owner. `PrintsNumbered` needs that a master with
prints is never burnt and that a mark is set for each print; nothing is assumed of the
way marks are spread over bytes, only that `PrintOnce` looks at the one it sets.

`NobodyVouchesForAnother` (`VerifiedByConsent`) goes through all instructions: a handler
that writes one account may write what is vouched for (`WriteOne`), and what has once
vouched stays in the history. A print copies its master's creators and collection,
whose vouchers it inherits. `UsesAreNotRestored` is an action property.

### Bubblegum (`BubblegumProofs`)

Types, `OneForm`, `GoneForGood` and `ChangesSigned` for any
wallets, collections, contents and depth of the tree. `OneForm` is
inductive with the types, because it also says that a nonce not yet minted has no
form. The two action properties split `Next` into the instructions on a leaf, on a
voucher and on the tree. `ApprovalsCounted`: the sum of the approvals over all
authorities, which each request, approval, mint and closing changes in one place.

### Assumptions

They are the `ASSUME`s of the modules; TLC evaluates them in every run. Besides typing the
constants they say:

* Sets of wallets, mints, boxes, holders, creators are finite, wherever something is
  summed over them: there are finitely many accounts.
* `None` and its like are not members of the types they are optional in.
* The auction house: `Any` is no wallet, the creators' shares add up to no more than 100 and a
  royalty is at most `BasisPoints`; token metadata refuses other metadata.
* The fixed price sale: shares are percentages, a fee at most 10000 basis points, both by
  token metadata, and an initial number of editions within the maximum.
* The manager: the authorities of its auction are the seller and itself; the order keys of
  boxes differ (proved of the vault in `BoxesOrdered`); no more places win than anybody
  names (`LastPlace`); the shares of the creators of a prize add up to no more than 100, which
  token metadata asks of all metadata (`ShareTotalMustBe100`).

### Found by proving

An attempt at a proof changed the model in four places, where the code allowed more than
the model did or a property said more than the code keeps. An edition account may be
the update authority of metadata. The account of a candy machine may have
room for config lines although its settings are hidden (`room`), and then a change of
settings makes it hand out lines after numbers (`numbered`). `PrizesKept` needs no condition on instant prices. And
`PaidWithinBid` was false for an auction that its seller starts: it may run and end while a
box is still unvalidated, payouts begin, and the validation changes the number of token
types that the later ones are divided by (section 5).

### Only model-checked

Liveness under fairness, which is beyond the prover: `EscrowDrains`, `WindsDown`,
`EveryNftThaws`, `AuctionConcludes`, `SaleSettles`. The receipts of section 7 are not modelled.

## 5. Divergences

Two have a run (`candy_unlock_doc`, `bubblegum_creators_doc`, see `findings`). Six
more disagree with a line of the repository and have a configuration with which TLC
shows the behaviour (`tlc -config X.cfg MODULE`):

* `auction_cancel_doc.cfg` (`MCAuction`, `CancelOnlyOpenOrLost`): `cancel_bid` refuses
  a winner only when `AuctionData::ended` is true, which needs the clock to be past
  `ended_at` and past the gap after the last bid. Right after `end_auction`, or after
  an instant sale closed the list, a listed winner still gets its whole pot back.
  `cancel_bid.rs:1`: "This only works in two cases".
* `house_closed_doc.cfg` (`MCAuctionHouse`, `BidsClosedBySale`): `execute_sale_logic`
  unpacks the seller's token account before the transfer (`execute_sale/mod.rs:1474`)
  and closes the trade states only if that amount is zero (1748), which was just
  required to be at least the size: bid and listing outlive the sale. `bid/mod.rs:104`
  says a public bid is "matched with a counter bid and closed as a transaction".
* `sale_limit_doc.cfg` (`MCFixedPriceSale`, `LimitHolds`): `buy.rs:77` refuses only when
  what was bought *equals* the limit, which `change_market` may lower below it.
  `buy.rs:75`: "Check, that user not reach buy limit".
* `metadata_collection_doc.cfg` (`MCTokenMetadata`, `VerifiedCollectionStays`): an update
  may replace a verified collection by another, unverified one; the parent's size goes
  on counting the item. `processor.rs:352`: "Can't change a verified collection in
  this command."
* `manager_once_doc.cfg` (`MCAuctionManager`, `ClaimedOnce`): the auctioneer may take the
  prize of a place that nobody won again and again, because an overwrite index skips
  the redemption ticket. `redeem_unused_winning_config_items_as_auctioneer.rs:23`:
  "We also still make sure this prize hasnt been claimed more than once."
* `packs_allowance_doc.cfg` (`MCNftPacks`, `DrawsAllowed`): the allowance is compared with
  the number of *different* cards drawn. `pack_set.rs:89`: "Count of cards user can try
  to redeem".

Met while modelling, without a property (no line of the repository says otherwise, or
no property could say more than the code):

Auction, vault, candy machine, house, auctioneer, sale
* A blinded floor can be revealed only by `end_auction`, which refuses auctions
  that have an end time; `claim_bid` then pays a price that was never checked.
* A blinded floor may lie above the instant sale price: with two winners, a bid claimed
  at that price loses its place when `end_auction` reveals the floor.
* With zero winners the lookup of the lowest winning bid aborts every bid of an
  instant sale auction.
* `AuctionDataExtended.total_uncancelled_bids` is frozen once the auction is
  marked Ended although losing bids are still cancelled.
* A store that was emptied, is refilled from outside and emptied again is counted
  down twice (`state.rs:51` speaks of "how many are left to be opened"), and the
  vault is deactivated while another box is full. `NothingLeftWhenDeactivated` allows
  as many full boxes as stores were refilled.
* A box of amount 0 is counted and can never be opened: the vault stays Combined.
  `WindsDown` is about vaults whose counted boxes all hold something.
* `combine_vault` does not compare the fraction treasury it is given with the vault's
  (`processor.rs:583`). With an empty account of the right mint and owner the buyer
  pays for the treasury's shares too, they are never burnt, and the vault can never be
  deactivated.
* `unlock_funds` pays in the currency the machine has *now*, not the one of the
  mints; the freeze account of another currency keeps its funds.
* `thaw_nft` compares neither the token account nor the mint with the machine
  (`thaw_nft.rs:18`, 62-97). The owner of any NFT that names the freeze account as its
  delegate and has it freeze the token can thaw it there, and the count goes down: funds
  may be unlocked and the freeze account closed while an NFT of the machine is frozen,
  which then nobody can thaw. The thawer's fee is `FREEZE_FEE`, which is 0
  (`constants.rs:10`), so no money goes with it.
* A mint whose freeze is asked for by the machine comes out unfrozen if the caller names the
  freeze account of another machine whose freeze is over (`mint.rs:481`).
* A change from hidden settings to none leaves a machine without room for lines, and
  the change back is refused.
* A comment in `sell_logic` says there are never two signers; nothing refuses two.
* With the scope `PublicBuy` and without `Buy` nobody can place a public bid: the
  direct handler refuses, and the auctioneer's asks for `Buy`.
* A listing cancelled through the auctioneer leaves its configuration: the same
  amount cannot be listed again, and bids go on.
* On a house that requires its signature nobody can bid or deposit through this
  auctioneer, whose calls by `CpiContext` drop it.
* `create_market` takes a price of zero, `change_market` refuses it.
* The master edition of a sale stays in the vault for ever when the shares leave a
  rest in the treasury, or when anybody sends the smallest amount to it
  (`claim_resource.rs:50` asks for exactly zero).
* `withdraw` reads the creators of the primary sale from `remaining_accounts[0]` and checks
  neither its owner nor its address (`withdraw.rs:65`, `lib.rs:266`): a funder who brings
  another list is paid by it, and the others may find too little.

Token metadata
* An update with no creators drops verified ones; an update to no uses and then to
  new ones resets the count.
* Metadata created under the seed authority checks creators against the mint
  authority's key while another has signed.
* `set_and_verify_collection` moves an item out of a sized collection without counting
  it down; prints copy a verified collection without being counted, so unverifying
  or burning them drives the size to zero and members become unburnable. An item that
  is its own collection loses the count.
* Revoking one user's record of the method Burn cancels the token's delegate for all.
* A print may name anybody as update authority.

Auction manager
* `redeem_full_rights_transfer_bid` ignores the amount of the range.
* `empty_payment_account` takes the item index as given and does not compare box and
  place in version 2. Each index opens a payout ticket of its own (`state.rs:521`), so a
  share can be paid once for each; `PaidWithinBid` bounds the payouts under one index.
* After `decommission_auction_manager` has given the vault back its seller may withdraw
  from the boxes directly, or hand it over to the manager again.
* The bits of a redemption ticket lie eight bytes further when it holds a winner
  index; a winner who redeems a participation prize as a loser changes it.
* The number of expected redemptions is taken at the first one, also while an
  instant-sale auction goes on, after which the master edition may leave early.
* A floor revealed above a listed bid blocks all payouts. `primary_sale_happened`
  raised between two payouts mixes two sets of shares, beyond 100% together. A box
  validated after payouts began changes the number of token types by which the later
  ones are divided and adds payouts of its own: those of one place together may exceed
  its bid. `PaidWithinBid` compares only payouts that saw the same flags and number.
* Decommissioning leaves the update authority with the manager; validation never
  looks at the status.
* Participation counts uncancelled bids although bidders who cancelled stay eligible;
  `saturating_sub(..) < 0` is never true.

Packs
* `add_pack_voucher` adds its result to itself: the counter goes 0, 1, 3, 7, and a pack
  with two vouchers can never be emptied.
* `change_weight` swaps by the number of the card, not its position: with cards removed
  it reads beyond the list and every later `clean_up` fails, or leaves it unsorted.
* A card that is never drawn keeps its supply, so its master never comes back; deleting
  a card of an unlimited pack leaves its weight; deleting the cards of one that ended
  makes drawn cards unclaimable.
* The account of the weights has room for 99 entries once a sort is pending.
* The weight of a card that runs out is not taken off `total_weight`.
* `claim_pack` checks the card's address and compares neither the master edition nor its
  metadata, mint and token account with the card (`claim_pack.rs:67-115`): whoever drew one
  card may print with the master of another, of another pack too, and a draw of that one
  may then find its master used up.

Gumdrop
* Accounts of claims outlive their distributor: after it was closed and made again with
  another tree, `verify_temporal` is not asked again of an index with a count, a proof
  is not compared with the tree in force, and an index with a claim status is refused
  for ever. Closing leaves the tokens although its doc (`lib.rs:224`) says it moves them.
* A proof made under the wrong prefix is of no use and blocks the claim.
* The claimant of an edition chooses the update authority of the print.

Token entangler
* Supplies are read at each swap: with one token burnt, anybody with an empty account
  takes the other; a token sent to its own escrow locks both.
* Without `pays_every_time` only the creators of the first token swapped are paid.

Bubblegum
* Minted NFTs are counted twice in `contains_mint_capacity`: approving step by step uses
  about half of the tree.
* The request of the tree authority cannot be closed.
* `remaining_accounts[0]` is both a collection authority record and the first node of
  the proof. Sized collections are refused, and leaves with verified creators or
  collection cannot be decompressed while `BUBBLEGUM_ACTIVATED` is false.
* `verify_creator` and `verify_collection` do not ask the owner; `compress` does nothing.

## 6. Plan

Done: the modules of section 2, in the order of the table. Left, by what it adds:

1. Proofs: the entangler's and the packs' types beyond what `DropProofs` needs.
2. The receipts of the auction house, and the composition of candy machine, sale and
   packs with `TokenMetadata`, which they now take as printed or minted.
3. The version 1 manager and the store.

Abstract specifications: `EscrowCustody` (done); a prize contract for the auction
manager (each winner gets exactly what the configuration promises) is stated so far
by `PrizesKept` and `EditionsReserved`.

## 7. Not modelled

Receipts of the auction house (copies for indexers) and its fee accounts; the text of
config lines, names, URIs and symbols; the store, its whitelist of creators and the
storefront caches of the manager (`set_store`, `set_whitelisted_creator`,
`set_store_index`, `set_auction_cache`), which no other instruction of version 2 waits
for; the deprecated version 1 of the manager (printing tokens, reservation lists) and the
deprecated instructions of token metadata, which its processor refuses; `PuffMetadata` and the disabled `BubblegumSetCollectionSize`; hashes and Merkle
proofs (taken as injective); rent; the empty `candy-wrapper` program; serializers,
instruction builders, JavaScript packages, CLIs and test helpers.
