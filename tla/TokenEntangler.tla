--------------------------- MODULE TokenEntangler ---------------------------
(***************************************************************************)
(* The token entangler (src/token-entangler/program/src): two NFTs are     *)
(* entangled by putting the second in escrow; whoever holds one of them    *)
(* swaps it for the other.  Each pair has an escrow account for either     *)
(* mint, and the swap moves the whole supply of both mints as it finds it. *)
(* The SPL token program around it burns, mints and moves tokens freely.   *)
(***************************************************************************)
EXTENDS Integers, FiniteSetsExt

CONSTANTS
  Wallets,
  Mints,
  Mintable,      \* mints without an edition, whose mint authority can mint more
  Creators,
  Shares,        \* Shares[mint][creator], in percent
  Prices,
  Unit,          \* Unit[mint]: base units of one token, 10^decimals
  InitialOwner,  \* who holds the one token of each mint at first
  InitialMoney,
  MaxSupply,
  None

Pairs == Mints \X Mints
Places == Wallets \cup Pairs       \* the escrow of a pair for the mint held there

EntanglerAssumption ==
  /\ Mintable \subseteq Mints /\ InitialOwner \in [Mints -> Wallets] /\ Wallets \cap Pairs = {}
  /\ Unit \in [Mints -> Nat]
  /\ Shares \in [Mints -> [Creators -> 0 .. 100]]
  /\ Prices \subseteq Nat /\ InitialMoney \in Nat /\ MaxSupply \in Nat

EntangledPair == [price : Prices, pays_every_time : BOOLEAN, paid : BOOLEAN, authority : Wallets]

VARIABLES
  pairs,       \* pairs[<<a, b>>]: None or the entangled pair
  balance,     \* balance[mint][place]
  supply,      \* supply[mint]
  money,       \* money[wallet] of the treasury mint
  earned       \* earned[creator]
vars == <<pairs, balance, supply, money, earned>>

Init ==
  /\ pairs = [p \in Pairs |-> None]
  /\ balance = [m \in Mints |-> [x \in Places |-> IF x = InitialOwner[m] THEN Unit[m] ELSE 0]]
  /\ supply = Unit
  /\ money = [w \in Wallets |-> InitialMoney]
  /\ earned = [c \in Creators |-> 0]

Moved(b, m, from, to, n) == [b EXCEPT ![m][from] = @ - n, ![m][to] = @ + n]

\* One base unit or, of a mint with decimals, one whole token.
SupplyOne(m) == supply[m] \in {1, Unit[m]}

\* The reverse pair must not exist; of a mint with itself it is the pair being made.
CreateEntangledPair(payer, a, b, price, every, authority) ==
  /\ pairs[<<a, b>>] = None
  /\ pairs[<<b, a>>] = None
  /\ a # b
  /\ SupplyOne(a) /\ SupplyOne(b)
  /\ balance[b][payer] >= supply[b]
  /\ pairs' = [pairs EXCEPT ![<<a, b>>] =
                 [price |-> price, pays_every_time |-> every, paid |-> FALSE, authority |-> authority]]
  /\ balance' = Moved(balance, b, payer, <<a, b>>, supply[b])
  /\ UNCHANGED <<supply, money, earned>>

UpdateEntangledPair(signer, p, price, every, authority) ==
  /\ pairs[p] # None
  /\ pairs[p].authority = signer
  /\ pairs' = [pairs EXCEPT ![p].price = price, ![p].pays_every_time = every,
                           ![p].authority = authority]
  /\ UNCHANGED <<balance, supply, money, earned>>

\* Each creator's share of the price, rounded down.
CreatorFee(m, c, price) == (Shares[m][c] * price) \div 100

\* Paid to the creators of the token that leaves the escrow.
PayCreatorFees(payer, m, price) ==
  LET total == MapThenSumSet(LAMBDA c : CreatorFee(m, c, price), Creators)
  IN  /\ money[payer] >= total
      /\ money' = [money EXCEPT ![payer] = @ - total]
      /\ earned' = [c \in Creators |-> earned[c] + CreatorFee(m, c, price)]

Other(p, m) == IF m = p[1] THEN p[2] ELSE p[1]

\* A swap that does not ask which mint comes in.
SwapAnyMint(payer, p, m) ==
  LET replacement == Other(p, m)
  IN  /\ pairs[p] # None
      /\ balance[m][payer] = supply[m]
      /\ balance[replacement][p] >= supply[replacement]
      /\ balance' = Moved(Moved(balance, m, payer, p, supply[m]),
                          replacement, p, payer, supply[replacement])
      /\ pairs' = [pairs EXCEPT ![p].paid = TRUE]
      /\ UNCHANGED <<supply, money, earned>>

\* A whole supply goes in and the whole supply of the other mint comes out.
Swap(payer, p, m) ==
  LET replacement == Other(p, m)
      pair == pairs[p]
  IN  /\ pair # None
      /\ m \in {p[1], p[2]}
      /\ balance[m][payer] = supply[m]
      /\ balance[replacement][p] >= supply[replacement]
      /\ balance' = Moved(Moved(balance, m, payer, p, supply[m]),
                          replacement, p, payer, supply[replacement])
      /\ IF ~pair.paid \/ pair.pays_every_time
         THEN PayCreatorFees(payer, replacement, pair.price)
         ELSE UNCHANGED <<money, earned>>
      /\ pairs' = [pairs EXCEPT ![p].paid = TRUE]
      /\ UNCHANGED supply

-----------------------------------------------------------------------------
(* Outside the program: what the SPL token program lets the holders do. *)
Transfer(w, m, to) ==
  /\ balance[m][w] > 0
  /\ to # w
  /\ to \in Pairs => (pairs[to] # None /\ m \in {to[1], to[2]})
  /\ balance' = Moved(balance, m, w, to, 1)
  /\ UNCHANGED <<pairs, supply, money, earned>>

BurnToken(w, m) ==
  /\ balance[m][w] > 0
  /\ balance' = [balance EXCEPT ![m][w] = @ - 1]
  /\ supply' = [supply EXCEPT ![m] = @ - 1]
  /\ UNCHANGED <<pairs, money, earned>>

MintToken(w, m) ==
  /\ m \in Mintable
  /\ supply[m] < MaxSupply
  /\ balance' = [balance EXCEPT ![m][w] = @ + 1]
  /\ supply' = [supply EXCEPT ![m] = @ + 1]
  /\ UNCHANGED <<pairs, money, earned>>

Entangle(w) ==
  \/ \E a, b \in Mints, price \in Prices, every \in BOOLEAN, authority \in Wallets :
       CreateEntangledPair(w, a, b, price, every, authority)
  \/ \E p \in Pairs, price \in Prices, every \in BOOLEAN, authority \in Wallets :
       UpdateEntangledPair(w, p, price, every, authority)
  \/ \E p \in Pairs : \E m \in Mints : Swap(w, p, m)
Tokens(w) ==
  \E m \in Mints : BurnToken(w, m) \/ MintToken(w, m) \/ \E to \in Places : Transfer(w, m, to)

Next ==
  \E w \in Wallets : Entangle(w) \/ Tokens(w)

Spec == Init /\ [][Next]_vars

-----------------------------------------------------------------------------
\* Pairs, balances, supplies and money keep their form.
TypeOK ==
  /\ pairs \in [Pairs -> EntangledPair \cup {None}]
  /\ balance \in [Mints -> [Places -> Nat]]
  /\ supply \in [Mints -> Nat]
  /\ money \in [Wallets -> Nat] /\ earned \in [Creators -> Nat]

(* Of two entangled tokens whose mints nobody can mint, and of which there  *)
(* is something left, at least one is whole in the pair's escrow: a swap    *)
(* never lets both out, whatever pairs share a mint, whatever is burnt and  *)
(* whatever is sent to the escrows.                                         *)
NeverBothOut ==
  \A p \in Pairs :
    ( /\ pairs[p] # None
      /\ supply[p[1]] > 0 /\ supply[p[2]] > 0
      /\ {p[1], p[2]} \cap Mintable = {} )
    => \E m \in {p[1], p[2]} : balance[m][p] = supply[m]
=============================================================================
