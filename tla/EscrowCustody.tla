---------------------------- MODULE EscrowCustody ----------------------------
(***************************************************************************)
(* What an auction promises about the money of its bidders, whatever the   *)
(* bidding rules: money is held only for a deposit made while bidding is   *)
(* open, it goes back to its owner or, for a winner, to the seller, and    *)
(* once bidding is closed the winners stay and keep paying.                *)
(***************************************************************************)
EXTENDS Integers

CONSTANTS Accounts, InitialBalance

VARIABLES
  closed,    \* the time for bidding is over
  winners,   \* accounts that would win if nothing changed
  paid,      \* accounts whose deposit was handed to the seller
  held, wallet, proceeds   \* money in escrow, with the accounts, with the seller

custodyVars == <<closed, winners, paid, held, wallet, proceeds>>

Init ==
  /\ ~closed /\ winners = {} /\ paid = {}
  /\ held = [b \in Accounts |-> 0]
  /\ wallet = [b \in Accounts |-> InitialBalance]
  /\ proceeds = 0

Deposit(b) ==
  /\ ~closed /\ b \notin paid /\ held[b] = 0
  /\ \E amount \in 1 .. wallet[b] :
       /\ held' = [held EXCEPT ![b] = amount]
       /\ wallet' = [wallet EXCEPT ![b] = @ - amount]
  /\ UNCHANGED <<paid, proceeds>>

Refund(b) ==
  /\ ~closed \/ b \notin winners
  /\ b \notin paid
  /\ held' = [held EXCEPT ![b] = 0]
  /\ wallet' = [wallet EXCEPT ![b] = @ + held[b]]
  /\ UNCHANGED <<paid, proceeds>>

Settle(b) ==
  /\ b \in winners
  /\ held' = [held EXCEPT ![b] = 0]
  /\ proceeds' = proceeds + held[b]
  /\ paid' = paid \cup {b}
  /\ UNCHANGED wallet

Next ==
  /\ closed => closed' /\ winners' = winners
  /\ paid' \subseteq winners'
  /\ \/ \E b \in Accounts : Deposit(b) \/ Refund(b) \/ Settle(b)
     \/ UNCHANGED <<held, wallet, proceeds, paid>>

Spec == Init /\ [][Next]_custodyVars
============================================================================
