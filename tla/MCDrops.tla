------------------------------ MODULE MCDrops ------------------------------
(* A small instance of each of the three programs of Drops. *)
EXTENDS Drops, TLC

CONSTANTS alice, bob,          \* wallets
          h1,                  \* the hash of a handle of bob's
          tok, mas, can, n1,   \* a token, a master edition, a candy machine, a number
          m1, m2, m3, artist,  \* three mints to entangle and a creator
          k1, k2, v1, e1, e2   \* two cards, a voucher and two prints of it

L(i, s, r, n, nonce) == [index |-> i, secret |-> s, resource |-> r, amount |-> n, nonce |-> nonce]
MCHolder == (alice :> alice) @@ (bob :> bob) @@ (h1 :> bob)
MCDistributors ==
  {[temporal |-> Otp, root |-> {L(0, alice, can, 2, NoNonce), L(1, h1, tok, 1, NoNonce)}],
   [temporal |-> NoTemporal, root |-> {L(0, h1, can, 1, NoNonce), L(1, alice, mas, 1, n1)}],
   [temporal |-> Otp, root |-> {L(1, h1, mas, 1, NoNonce)}]}
MCSupply == (tok :> 1) @@ (mas :> 1)
MCStock == (can :> 3)

MCShares == [m \in {m1, m2, m3} |-> artist :> 50]
MCUnits == (m1 :> 1) @@ (m2 :> 2) @@ (m3 :> 1)
MCOwner == (m1 :> alice) @@ (m2 :> alice) @@ (m3 :> bob)

Pack(distribution, allowed, end) ==
  [distribution |-> distribution, allowed |-> allowed, mutable |-> distribution = "Fixed", start |-> NoAccount,
   end |-> end]
MCPacks ==
  {Pack("MaxSupply", 2, NoAccount), Pack("Fixed", 1, 1), Pack("Unlimited", 1, 1)}
MCPrints ==
  (e1 :> [parent |-> v1, holder |-> alice, delegate |-> NoAccount]) @@
  (e2 :> [parent |-> v1, holder |-> bob, delegate |-> alice])
MCMaxPrints == (k1 :> 2) @@ (k2 :> NoAccount)
=============================================================================
