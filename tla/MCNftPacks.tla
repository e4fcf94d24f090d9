----------------------------- MODULE MCNftPacks -----------------------------
(* A small instance of NftPacks: two cards, two opened vouchers, each distribution. *)
EXTENDS NftPacks, TLC

CONSTANTS alice, bob, k1, k2, v1, e1, e2

Pack(distribution, allowed, end) ==
  [distribution |-> distribution, allowed |-> allowed, mutable |-> distribution = "Fixed", start |-> None, end |-> end]
MCPacks == {Pack("MaxSupply", 2, None), Pack("Fixed", 1, 1), Pack("Unlimited", 2, 1)}
MCMaxPrints == (k1 :> 2) @@ (k2 :> None)
MCPrints ==
  (e1 :> [parent |-> v1, holder |-> alice, delegate |-> None]) @@
  (e2 :> [parent |-> v1, holder |-> bob, delegate |-> alice])
=============================================================================
