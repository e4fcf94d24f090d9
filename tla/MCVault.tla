------------------------------ MODULE MCVault ------------------------------
(* Small instances of the token vault for TLC. *)
EXTENDS Vault, TLC

CONSTANTS usdc, sol
MCCurrencies == {usdc, sol}

Price(n, mint, allowed) ==
  [price_per_share |-> n, price_mint |-> mint, allowed_to_combine |-> allowed]

(* A price that allows it, one that does not, and one in another currency; a
   vault in the other currency may be bought while its own account says two. *)
MCPrices == {Price(2, usdc, TRUE), Price(1, usdc, FALSE), Price(1, sol, TRUE)}
============================================================================
