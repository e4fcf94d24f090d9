-------------------------- MODULE MCFixedPriceSale --------------------------
(* A small instance of the fixed price sale for TLC. *)
EXTENDS FixedPriceSale

CONSTANTS a, o, w1, w2

MCMetaShares == [f \in {a, o} |-> IF f = a THEN 60 ELSE 40]

(* Even shares, one creator for all, and shares that promise too much.      *)
MCPrimaryShares ==
  { [f \in {a, o} |-> 50], [f \in {a} |-> 100], [f \in {a, o} |-> 80] }

(* A caller of withdraw names one of the first two, saved or not.           *)
MCGivenShares == { [f \in {a, o} |-> 50], [f \in {a} |-> 100] }

MCMoney == [w \in Wallets |-> IF w = w1 THEN 4 ELSE 2]
MCGateTokens == [w \in Wallets |-> IF w = w1 THEN 1 ELSE 0]

(* Open-ended with a limit; two days, gated on the first; gated throughout. *)
MCMarkets ==
  { [mutable |-> TRUE, price |-> 1, pieces |-> 2, start_date |-> 0, end_date |-> None, gate |-> None],
    [mutable |-> TRUE, price |-> 2, pieces |-> None, start_date |-> 0, end_date |-> 1,
     gate |-> [expire_on_use |-> TRUE, gating_time |-> 0]],
    [mutable |-> FALSE, price |-> 1, pieces |-> 1, start_date |-> 1, end_date |-> 1,
     gate |-> [expire_on_use |-> FALSE, gating_time |-> None]] }

MCChanges ==
  { [mutable |-> FALSE, price |-> None, pieces |-> None],
    [mutable |-> None, price |-> 2, pieces |-> None],
    [mutable |-> None, price |-> None, pieces |-> 1] }
=============================================================================
