---------------------------- MODULE MCBubblegum ----------------------------
(* A small instance of Bubblegum: a tree of two leaves; carol signs nothing. *)
EXTENDS Bubblegum, TLC

CONSTANTS alice, bob, carol, plain, sized

MCCollections ==
  plain :> [update_authority |-> alice, sized |-> FALSE] @@
  sized :> [update_authority |-> alice, sized |-> TRUE]
MCMintChoices ==
  { [creators |-> bob :> TRUE, collection |-> None],
    [creators |-> carol :> TRUE, collection |-> None],
    [creators |-> bob :> FALSE, collection |-> [key |-> plain, verified |-> TRUE]],
    [creators |-> bob :> FALSE, collection |-> [key |-> plain, verified |-> FALSE]] }
=============================================================================
