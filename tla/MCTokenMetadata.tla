------------------------- MODULE MCTokenMetadata -------------------------
(* A small instance of TokenMetadata: what clients ask for differs per behaviour, so
   that collections, prints, uses and creators are each explored in depth. *)
EXTENDS TokenMetadata, TLC

CONSTANTS alice, bob, m1, m2, m3

MCDecimals == [m \in Mints |-> 0]
Plain == [creators |-> << >>, collection |-> None, uses |-> None]
Listed(S, verified) == [Plain EXCEPT !.creators = [w \in S |-> w \in verified]]
In(c, verified) == [Plain EXCEPT !.collection = [key |-> c, verified |-> verified]]
Used(method, remaining, total) ==
    [Plain EXCEPT !.uses = [use_method |-> method, remaining |-> remaining, total |-> total]]

\* hardly anything asked for
Idle == [maker |-> alice, freeze |-> None, legacy |-> << >>, ops |-> {"create v2"}, mints |-> {m1},
         transfers |-> {}, approvals |-> {}, minting |-> {}, delegates |-> {},
         signers |-> {alice}, authorities |-> {alice}, data |-> {Plain}, updates |-> {},
         mutable |-> {TRUE}, sales |-> {}, sized |-> {}, sizes |-> {}, writable |-> {TRUE},
         supplies |-> {}, numbers |-> {}, uses |-> {}]

Creating == [Idle EXCEPT !.ops = {"create", "update", "sign"}, !.signers = Wallets,
    !.authorities = Wallets, !.data = {Listed({alice, bob}, {alice}), Listed({bob}, {bob})},
    !.updates = {Plain, Listed({alice}, {alice}), Listed({alice, bob}, {alice, bob})},
    !.mutable = BOOLEAN, !.sales = BOOLEAN]
Printing == [Idle EXCEPT !.ops = @ \cup {"burn", "vault", "sign", "standard"}, !.freeze = alice,
    !.data = {Listed({alice}, {alice})}, !.supplies = {None, 0, 5},
    !.numbers = {0, 1, 4, 5, 6}, !.transfers = {m1}, !.minting = {m1}, !.writable = BOOLEAN]
OldMaster == [Idle EXCEPT !.numbers = {1, 2}, !.ops = {"create"},
    !.legacy = (m1 :> [key |-> "MasterEditionV1", supply |-> 0, max_supply |-> 1,
                       printing |-> 1, one_time |-> 1])]
Collecting == [Idle EXCEPT !.mints = {m1, m2}, !.data = {Plain, In(m1, FALSE)}, !.ops = @ \cup {"update", "collect", "burn"},
    !.updates = {In(m1, TRUE), In(m2, FALSE)},
    !.sized = BOOLEAN, !.sizes = {1}, !.supplies = {0}, !.delegates = {bob}]
Using == [Idle EXCEPT !.data = {Used("Burn", 1, 1), Used("Multiple", 2, 2)},
    !.ops = @ \cup {"update"}, !.updates = {Used("Multiple", 3, 3), Used("Single", 1, 1)},
    !.uses = {1, 2}, !.supplies = {1}, !.numbers = {1}]
Freezing == [Idle EXCEPT !.data = {Used("Burn", 1, 1)}, !.uses = {1}, !.supplies = {0},
    !.ops = @ \cup {"freeze", "burn"},
    !.freeze = alice, !.transfers = {m1}, !.approvals = {m1}, !.minting = {m1}]
MCClients == {Creating, Printing, OldMaster, Collecting, Using, Freezing}
=============================================================================
