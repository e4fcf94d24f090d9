--------------------------- MODULE MetadataProofs ---------------------------
(***************************************************************************)
(* Proofs about editions, for any mints, wallets, clients and sizes of the *)
(* markers: an edition has at most one token, whoever froze a token can    *)
(* thaw it, no two prints of a master have the same number, and nobody is  *)
(* shown as verified who has not vouched for it; uses only go down.        *)
(***************************************************************************)
EXTENDS TokenMetadata, FiniteSetTheorems, TLAPS

(* The supply s is what the accounts h hold together: s tokens, each with    *)
(* one owner.                                                              *)
Owned(T, owner, w) == {t \in T : owner[t] = w}

Ledger(h, s) ==
  \E T, owner :
    /\ IsFiniteSet(T) /\ Cardinality(T) = s
    /\ \A w \in Holders : h[w] = Cardinality(Owned(T, owner, w))

-----------------------------------------------------------------------------
(***************************************************************************)
(* Ledgers.                                                                *)
(***************************************************************************)
(* There is something outside of every set. *)
LEMMA Outside ==
  ASSUME NEW T
  PROVE  {t \in T : t \notin t} \notin T
<1> DEFINE x == {t \in T : t \notin t}
<1>1. ASSUME x \in T PROVE FALSE
  <2>1. x \in x <=> x \notin x
    BY <1>1
  <2> QED BY <2>1
<1> QED BY <1>1

LEMMA OwnedFinite ==
  ASSUME NEW T, IsFiniteSet(T), NEW owner, NEW w
  PROVE  /\ IsFiniteSet(Owned(T, owner, w))
         /\ Cardinality(Owned(T, owner, w)) \in Nat
         /\ Cardinality(Owned(T, owner, w)) <= Cardinality(T)
<1>1. Owned(T, owner, w) \subseteq T
  BY DEF Owned
<1> QED BY <1>1, FS_Subset, FS_CardinalityType

LEMMA LedgerMint ==
  ASSUME NEW h \in [Holders -> Nat], NEW s \in Nat, NEW w \in Holders, Ledger(h, s)
  PROVE  Ledger([h EXCEPT ![w] = @ + 1], s + 1)
<1>1. PICK T, owner : /\ IsFiniteSet(T) /\ Cardinality(T) = s
                      /\ \A v \in Holders : h[v] = Cardinality(Owned(T, owner, v))
  BY DEF Ledger
<1>2. PICK x : x \notin T
  BY Outside
<1> DEFINE U == T \cup {x}
           f == [t \in U |-> IF t = x THEN w ELSE owner[t]]
           g == [h EXCEPT ![w] = @ + 1]
<1>3. IsFiniteSet(U) /\ Cardinality(U) = s + 1
  BY <1>1, <1>2, FS_AddElement
<1>4. ASSUME NEW v \in Holders PROVE g[v] = Cardinality(Owned(U, f, v))
  <2> DEFINE had == Owned(T, owner, v)
  <2>1. IsFiniteSet(had) /\ h[v] = Cardinality(had)
    BY <1>1, OwnedFinite
  <2>4. x \notin had
    BY <1>2 DEF Owned
  <2>2. CASE v = w
    <3>1. Owned(U, f, v) = had \cup {x}
      BY <1>2, <2>2 DEF Owned
    <3>2. Cardinality(had \cup {x}) = h[v] + 1
      <4> HIDE DEF had
      <4> QED BY <2>1, <2>4, FS_AddElement
    <3> QED BY <2>2, <3>1, <3>2
  <2>3. CASE v # w
    <3>1. Owned(U, f, v) = had
      BY <1>2, <2>3 DEF Owned
    <3> QED BY <2>1, <2>3, <3>1
  <2> QED BY <2>2, <2>3
<1> HIDE DEF U, f, g
<1>5. Ledger(g, s + 1)
  BY <1>3, <1>4 DEF Ledger
<1> QED BY <1>5 DEF g

(* A holder of a token owns one of the tokens of the ledger. *)
LEMMA OwnsOne ==
  ASSUME NEW T, NEW owner, NEW w, Cardinality(Owned(T, owner, w)) >= 1
  PROVE  \E t \in T : owner[t] = w
<1>1. Cardinality({}) = 0
  BY FS_EmptySet
<1>2. Owned(T, owner, w) # {}
  BY <1>1
<1> QED BY <1>2 DEF Owned

LEMMA LedgerBurn ==
  ASSUME NEW h \in [Holders -> Nat], NEW s \in Nat, NEW w \in Holders, h[w] >= 1, Ledger(h, s)
  PROVE  Ledger([h EXCEPT ![w] = @ - 1], s - 1) /\ s - 1 \in Nat
<1>1. PICK T, owner : /\ IsFiniteSet(T) /\ Cardinality(T) = s
                      /\ \A v \in Holders : h[v] = Cardinality(Owned(T, owner, v))
  BY DEF Ledger
<1>2. PICK x \in T : owner[x] = w
  BY <1>1, OwnsOne
<1> DEFINE U == T \ {x}
           g == [h EXCEPT ![w] = @ - 1]
<1>3. IsFiniteSet(U) /\ Cardinality(U) = s - 1
  BY <1>1, <1>2, FS_RemoveElement
<1>4. ASSUME NEW v \in Holders PROVE g[v] = Cardinality(Owned(U, owner, v))
  <2> DEFINE had == Owned(T, owner, v)
  <2>1. IsFiniteSet(had) /\ h[v] = Cardinality(had)
    BY <1>1, OwnedFinite
  <2>2. CASE v = w
    <3>1. Owned(U, owner, v) = had \ {x} /\ x \in had
      BY <1>2, <2>2 DEF Owned
    <3>2. Cardinality(had \ {x}) = h[v] - 1
      <4> HIDE DEF had
      <4> QED BY <2>1, <3>1, FS_RemoveElement
    <3> QED BY <2>2, <3>1, <3>2
  <2>3. CASE v # w
    <3>1. Owned(U, owner, v) = had
      BY <1>2, <2>3 DEF Owned
    <3> QED BY <2>1, <2>3, <3>1
  <2> QED BY <2>2, <2>3
<1>5. s - 1 \in Nat
  BY <1>3, FS_CardinalityType
<1> HIDE DEF U, g
<1>6. Ledger(g, s - 1)
  BY <1>3, <1>4 DEF Ledger
<1> QED BY <1>5, <1>6 DEF g

LEMMA LedgerMove ==
  ASSUME NEW h \in [Holders -> Nat], NEW s \in Nat, NEW u \in Holders, NEW v \in Holders,
         u # v, h[u] >= 1, Ledger(h, s)
  PROVE  Ledger([h EXCEPT ![u] = @ - 1, ![v] = @ + 1], s)
<1> DEFINE g == [h EXCEPT ![u] = @ - 1]
<1>1. Ledger(g, s - 1) /\ s - 1 \in Nat
  BY LedgerBurn
<1>2. g \in [Holders -> Nat]
  OBVIOUS
<1>3. [h EXCEPT ![u] = @ - 1, ![v] = @ + 1] = [g EXCEPT ![v] = @ + 1]
  OBVIOUS
<1> HIDE DEF g
<1>4. Ledger([g EXCEPT ![v] = @ + 1], (s - 1) + 1)
  BY <1>1, <1>2, LedgerMint
<1>5. (s - 1) + 1 = s
  OBVIOUS
<1> QED BY <1>3, <1>4, <1>5

(* Two holders of a token: the supply is at least two. *)
LEMMA TwoHolders ==
  ASSUME NEW h \in [Holders -> Nat], NEW s \in Nat, NEW u \in Holders, NEW v \in Holders,
         u # v, h[u] >= 1, h[v] >= 1, Ledger(h, s)
  PROVE  s > 1
<1> DEFINE g == [h EXCEPT ![u] = @ - 1]
<1>1. Ledger(g, s - 1) /\ s - 1 \in Nat
  BY LedgerBurn
<1>2. g \in [Holders -> Nat] /\ g[v] >= 1
  OBVIOUS
<1> HIDE DEF g
<1>3. (s - 1) - 1 \in Nat
  BY <1>1, <1>2, LedgerBurn
<1> QED BY <1>3

-----------------------------------------------------------------------------
(***************************************************************************)
(* The invariant.                                                          *)
(***************************************************************************)
Accounts == Option(Wallets \cup Mints)
MintAccount == [authority : Accounts, freeze : Accounts, supply : Nat]
Editions == MasterEdition \cup Edition
Delegation == [to : Option(Wallets \cup {Burner}), amount : {0, 1}]

Typed ==
  /\ clients \in Clients
  /\ mint \in [Mints -> MintAccount]
  /\ held \in [Mints -> [Holders -> Nat]]
  /\ delegate \in [Mints -> [Holders -> Delegation]]
  /\ frozen \in [Mints -> [Holders -> BOOLEAN]]
  /\ edition \in [Mints -> Editions \cup {None}]

Booked == \A m \in Mints : Ledger(held[m], mint[m].supply)

(* An edition owns its mint, so that nobody mints a second token. *)
Closed == \A m \in Mints : edition[m] # None => mint[m].authority = m /\ mint[m].supply <= 1

EditionInv == Typed /\ Booked /\ Closed /\ FrozenCanThaw

LEMMA HoldersAre == Wallets \subseteq Holders /\ VaultPda \in Holders
BY DEF Holders

LEMMA EditionNotNone == None \notin Editions
BY NoneIsAbsent DEF Editions

LEMMA MintNoWallet == \A m \in Mints : m \notin Wallets /\ m # None
BY ConstantsOK

LEMMA InitEditions == Init => EditionInv
<1> SUFFICES ASSUME Init PROVE EditionInv
  OBVIOUS
<1> DEFINE maker == clients.maker
           legacy == clients.legacy
<1>1. clients \in Clients /\ maker \in Wallets /\ clients.freeze \in Option(Wallets)
  BY ClientsOK DEF Init
<1>2. mint \in [Mints -> MintAccount] /\ \A m \in Mints : mint[m].supply = 1
  BY <1>1 DEF Init, MintAccount, Accounts, Option
<1>3. held \in [Mints -> [Holders -> Nat]]
  BY DEF Init
<1>4. delegate \in [Mints -> [Holders -> Delegation]]
  BY DEF Init, Delegation, Undelegated, Option
<1>5. frozen \in [Mints -> [Holders -> BOOLEAN]] /\ FrozenCanThaw
  BY DEF Init, FrozenCanThaw
<1>6. Booked
  <2>1. ASSUME NEW m \in Mints PROVE Ledger(held[m], 1)
    <3> DEFINE T == {maker}
               owner == [t \in T |-> t]
    <3>1. IsFiniteSet(T) /\ Cardinality(T) = 1 /\ IsFiniteSet({}) /\ Cardinality({}) = 0
      BY FS_Singleton, FS_EmptySet
    <3>2. ASSUME NEW w \in Holders PROVE held[m][w] = Cardinality(Owned(T, owner, w))
      <4>1. held[m][w] = IF w = maker THEN 1 ELSE 0
        BY DEF Init
      <4>2. Owned(T, owner, w) = IF w = maker THEN T ELSE {}
        BY DEF Owned
      <4> HIDE DEF T, owner, maker
      <4> QED BY <3>1, <4>1, <4>2
    <3> HIDE DEF T, owner
    <3> QED BY <3>1, <3>2 DEF Ledger
  <2> QED BY <1>2, <2>1 DEF Booked
<1>7. Closed
  <2>1. ASSUME NEW m \in Mints, edition[m] # None PROVE mint[m].authority = m
    BY <2>1 DEF Init
  <2> QED BY <1>2, <2>1 DEF Closed
<1>8. edition \in [Mints -> Editions \cup {None}]
  BY <1>1, ClientsOK DEF Init, LegacyMaster, Editions
<1> QED BY <1>1, <1>2, <1>3, <1>4, <1>5, <1>6, <1>7, <1>8 DEF EditionInv, Typed

(* Steps that leave the tokens alone and take no edition away. *)
LEMMA TokensAlone ==
  ASSUME EditionInv, UNCHANGED <<clients, tokenVars>>,
         edition' \in [Mints -> Editions \cup {None}],
         \A m \in Mints : edition'[m] # None <=> edition[m] # None
  PROVE  EditionInv'
<1>1. Typed' /\ Booked'
  BY DEF EditionInv, Typed, Booked, tokenVars
<1>2. Closed'
  BY DEF EditionInv, Closed, tokenVars
<1>3. FrozenCanThaw'
  BY DEF EditionInv, FrozenCanThaw, DelegatedTokens, tokenVars
<1> QED BY <1>1, <1>2, <1>3 DEF EditionInv

(* A frozen token: what thawing it asks of the accounts. *)
LEMMA Thawable ==
  ASSUME EditionInv, NEW m \in Mints, NEW w \in Holders, frozen[m][w]
  PROVE  /\ edition[m] # None /\ mint[m].freeze = m
         /\ delegate[m][w].to \in Wallets
         /\ delegate[m][w] = [to |-> delegate[m][w].to, amount |-> held[m][w]]
         /\ held[m][w] >= 1
BY DEF EditionInv, FrozenCanThaw, DelegatedTokens

(* What keeps it so: its own account and the edition stay. *)
LEMMA ThawableKept ==
  ASSUME EditionInv,
         \A m \in Mints, w \in Holders : frozen'[m][w] =>
           /\ frozen[m][w]
           /\ held'[m][w] = held[m][w] /\ delegate'[m][w] = delegate[m][w]
           /\ mint'[m].freeze = mint[m].freeze /\ edition'[m] # None
  PROVE  FrozenCanThaw'
BY DEF EditionInv, FrozenCanThaw, DelegatedTokens

-----------------------------------------------------------------------------
(***************************************************************************)
(* The token program and the delegates.                                    *)
(***************************************************************************)
LEMMA MintToStep ==
  ASSUME EditionInv, NEW m \in Mints, NEW w \in Wallets, MintTo(m, w)
  PROVE  EditionInv'
<1>1. /\ mint[m].authority \in Wallets
      /\ mint' = [mint EXCEPT ![m].supply = @ + 1]
      /\ held' = [held EXCEPT ![m][w] = @ + 1]
      /\ UNCHANGED <<clients, delegate, frozen, edition>>
  BY DEF MintTo, metaVars
<1>2. edition[m] = None
  BY <1>1, MintNoWallet DEF EditionInv, Closed
<1>3. w \in Holders
  BY HoldersAre
<1>4. mint[m].supply \in Nat /\ mint[m] \in MintAccount /\ held[m] \in [Holders -> Nat]
  BY DEF EditionInv, Typed, MintAccount
<1>5. mint' \in [Mints -> MintAccount] /\ held' \in [Mints -> [Holders -> Nat]]
  <2>1. mint' \in [Mints -> MintAccount]
    <3> DEFINE more == [mint[m] EXCEPT !.supply = @ + 1]
    <3>1. mint' = [mint EXCEPT ![m] = more]
      BY <1>1
    <3>2. more \in MintAccount
      BY <1>4 DEF MintAccount
    <3> HIDE DEF more
    <3> QED BY <3>1, <3>2 DEF EditionInv, Typed
  <2>2. held[m][w] + 1 \in Nat
    BY <1>3, <1>4
  <2>3. held' \in [Mints -> [Holders -> Nat]]
    BY <1>1, <1>3, <2>2 DEF EditionInv, Typed
  <2> QED BY <2>1, <2>3
<1>6. Typed'
  BY <1>1, <1>5 DEF EditionInv, Typed
<1>7. /\ mint'[m].supply = mint[m].supply + 1 /\ held'[m] = [held[m] EXCEPT ![w] = @ + 1]
      /\ \A p \in Mints \ {m} : mint'[p] = mint[p] /\ held'[p] = held[p]
  BY <1>1, <1>4 DEF EditionInv, Typed, MintAccount
<1>8. Ledger(held'[m], mint'[m].supply)
  BY <1>3, <1>4, <1>7, LedgerMint DEF EditionInv, Booked
<1>9. Booked'
  BY <1>7, <1>8 DEF EditionInv, Booked
<1>10. Closed'
  BY <1>1, <1>2, <1>7 DEF EditionInv, Closed
<1>11. FrozenCanThaw'
  BY <1>1, <1>2, <1>7, Thawable, ThawableKept
<1> QED BY <1>6, <1>9, <1>10, <1>11 DEF EditionInv

LEMMA TransferStep ==
  ASSUME EditionInv, NEW m \in Mints, NEW from \in Wallets, NEW to \in Holders,
         Transfer(m, from, to)
  PROVE  EditionInv'
<1>1. /\ from # to /\ held[m][from] >= 1 /\ ~frozen[m][from] /\ ~frozen[m][to]
      /\ held' = [held EXCEPT ![m][from] = @ - 1, ![m][to] = @ + 1]
      /\ UNCHANGED <<clients, mint, delegate, frozen, edition>>
  BY DEF Transfer, metaVars
<1>3. from \in Holders
  BY HoldersAre
<1>4. mint[m].supply \in Nat /\ held[m] \in [Holders -> Nat]
  BY DEF EditionInv, Typed, MintAccount
<1> DEFINE accounts == [held[m] EXCEPT ![from] = @ - 1, ![to] = @ + 1]
<1>5. accounts \in [Holders -> Nat]
  BY <1>1, <1>3, <1>4
<1>6. Ledger(accounts, mint[m].supply)
  BY <1>1, <1>3, <1>4, LedgerMove DEF EditionInv, Booked
<1>7. \A w \in Holders \ {from, to} : accounts[w] = held[m][w]
  BY <1>3, <1>4
<1>2. held' = [held EXCEPT ![m] = accounts]
  BY <1>1, <1>3, <1>4 DEF EditionInv, Typed
<1> HIDE DEF accounts
<1>8. held' \in [Mints -> [Holders -> Nat]] /\ held'[m] = accounts
      /\ \A p \in Mints \ {m} : held'[p] = held[p]
  BY <1>2, <1>5 DEF EditionInv, Typed
<1>9. Typed' /\ Closed'
  BY <1>1, <1>8 DEF EditionInv, Typed, Closed
<1>10. Booked'
  BY <1>1, <1>6, <1>8 DEF EditionInv, Booked
<1>11. FrozenCanThaw'
  BY <1>1, <1>7, <1>8, Thawable, ThawableKept
<1> QED BY <1>9, <1>10, <1>11 DEF EditionInv

(* Another delegate, for an account that is not frozen. *)
LEMMA DelegateStep ==
  ASSUME EditionInv, NEW m, NEW owner \in Holders, NEW d \in Delegation,
         m \in Mints => ~frozen[m][owner],
         delegate' = [delegate EXCEPT ![m][owner] = d],
         UNCHANGED <<clients, mint, held, frozen, edition>>
  PROVE  EditionInv'
<1>1. Typed' /\ Booked' /\ Closed'
  BY DEF EditionInv, Typed, Booked, Closed
<1>2. \A p \in Mints, w \in Holders : frozen'[p][w] => delegate'[p][w] = delegate[p][w]
  BY DEF EditionInv, Typed
<1>3. FrozenCanThaw'
  BY <1>2, Thawable, ThawableKept
<1> QED BY <1>1, <1>3 DEF EditionInv

LEMMA FreezeStep ==
  ASSUME EditionInv, NEW m \in Mints, NEW owner \in Wallets, NEW user \in Wallets,
         FreezeDelegatedAccount(m, owner, user) \/ ThawDelegatedAccount(m, owner, user)
  PROVE  EditionInv'
<1>1. /\ EditionFreezes(m) /\ DelegatedTokens(m, owner, user)
      /\ UNCHANGED <<clients, mint, held, delegate, edition>>
  BY DEF FreezeDelegatedAccount, ThawDelegatedAccount, metaVars
<1>2. \E b \in BOOLEAN : frozen' = [frozen EXCEPT ![m][owner] = b]
  BY DEF FreezeDelegatedAccount, ThawDelegatedAccount
<1>3. Typed' /\ Booked' /\ Closed'
  <2>1. frozen' \in [Mints -> [Holders -> BOOLEAN]]
    <3>1. PICK b \in BOOLEAN : frozen' = [frozen EXCEPT ![m][owner] = b]
      BY <1>2
    <3> DEFINE row == [frozen[m] EXCEPT ![owner] = b]
    <3>2. frozen' = [frozen EXCEPT ![m] = row]
      BY <3>1
    <3>3. frozen \in [Mints -> [Holders -> BOOLEAN]]
      BY DEF EditionInv, Typed
    <3>4. row \in [Holders -> BOOLEAN]
      BY <3>3
    <3> HIDE DEF row
    <3> QED BY <3>2, <3>3, <3>4
  <2> QED BY <1>1, <2>1 DEF EditionInv, Typed, Booked, Closed
<1>4. ASSUME NEW p \in Mints, NEW w \in Holders, frozen'[p][w]
      PROVE  /\ edition[p] # None /\ mint[p].freeze = p
             /\ delegate[p][w].to \in Wallets /\ DelegatedTokens(p, w, delegate[p][w].to)
  <2>1. CASE p = m /\ w = owner
    BY <1>1, <2>1 DEF DelegatedTokens, EditionFreezes
  <2>2. CASE ~(p = m /\ w = owner)
    <3>1. frozen[p][w]
      BY <1>2, <1>4, <2>2 DEF EditionInv, Typed
    <3> QED BY <3>1 DEF EditionInv, FrozenCanThaw
  <2> QED BY <2>1, <2>2
<1>5. FrozenCanThaw'
  BY <1>1, <1>4 DEF FrozenCanThaw, DelegatedTokens
<1> QED BY <1>3, <1>5 DEF EditionInv

-----------------------------------------------------------------------------
(***************************************************************************)
(* Burning, and making editions.                                           *)
(***************************************************************************)
(* A token of an account that is not frozen is burnt; the edition may go    *)
(* with it when nothing of the mint is frozen.                             *)
LEMMA BurnStep ==
  ASSUME EditionInv, NEW m \in Mints, NEW owner \in Holders, held[m][owner] >= 1,
         ~frozen[m][owner], Burnt(m, owner), UNCHANGED <<clients, frozen>>,
         delegate' \in {delegate, [delegate EXCEPT ![m][owner] = Undelegated]},
         \/ edition' = edition
         \/ /\ edition' = [edition EXCEPT ![m] = None]
            /\ \A w \in Holders : ~frozen[m][w]
  PROVE  EditionInv'
<1>1. /\ held' = [held EXCEPT ![m][owner] = @ - 1]
      /\ mint' = [mint EXCEPT ![m].supply = @ - 1]
  BY DEF Burnt
<1>2. mint[m] \in MintAccount /\ mint[m].supply \in Nat /\ held[m] \in [Holders -> Nat]
  BY DEF EditionInv, Typed, MintAccount
<1>3. Ledger([held[m] EXCEPT ![owner] = @ - 1], mint[m].supply - 1) /\ mint[m].supply - 1 \in Nat
  BY <1>2, LedgerBurn DEF EditionInv, Booked
<1>4. mint' \in [Mints -> MintAccount] /\ held' \in [Mints -> [Holders -> Nat]]
  <2>1. mint' \in [Mints -> MintAccount]
    BY <1>1, <1>2, <1>3 DEF EditionInv, Typed, MintAccount
  <2>2. held[m][owner] - 1 \in Nat
    BY <1>2
  <2>3. held' \in [Mints -> [Holders -> Nat]]
    BY <1>1, <1>2, <2>2 DEF EditionInv, Typed
  <2> QED BY <2>1, <2>3
<1>5. /\ held'[m] = [held[m] EXCEPT ![owner] = @ - 1]
      /\ mint'[m].supply = mint[m].supply - 1
      /\ \A p \in Mints \ {m} : held'[p] = held[p] /\ mint'[p] = mint[p]
      /\ \A p \in Mints : mint'[p].freeze = mint[p].freeze /\ mint'[p].authority = mint[p].authority
  BY <1>1, <1>2 DEF EditionInv, Typed, MintAccount
<1>6. edition' \in [Mints -> Editions \cup {None}] /\ \A p \in Mints : edition'[p] # None => edition[p] # None
  BY DEF EditionInv, Typed
<1>7. delegate' \in [Mints -> [Holders -> Delegation]]
      /\ \A p \in Mints, w \in Holders : ~(p = m /\ w = owner) => delegate'[p][w] = delegate[p][w]
  <2>1. Undelegated \in Delegation
    BY DEF Undelegated, Delegation, Option
  <2>2. delegate \in [Mints -> [Holders -> Delegation]]
    BY DEF EditionInv, Typed
  <2>3. CASE delegate' = delegate
    BY <2>2, <2>3
  <2>4. CASE delegate' = [delegate EXCEPT ![m][owner] = Undelegated]
    BY <2>1, <2>2, <2>4
  <2> QED BY <2>3, <2>4
<1>8. Typed'
  BY <1>4, <1>6, <1>7 DEF EditionInv, Typed
<1>9. Booked'
  BY <1>3, <1>5 DEF EditionInv, Booked
<1>10. Closed'
  <2>1. ASSUME NEW p \in Mints, edition'[p] # None
        PROVE  mint'[p].authority = p /\ mint'[p].supply <= 1
    <3>1. mint[p].authority = p /\ mint[p].supply <= 1
      BY <2>1, <1>6 DEF EditionInv, Closed
    <3>2. mint'[p].supply \in {mint[p].supply, mint[p].supply - 1} /\ mint[p].supply \in Nat
      BY <1>2, <1>5 DEF EditionInv, Typed, MintAccount
    <3> QED BY <3>1, <3>2, <1>5
  <2> QED BY <2>1 DEF Closed
<1>11. ASSUME NEW p \in Mints, NEW w \in Holders, frozen'[p][w]
       PROVE  /\ frozen[p][w]
              /\ held'[p][w] = held[p][w] /\ delegate'[p][w] = delegate[p][w]
              /\ mint'[p].freeze = mint[p].freeze /\ edition'[p] # None
  <2>1. frozen[p][w] /\ ~(p = m /\ w = owner)
    BY <1>11
  <2>2. held'[p][w] = held[p][w]
    BY <2>1, <1>2, <1>5
  <2>3. edition[p] # None
    BY <2>1, Thawable
  <2>4. edition'[p] # None
    BY <2>1, <2>3 DEF EditionInv, Typed
  <2> QED BY <2>1, <2>2, <2>4, <1>5, <1>7
<1>12. FrozenCanThaw'
  BY <1>11, ThawableKept
<1> QED BY <1>8, <1>9, <1>10, <1>12 DEF EditionInv

(* The token of an edition is the only one: when its holder is not frozen,   *)
(* nobody is.                                                              *)
LEMMA OnlyToken ==
  ASSUME EditionInv, NEW m \in Mints, edition[m] # None, NEW owner \in Holders,
         held[m][owner] >= 1, ~frozen[m][owner], NEW w \in Holders
  PROVE  ~frozen[m][w]
<1> SUFFICES ASSUME frozen[m][w] PROVE FALSE
  OBVIOUS
<1>1. held[m][w] >= 1 /\ w # owner
  BY Thawable
<1>2. mint[m].supply \in Nat /\ held[m] \in [Holders -> Nat] /\ Ledger(held[m], mint[m].supply)
  BY DEF EditionInv, Typed, MintAccount, Booked
<1>3. mint[m].supply > 1
  BY <1>1, <1>2, TwoHolders
<1>4. mint[m].supply <= 1
  BY DEF EditionInv, Closed
<1> QED BY <1>2, <1>3, <1>4

LEMMA BurnNftStep ==
  ASSUME EditionInv, NEW m \in Mints, NEW owner \in Wallets, NEW c, BurnNft(m, owner, c)
  PROVE  EditionInv'
<1>1. /\ held[m][owner] >= 1 /\ ~frozen[m][owner] /\ edition[m] # None /\ Burnt(m, owner)
      /\ edition' = [edition EXCEPT ![m] = None]
      /\ delegate' = [delegate EXCEPT ![m][owner] = Undelegated]
      /\ UNCHANGED <<clients, frozen>>
  BY DEF BurnNft, CurrentlyHolding, IsMaster
<1>2. owner \in Holders
  BY HoldersAre
<1>3. \A w \in Holders : ~frozen[m][w]
  BY <1>1, <1>2, OnlyToken
<1> QED BY <1>1, <1>2, <1>3, BurnStep

LEMMA UtilizeStep ==
  ASSUME EditionInv, NEW m \in Mints, NEW user \in Wallets, NEW owner \in Wallets, NEW approved,
         NEW n, Utilize(m, user, owner, approved, n)
  PROVE  EditionInv'
<1> DEFINE burns == meta[m].uses.use_method = "Burn" /\ meta[m].uses.remaining - n = 0
<1>1. held[m][owner] >= 1 /\ UNCHANGED <<clients, frozen, edition>>
  BY DEF Utilize, CurrentlyHolding
<1>2. owner \in Holders
  BY HoldersAre
<1>3. CASE burns
  <2>1. ~frozen[m][owner] /\ Burnt(m, owner)
        /\ delegate' \in {delegate, [delegate EXCEPT ![m][owner] = Undelegated]}
    BY <1>3 DEF Utilize
  <2> QED BY <1>1, <1>2, <2>1, BurnStep
<1>4. CASE ~burns
  <2>1. UNCHANGED <<mint, held, delegate>>
    BY <1>4 DEF Utilize
  <2>2. edition' \in [Mints -> Editions \cup {None}]
    BY <1>1 DEF EditionInv, Typed
  <2> QED BY <1>1, <2>1, <2>2, TokensAlone DEF tokenVars
<1> QED BY <1>3, <1>4

(* A mint with one token, whose authority signs, gets an edition. *)
LEMMA EditionStep ==
  ASSUME EditionInv, NEW p \in Mints, edition[p] = None, mint[p].supply = 1,
         mint' = [mint EXCEPT ![p] = EditionOwnsMint(p)],
         edition' \in [Mints -> Editions \cup {None}],
         \A m \in Mints \ {p} : edition'[m] # None <=> edition[m] # None,
         UNCHANGED <<clients, held, delegate, frozen>>
  PROVE  EditionInv'
<1> DEFINE after == EditionOwnsMint(p)
<1>1. mint[p] \in MintAccount
  BY DEF EditionInv, Typed
<1>2. after \in MintAccount /\ after.authority = p /\ after.supply = 1
  <2> DEFINE freezer == IF mint[p].freeze = None THEN None ELSE p
  <2>1. freezer \in Accounts /\ p \in Accounts
    BY DEF Accounts, Option
  <2>2. after = [mint[p] EXCEPT !.authority = p, !.freeze = freezer]
    BY DEF EditionOwnsMint
  <2> HIDE DEF after, freezer
  <2> QED BY <1>1, <2>1, <2>2 DEF MintAccount
<1> HIDE DEF after
<1>3. mint' = [mint EXCEPT ![p] = after]
  BY DEF after
<1>4. mint' \in [Mints -> MintAccount] /\ mint'[p] = after
      /\ \A m \in Mints \ {p} : mint'[m] = mint[m]
  BY <1>2, <1>3 DEF EditionInv, Typed
<1>5. Typed'
  BY <1>4 DEF EditionInv, Typed
<1>6. \A m \in Mints : mint'[m].supply = mint[m].supply
  BY <1>2, <1>4
<1>7. Booked'
  BY <1>6 DEF EditionInv, Booked
<1>8. Closed'
  BY <1>2, <1>4 DEF EditionInv, Closed
<1>9. ASSUME NEW m \in Mints, NEW w \in Holders, frozen'[m][w]
      PROVE  frozen[m][w] /\ mint'[m].freeze = mint[m].freeze /\ edition'[m] # None
  <2>1. frozen[m][w] /\ edition[m] # None
    BY <1>9, Thawable
  <2> QED BY <2>1, <1>4
<1>10. FrozenCanThaw'
  BY <1>9, ThawableKept
<1> QED BY <1>5, <1>7, <1>8, <1>10 DEF EditionInv

LEMMA MasterAccount ==
  ASSUME EditionInv, NEW m \in Mints, IsMaster(m)
  PROVE  edition[m] \in MasterEdition
BY DEF EditionInv, Typed, Editions, Edition, IsMaster

LEMMA CreateMasterStep ==
  ASSUME EditionInv, NEW m \in Mints, NEW max_supply \in Option(Nat), NEW writable,
         CreateMasterEdition(m, max_supply, writable)
  PROVE  EditionInv'
<1> DEFINE new == [key |-> "MasterEditionV2", supply |-> 0, max_supply |-> max_supply,
                   printing |-> 0, one_time |-> 0]
<1>1. /\ edition[m] = None /\ mint[m].supply = 1
      /\ edition' = [edition EXCEPT ![m] = new]
      /\ mint' = [mint EXCEPT ![m] = EditionOwnsMint(m)]
      /\ UNCHANGED <<clients, held, delegate, frozen>>
  BY DEF CreateMasterEdition
<1>2. new \in Editions
  BY DEF Editions, MasterEdition
<1> HIDE DEF new
<1>3. edition' \in [Mints -> Editions \cup {None}]
      /\ \A p \in Mints \ {m} : edition'[p] = edition[p]
  BY <1>1, <1>2 DEF EditionInv, Typed
<1> QED BY <1>1, <1>3, EditionStep

LEMMA PrintStep ==
  ASSUME EditionInv, NEW m \in Mints, NEW p \in Mints, NEW n \in Nat, NEW authority,
         MintNewEdition(m, p, n, authority)
  PROVE  EditionInv'
<1> DEFINE print == [key |-> "EditionV1", parent |-> m, edition |-> n]
           master == [edition[m] EXCEPT !.supply = SupplyAfter(m, n)]
<1>1. /\ edition[p] = None /\ mint[p].supply = 1 /\ IsMaster(m)
      /\ edition' = [edition EXCEPT ![m].supply = SupplyAfter(m, n), ![p] = print]
      /\ mint' = [mint EXCEPT ![p] = EditionOwnsMint(p)]
      /\ UNCHANGED <<clients, held, delegate, frozen>>
  BY DEF MintNewEdition
<1>2. edition[m] \in MasterEdition /\ edition[m] # None /\ m # p
  BY <1>1, MasterAccount DEF IsMaster
<1>3. SupplyAfter(m, n) \in Nat
  BY <1>2 DEF SupplyAfter, MasterEdition
<1>4. master \in MasterEdition
  BY <1>2, <1>3 DEF MasterEdition
<1>5. master \in Editions /\ print \in Editions
  BY <1>4 DEF Editions, Edition
<1>6. edition' = [edition EXCEPT ![m] = master, ![p] = print]
  BY <1>1, <1>2 DEF EditionInv, Typed
<1> HIDE DEF master, print
<1>7. edition' \in [Mints -> Editions \cup {None}]
      /\ edition'[m] = master /\ \A q \in Mints \ {m, p} : edition'[q] = edition[q]
  BY <1>2, <1>5, <1>6 DEF EditionInv, Typed
<1>8. \A q \in Mints \ {p} : edition'[q] # None <=> edition[q] # None
  BY <1>2, <1>5, <1>7, EditionNotNone
<1> QED BY <1>1, <1>7, <1>8, EditionStep

(* A master edition of the old kind is written, and stays a master edition. *)
LEMMA OldMasterStep ==
  ASSUME EditionInv, NEW m \in Mints, BurnPrinting(m) \/ ConvertMasterEditionV1ToV2(m)
  PROVE  EditionInv'
<1> DEFINE old == edition[m]
<1>1. IsMaster(m) /\ UNCHANGED <<clients, tokenVars>>
  BY DEF BurnPrinting, ConvertMasterEditionV1ToV2
<1>2. old \in MasterEdition
  BY <1>1, MasterAccount
<1>3. \E new \in MasterEdition : edition' = [edition EXCEPT ![m] = new]
  <2>1. CASE ConvertMasterEditionV1ToV2(m)
    <3>1. [old EXCEPT !.key = "MasterEditionV2"] \in MasterEdition
      BY <1>2 DEF MasterEdition
    <3> QED BY <2>1, <3>1 DEF ConvertMasterEditionV1ToV2
  <2>2. CASE BurnPrinting(m) /\ edition' = [edition EXCEPT ![m].printing = @ - 1] /\ old.printing > 0
    <3>1. [old EXCEPT !.printing = @ - 1] \in MasterEdition
      BY <1>2, <2>2 DEF MasterEdition
    <3> QED BY <2>2, <3>1
  <2>3. CASE BurnPrinting(m) /\ edition' = [edition EXCEPT ![m].one_time = @ - 1] /\ old.one_time > 0
    <3>1. [old EXCEPT !.one_time = @ - 1] \in MasterEdition
      BY <1>2, <2>3 DEF MasterEdition
    <3> QED BY <2>3, <3>1
  <2> QED BY <2>1, <2>2, <2>3 DEF BurnPrinting
<1>4. PICK new \in MasterEdition : edition' = [edition EXCEPT ![m] = new]
  BY <1>3
<1>5. new \in Editions /\ old \in Editions
  BY <1>2, <1>4 DEF Editions
<1>6. edition' \in [Mints -> Editions \cup {None}]
      /\ \A p \in Mints : edition'[p] # None <=> edition[p] # None
  BY <1>4, <1>5, EditionNotNone DEF EditionInv, Typed
<1> QED BY <1>1, <1>6, TokensAlone

-----------------------------------------------------------------------------
(***************************************************************************)
(* Every instruction.                                                      *)
(***************************************************************************)
LEMMA ElsewhereStep ==
  ASSUME EditionInv, UNCHANGED <<clients, tokenVars, edition>>
  PROVE  EditionInv'
<1>1. edition' \in [Mints -> Editions \cup {None}]
  BY DEF EditionInv, Typed
<1> QED BY <1>1, TokensAlone

LEMMA TokenProgramStep ==
  ASSUME EditionInv, TokenProgram
  PROVE  EditionInv'
<1>1. /\ clients.transfers \subseteq Mints /\ clients.approvals \subseteq Mints
      /\ clients.minting \subseteq Mints /\ DOMAIN clients.legacy \subseteq Mints
  BY ClientsOK DEF EditionInv, Typed
<1>2. ASSUME NEW m \in Mints, NEW from \in Wallets, NEW to \in Holders, Transfer(m, from, to)
      PROVE  EditionInv'
  BY <1>2, TransferStep
<1>3. ASSUME NEW m \in Mints, NEW owner \in Wallets, NEW to \in Wallets, Approve(m, owner, to)
      PROVE  EditionInv'
  <2>1. [to |-> to, amount |-> 1] \in Delegation
    BY DEF Delegation, Option
  <2> QED BY <1>3, <2>1, HoldersAre, DelegateStep DEF Approve, metaVars
<1>4. ASSUME NEW m \in Mints, NEW owner \in Wallets, Revoke(m, owner)
      PROVE  EditionInv'
  <2>1. Undelegated \in Delegation
    BY DEF Undelegated, Delegation, Option
  <2> QED BY <1>4, <2>1, HoldersAre, DelegateStep DEF Revoke, metaVars
<1>5. ASSUME NEW m \in Mints, NEW w \in Wallets, MintTo(m, w)
      PROVE  EditionInv'
  BY <1>5, MintToStep
<1>6. ASSUME NEW m \in Mints, BurnPrinting(m) PROVE EditionInv'
  BY <1>6, OldMasterStep
<1> QED BY <1>1, <1>2, <1>3, <1>4, <1>5, <1>6 DEF TokenProgram

LEMMA CreateStep ==
  ASSUME Create
  PROVE  UNCHANGED <<clients, tokenVars, edition, marks>>
<1>1. ASSUME NEW m, NEW signer, NEW authority, NEW signs, NEW data, NEW is_mutable, NEW standard,
             NEW details, CreateMetadata(m, signer, authority, signs, data, is_mutable, standard, details)
      PROVE  UNCHANGED <<clients, tokenVars, edition, marks>>
  BY <1>1 DEF CreateMetadata
<1>2. ASSUME NEW m, NEW signer, NEW authority, NEW signs, NEW creators, NEW is_mutable,
             DeprecatedCreateMetadata(m, signer, authority, signs, creators, is_mutable)
      PROVE  UNCHANGED <<clients, tokenVars, edition, marks>>
  BY <1>1, <1>2 DEF DeprecatedCreateMetadata
<1>3. ASSUME NEW m, NEW signer, NEW authority, NEW signs, NEW data, NEW is_mutable,
             CreateMetadataV2(m, signer, authority, signs, data, is_mutable)
      PROVE  UNCHANGED <<clients, tokenVars, edition, marks>>
  BY <1>1, <1>3 DEF CreateMetadataV2
<1>4. ASSUME NEW m, NEW signer, NEW authority, NEW signs, NEW data, NEW is_mutable, NEW sized,
             CreateMetadataV3(m, signer, authority, signs, data, is_mutable, sized)
      PROVE  UNCHANGED <<clients, tokenVars, edition, marks>>
  BY <1>1, <1>4 DEF CreateMetadataV3
<1> QED BY <1>2, <1>3, <1>4 DEF Create

LEMMA UpdateOrSignStep ==
  ASSUME Update \/ Sign
  PROVE  UNCHANGED <<clients, tokenVars, edition, marks>>
<1>1. ASSUME NEW m, NEW signer, NEW data, NEW authority, NEW sale, NEW is_mutable,
             UpdateMetadata(m, signer, data, authority, sale, is_mutable)
      PROVE  UNCHANGED <<clients, tokenVars, edition, marks>>
  BY <1>1 DEF UpdateMetadata
<1>2. ASSUME NEW m, NEW signer, NEW creators, NEW authority, NEW sale,
             DeprecatedUpdateMetadata(m, signer, creators, authority, sale)
      PROVE  UNCHANGED <<clients, tokenVars, edition, marks>>
  BY <1>2 DEF DeprecatedUpdateMetadata
<1>3. ASSUME NEW m, NEW w, \/ UpdatePrimarySaleHappenedViaToken(m, w)
                           \/ SignMetadata(m, w)
                           \/ RemoveCreatorVerification(m, w)
                           \/ SetTokenStandard(m, w)
      PROVE  UNCHANGED <<clients, tokenVars, edition, marks>>
  BY <1>3 DEF UpdatePrimarySaleHappenedViaToken, SignMetadata, RemoveCreatorVerification,
              SetTokenStandard
<1> QED BY <1>1, <1>2, <1>3 DEF Update, Sign

LEMMA CollectStep ==
  ASSUME Collect
  PROVE  UNCHANGED <<clients, tokenVars, edition, marks>>
BY DEF Collect, VerifyCollection, VerifySizedCollectionItem, UnverifyCollection,
       UnverifySizedCollectionItem, SetAndVerifyCollection, SetAndVerifySizedCollectionItem,
       SetAndVerify, SetCollectionSize, ApproveCollectionAuthority, RevokeCollectionAuthority

LEMMA EditStep ==
  ASSUME EditionInv, Edit
  PROVE  EditionInv'
<1>1. clients.supplies \subseteq Option(Nat) /\ clients.numbers \subseteq Nat
  BY ClientsOK DEF EditionInv, Typed
<1>2. ASSUME NEW m \in Mints, NEW max_supply \in clients.supplies, NEW writable,
             CreateMasterEdition(m, max_supply, writable)
      PROVE  EditionInv'
  BY <1>1, <1>2, CreateMasterStep
<1>3. ASSUME NEW m \in Mints, ConvertMasterEditionV1ToV2(m) PROVE EditionInv'
  BY <1>3, OldMasterStep
<1>4. ASSUME NEW m \in Mints, NEW p \in Mints, NEW n \in clients.numbers, NEW owner, NEW authority,
             \/ MintNewEditionViaToken(m, owner, p, n, authority)
             \/ MintNewEditionViaVaultProxy(m, p, n, authority)
      PROVE  EditionInv'
  <2>1. MintNewEdition(m, p, n, authority)
    BY <1>4 DEF MintNewEditionViaToken, MintNewEditionViaVaultProxy
  <2> QED BY <1>1, <2>1, PrintStep
<1>5. ASSUME NEW m \in Mints, NEW owner \in Wallets, NEW c, BurnNft(m, owner, c)
      PROVE  EditionInv'
  BY <1>5, BurnNftStep
<1> QED BY <1>2, <1>3, <1>4, <1>5 DEF Edit

(* Giving a use away, or taking it back, sets the delegate of the holder.   *)
LEMMA UseAuthorityStep ==
  ASSUME EditionInv, NEW m \in Mints, NEW owner \in Wallets, NEW user, NEW n,
         ApproveUseAuthority(m, owner, user, n) \/ RevokeUseAuthority(m, owner, user)
  PROVE  EditionInv'
<1>1. UNCHANGED <<clients, mint, held, frozen, edition>>
  BY DEF ApproveUseAuthority, RevokeUseAuthority
<1>2. [to |-> Burner, amount |-> 1] \in Delegation /\ Undelegated \in Delegation
  BY DEF Undelegated, Delegation, Option
<1>3. \/ delegate' = delegate
      \/ ~frozen[m][owner] /\ \E d \in Delegation : delegate' = [delegate EXCEPT ![m][owner] = d]
  BY <1>2 DEF ApproveUseAuthority, RevokeUseAuthority
<1>4. CASE delegate' = delegate
  BY <1>1, <1>4, ElsewhereStep DEF tokenVars
<1>5. CASE ~frozen[m][owner] /\ \E d \in Delegation : delegate' = [delegate EXCEPT ![m][owner] = d]
  BY <1>1, <1>5, HoldersAre, DelegateStep
<1> QED BY <1>3, <1>4, <1>5

LEMMA UseStep ==
  ASSUME EditionInv, Use
  PROVE  EditionInv'
<1>1. ASSUME NEW m \in Mints, NEW owner \in Wallets, NEW user \in Wallets, NEW n,
             \/ ApproveUseAuthority(m, owner, user, n)
             \/ RevokeUseAuthority(m, owner, user)
      PROVE  EditionInv'
  BY <1>1, UseAuthorityStep
<1>2. ASSUME NEW m \in Mints, NEW owner \in Wallets, NEW user \in Wallets, NEW n,
             NEW approved \in BOOLEAN, Utilize(m, user, owner, approved, n)
      PROVE  EditionInv'
  BY <1>2, UtilizeStep
<1>3. ASSUME NEW m \in Mints, NEW owner \in Wallets, NEW user \in Wallets,
             FreezeDelegatedAccount(m, owner, user) \/ ThawDelegatedAccount(m, owner, user)
      PROVE  EditionInv'
  BY <1>3, FreezeStep
<1> QED BY <1>1, <1>2, <1>3 DEF Use

LEMMA EditionsStep == EditionInv /\ [Next]_vars => EditionInv'
<1> SUFFICES ASSUME EditionInv, [Next]_vars PROVE EditionInv'
  OBVIOUS
<1>1. CASE VaultMoves
  BY <1>1, ElsewhereStep DEF VaultMoves, metaVars
<1>2. CASE Create
  BY <1>2, CreateStep, ElsewhereStep
<1>3. CASE Update \/ Sign
  BY <1>3, UpdateOrSignStep, ElsewhereStep
<1>4. CASE Collect
  BY <1>4, CollectStep, ElsewhereStep
<1>5. CASE UNCHANGED vars
  BY <1>5, ElsewhereStep DEF vars, metaVars
<1> QED BY <1>1, <1>2, <1>3, <1>4, <1>5, TokenProgramStep, EditStep, UseStep DEF Next

LEMMA EditionsInvariant == Spec => []EditionInv
BY InitEditions, EditionsStep, PTL DEF Spec

(* However mints, delegates, uses and editions change hands, a token frozen  *)
(* by its delegate can be thawed by it: the amount delegated is the one     *)
(* held, and the edition that thaws is still there.                        *)
THEOREM FreezeCanBeUndone == Spec => []FrozenCanThaw
<1>1. EditionInv => FrozenCanThaw
  BY DEF EditionInv
<1> QED BY <1>1, EditionsInvariant, PTL

(* An edition, master or print, never has a second token: the program took  *)
(* the authority over the mint when it had one.                            *)
THEOREM NoSecondToken == Spec => []OneOfAKind
<1>1. EditionInv => OneOfAKind
  BY DEF EditionInv, Closed, OneOfAKind
<1> QED BY <1>1, EditionsInvariant, PTL

-----------------------------------------------------------------------------
(***************************************************************************)
(* The numbers of the prints.                                              *)
(***************************************************************************)
MarksTyped == marks = [m \in Mints |-> marks[m]]

NumberInv == EditionInv /\ MarksTyped /\ PrintsNumbered

(* What holds of a print with number n of the master m. *)
Numbered(p, m, n) ==
  /\ IsMaster(m) /\ n \in 1 .. edition[m].supply /\ Mark(n) \in marks[m]
  /\ edition[m].max_supply # None => edition[m].supply <= edition[m].max_supply
  /\ \A q \in Mints \ {p} : IsPrint(q) /\ edition[q].parent = m => edition[q].edition # n

LEMMA NumberedPrint ==
  PrintsNumbered <=> \A p \in Mints : IsPrint(p) => Numbered(p, edition[p].parent, edition[p].edition)
BY DEF PrintsNumbered, Numbered

(* A print is no master, and has a parent and a number. *)
LEMMA PrintAccount ==
  ASSUME EditionInv, NEW p \in Mints, IsPrint(p)
  PROVE  ~IsMaster(p) /\ edition[p].parent \in Mints /\ edition[p].edition \in Nat
<1>1. edition[p] \in Edition
  BY DEF EditionInv, Typed, Editions, MasterEdition, IsPrint
<1> QED BY <1>1 DEF Edition, IsPrint, IsMaster

(* Steps that print nothing, and leave the masters of prints as they are.   *)
LEMMA NothingPrinted ==
  ASSUME NumberInv, EditionInv', UNCHANGED marks,
         \A p \in Mints : IsPrint(p)' => IsPrint(p) /\ edition'[p] = edition[p],
         \A m \in Mints : IsMaster(m) /\ edition[m].supply > 0 =>
           /\ IsMaster(m)'
           /\ edition'[m].supply = edition[m].supply
           /\ edition'[m].max_supply = edition[m].max_supply
  PROVE  NumberInv'
<1>1. ASSUME NEW p \in Mints, IsPrint(p)'
      PROVE  Numbered(p, edition[p].parent, edition[p].edition)'
  <2>1. IsPrint(p) /\ edition'[p] = edition[p]
    BY <1>1
  <2>3. PICK m \in Mints, n \in Nat : m = edition[p].parent /\ n = edition[p].edition
    BY <2>1, PrintAccount DEF NumberInv
  <2>2. Numbered(p, m, n)
    BY <2>1, <2>3, NumberedPrint DEF NumberInv
  <2>4. IsMaster(m) /\ edition[m].supply > 0
    <3>1. edition[m] \in MasterEdition
      BY <2>2, <2>3, MasterAccount DEF Numbered, NumberInv
    <3>2. edition[m].supply \in Nat
      BY <3>1 DEF MasterEdition
    <3> QED BY <2>2, <2>3, <3>2 DEF Numbered
  <2>5. /\ IsMaster(m)'
        /\ edition'[m].supply = edition[m].supply
        /\ edition'[m].max_supply = edition[m].max_supply
    BY <2>3, <2>4
  <2>6. \A q \in Mints : IsPrint(q)' => IsPrint(q) /\ edition'[q] = edition[q]
    OBVIOUS
  <2>7. Numbered(p, m, n)'
    BY <2>2, <2>5, <2>6 DEF Numbered, Mark
  <2> QED BY <2>1, <2>3, <2>7
<1>2. PrintsNumbered'
  BY <1>1 DEF PrintsNumbered, Numbered
<1> QED BY <1>2 DEF NumberInv, MarksTyped

(* A print takes a number whose mark was not set: no other print has it.    *)
LEMMA PrintNumbered ==
  ASSUME NumberInv, EditionInv', NEW m \in Mints, NEW p \in Mints, NEW n \in Nat, NEW authority,
         MintNewEdition(m, p, n, authority)
  PROVE  NumberInv'
<1> DEFINE print == [key |-> "EditionV1", parent |-> m, edition |-> n]
           master == [edition[m] EXCEPT !.supply = SupplyAfter(m, n)]
<1>1. /\ edition[p] = None /\ IsMaster(m) /\ SupplyAllows(m, n)
      /\ Mark(n) \notin marks[m] /\ marks' = [marks EXCEPT ![m] = @ \cup {Mark(n)}]
      /\ edition' = [edition EXCEPT ![m].supply = SupplyAfter(m, n), ![p] = print]
  BY DEF MintNewEdition, PrintOnce
<1>2. edition[m] \in MasterEdition /\ edition[m] # None /\ m # p
  BY <1>1, MasterAccount DEF IsMaster, NumberInv
<1>3. edition[m].supply \in Nat /\ SupplyAfter(m, n) \in Nat
      /\ SupplyAfter(m, n) >= n /\ SupplyAfter(m, n) >= edition[m].supply /\ n > 0
  BY <1>1, <1>2 DEF SupplyAfter, SupplyAllows, MasterEdition
<1>4. /\ master.key = edition[m].key /\ master.supply = SupplyAfter(m, n)
      /\ master.max_supply = edition[m].max_supply /\ master \in MasterEdition
  BY <1>2, <1>3 DEF MasterEdition
<1>5. edition' = [edition EXCEPT ![m] = master, ![p] = print]
  BY <1>1, <1>2 DEF NumberInv, EditionInv, Typed
<1>6. print.key = "EditionV1" /\ print.parent = m /\ print.edition = n /\ print # None
      /\ master # None
  BY <1>4, NoneIsAbsent DEF Edition
<1> HIDE DEF master, print
<1>7. /\ edition'[m] = master /\ edition'[p] = print
      /\ \A q \in Mints \ {m, p} : edition'[q] = edition[q]
  BY <1>2, <1>5 DEF NumberInv, EditionInv, Typed
<1>8. marks'[m] = marks[m] \cup {Mark(n)} /\ MarksTyped'
      /\ \A q \in Mints \ {m} : marks'[q] = marks[q]
  BY <1>1 DEF NumberInv, MarksTyped
<1>9. IsMaster(m)' /\ ~IsPrint(m) /\ ~IsPrint(m)' /\ ~IsPrint(p) /\ IsPrint(p)'
  BY <1>1, <1>4, <1>6, <1>7 DEF IsMaster, IsPrint
<1>10. \A q \in Mints \ {p} : (IsPrint(q)' <=> IsPrint(q)) /\ (IsPrint(q) => edition'[q] = edition[q])
  BY <1>7, <1>9 DEF IsPrint
<1>11. \A q \in Mints \ {p} : IsMaster(q) =>
         /\ IsMaster(q)' /\ edition'[q].max_supply = edition[q].max_supply
         /\ edition'[q].supply = IF q = m THEN SupplyAfter(m, n) ELSE edition[q].supply
  BY <1>4, <1>7, <1>9 DEF IsMaster
<1>12. master.max_supply # None => SupplyAfter(m, n) <= master.max_supply
  BY <1>1, <1>4 DEF SupplyAllows
(* The other prints of the master have set the marks of their numbers.      *)
<1>13. ASSUME NEW q \in Mints, IsPrint(q), edition[q].parent = m PROVE edition[q].edition # n
  <2>1. Mark(edition[q].edition) \in marks[m]
    BY <1>13, NumberedPrint DEF NumberInv, Numbered
  <2> QED BY <1>1, <2>1
<1>14. Numbered(p, m, n)'
  <2>1. n \in 1 .. edition'[m].supply
    BY <1>3, <1>4, <1>7
  <2>2. Mark(n)' = Mark(n)
    BY DEF Mark
  <2>3. \A q \in Mints \ {p} : IsPrint(q)' /\ edition'[q].parent = m => edition'[q].edition # n
    BY <1>10, <1>13
  <2> QED BY <1>4, <1>7, <1>8, <1>9, <1>12, <2>1, <2>2, <2>3 DEF Numbered
<1>15. ASSUME NEW q \in Mints \ {p}, IsPrint(q)
       PROVE  Numbered(q, edition[q].parent, edition[q].edition)'
  <2>12. PICK k \in Mints, i \in Nat : k = edition[q].parent /\ i = edition[q].edition
    BY <1>15, PrintAccount DEF NumberInv
  <2>1. Numbered(q, k, i)
    BY <1>15, <2>12, NumberedPrint DEF NumberInv
  <2>2. k # p
    BY <1>1, <2>1 DEF Numbered, IsMaster
  <2>3. edition'[q].parent = k /\ edition'[q].edition = i
    BY <1>10, <1>15, <2>12
  <2>4. edition[k].supply \in Nat
    BY <2>1, <2>2, MasterAccount DEF NumberInv, Numbered, MasterEdition
  <2>5. edition'[k].supply \in Nat /\ edition'[k].supply >= edition[k].supply
    BY <1>3, <1>11, <2>1, <2>2, <2>4 DEF Numbered
  <2>6. i \in 1 .. edition'[k].supply
    BY <2>1, <2>2, <2>4, <2>5 DEF Numbered
  <2>7. Mark(i) \in marks'[k]
    BY <1>8, <2>1, <2>2 DEF Numbered
  <2>8. edition'[k].max_supply # None => edition'[k].supply <= edition'[k].max_supply
    BY <1>4, <1>7, <1>11, <1>12, <2>1, <2>2 DEF Numbered
  <2>9. \A r \in Mints \ {q} : IsPrint(r)' /\ edition'[r].parent = k => edition'[r].edition # i
    <3>1. CASE k = m
      BY <3>1, <1>6, <1>7, <1>10, <1>13, <1>15, <2>1, <2>12 DEF Numbered
    <3>2. CASE k # m
      BY <3>2, <1>6, <1>7, <1>10, <2>1 DEF Numbered
    <3> QED BY <3>1, <3>2
  <2>10. IsMaster(k)'
    BY <1>11, <2>1, <2>2 DEF Numbered
  <2>11. Mark(i)' = Mark(i)
    BY DEF Mark
  <2>13. Numbered(q, k, i)'
    BY <2>6, <2>7, <2>8, <2>9, <2>10, <2>11 DEF Numbered
  <2> QED BY <2>3, <2>13
<1>16. PrintsNumbered'
  <2>1. ASSUME NEW q \in Mints, IsPrint(q)'
        PROVE  Numbered(q, edition[q].parent, edition[q].edition)'
    BY <2>1, <1>6, <1>7, <1>10, <1>14, <1>15 DEF Numbered, IsMaster, IsPrint
  <2> QED BY <2>1 DEF PrintsNumbered, Numbered
<1> QED BY <1>8, <1>16 DEF NumberInv

(* Masters that are written without a print, made or burnt. *)
LEMMA NumberElsewhere ==
  ASSUME NumberInv, EditionInv', UNCHANGED <<edition, marks>>
  PROVE  NumberInv'
<1>1. \A m \in Mints : /\ IsPrint(m)' <=> IsPrint(m)
                       /\ IsMaster(m)' <=> IsMaster(m)
  BY DEF IsPrint, IsMaster
<1> QED BY <1>1, NothingPrinted

LEMMA NumberOldMaster ==
  ASSUME NumberInv, EditionInv', NEW m \in Mints, BurnPrinting(m) \/ ConvertMasterEditionV1ToV2(m)
  PROVE  NumberInv'
<1> DEFINE old == edition[m]
<1>1. IsMaster(m) /\ UNCHANGED marks
  BY DEF BurnPrinting, ConvertMasterEditionV1ToV2
<1>2. old \in MasterEdition
  BY <1>1, MasterAccount DEF NumberInv
<1>3. PICK new : /\ edition' = [edition EXCEPT ![m] = new]
                 /\ new \in MasterEdition
                 /\ new.supply = old.supply /\ new.max_supply = old.max_supply
  <2>1. CASE ConvertMasterEditionV1ToV2(m)
    <3> DEFINE new == [old EXCEPT !.key = "MasterEditionV2"]
    <3>1. new \in MasterEdition /\ new.supply = old.supply /\ new.max_supply = old.max_supply
      BY <1>2 DEF MasterEdition
    <3>2. edition' = [edition EXCEPT ![m] = new]
      BY <2>1 DEF ConvertMasterEditionV1ToV2
    <3> QED BY <3>1, <3>2
  <2>2. CASE BurnPrinting(m) /\ edition' = [edition EXCEPT ![m].printing = @ - 1] /\ old.printing > 0
    <3> DEFINE new == [old EXCEPT !.printing = @ - 1]
    <3>1. new \in MasterEdition /\ new.supply = old.supply /\ new.max_supply = old.max_supply
      BY <1>2, <2>2 DEF MasterEdition
    <3>2. edition' = [edition EXCEPT ![m] = new]
      BY <2>2
    <3> QED BY <3>1, <3>2
  <2>3. CASE BurnPrinting(m) /\ edition' = [edition EXCEPT ![m].one_time = @ - 1] /\ old.one_time > 0
    <3> DEFINE new == [old EXCEPT !.one_time = @ - 1]
    <3>1. new \in MasterEdition /\ new.supply = old.supply /\ new.max_supply = old.max_supply
      BY <1>2, <2>3 DEF MasterEdition
    <3>2. edition' = [edition EXCEPT ![m] = new]
      BY <2>3
    <3> QED BY <3>1, <3>2
  <2> QED BY <2>1, <2>2, <2>3 DEF BurnPrinting
<1>4. edition'[m] = new /\ \A q \in Mints \ {m} : edition'[q] = edition[q]
  BY <1>3 DEF NumberInv, EditionInv, Typed
<1>5. new # None /\ new.key \in {"MasterEditionV1", "MasterEditionV2"}
  BY <1>3, NoneIsAbsent DEF MasterEdition
<1>6. \A q \in Mints : /\ IsPrint(q)' => IsPrint(q) /\ edition'[q] = edition[q]
                       /\ IsMaster(q) => IsMaster(q)'
  BY <1>4, <1>5 DEF IsPrint, IsMaster
<1> QED BY <1>1, <1>3, <1>4, <1>6, NothingPrinted

LEMMA NumberCreateMaster ==
  ASSUME NumberInv, EditionInv', NEW m \in Mints, NEW max_supply, NEW writable,
         CreateMasterEdition(m, max_supply, writable)
  PROVE  NumberInv'
<1> DEFINE new == [key |-> "MasterEditionV2", supply |-> 0, max_supply |-> max_supply,
                   printing |-> 0, one_time |-> 0]
<1>1. edition[m] = None /\ edition' = [edition EXCEPT ![m] = new] /\ UNCHANGED marks
  BY DEF CreateMasterEdition
<1>2. new.key = "MasterEditionV2"
  OBVIOUS
<1> HIDE DEF new
<1>3. edition'[m] = new /\ \A q \in Mints \ {m} : edition'[q] = edition[q]
  BY <1>1 DEF NumberInv, EditionInv, Typed
<1>4. \A q \in Mints : /\ IsPrint(q)' => IsPrint(q) /\ edition'[q] = edition[q]
                       /\ IsMaster(q) => IsMaster(q)' /\ edition'[q] = edition[q]
  BY <1>1, <1>2, <1>3 DEF IsPrint, IsMaster
<1> QED BY <1>1, <1>4, NothingPrinted

(* The master of a print has a supply, and cannot be burnt.                 *)
LEMMA NumberBurn ==
  ASSUME NumberInv, EditionInv', NEW m \in Mints, NEW owner, NEW c, BurnNft(m, owner, c)
  PROVE  NumberInv'
<1>1. IsMaster(m) /\ edition[m].supply = 0 /\ edition' = [edition EXCEPT ![m] = None] /\ UNCHANGED marks
  BY DEF BurnNft
<1>2. edition'[m] = None /\ \A q \in Mints \ {m} : edition'[q] = edition[q]
  BY <1>1 DEF NumberInv, EditionInv, Typed
<1>3. \A q \in Mints : /\ IsPrint(q)' => IsPrint(q) /\ edition'[q] = edition[q]
                       /\ q # m => (IsMaster(q) => IsMaster(q)') /\ edition'[q] = edition[q]
  BY <1>2 DEF IsPrint, IsMaster
<1>4. \A q \in Mints : edition[q].supply > 0 => q # m
  BY <1>1
<1> QED BY <1>1, <1>3, <1>4, NothingPrinted

LEMMA InitNumbers == Init => NumberInv
<1> SUFFICES ASSUME Init PROVE NumberInv
  OBVIOUS
<1>1. EditionInv
  BY InitEditions
<1>2. MarksTyped
  BY DEF Init, MarksTyped
<1>3. ASSUME NEW p \in Mints, IsPrint(p) PROVE FALSE
  <2>1. edition[p] = None \/ edition[p] \in MasterEdition
    BY ClientsOK DEF Init, LegacyMaster
  <2> QED BY <1>3, <2>1 DEF IsPrint, MasterEdition
<1>4. PrintsNumbered
  BY <1>3 DEF PrintsNumbered
<1> QED BY <1>1, <1>2, <1>4 DEF NumberInv

LEMMA NumbersStep == NumberInv /\ [Next]_vars => NumberInv'
<1> SUFFICES ASSUME NumberInv, [Next]_vars PROVE NumberInv'
  OBVIOUS
<1>1. EditionInv' /\ EditionInv /\ clients.numbers \subseteq Nat /\ DOMAIN clients.legacy \subseteq Mints
  BY EditionsStep, ClientsOK DEF NumberInv, EditionInv, Typed
<1>2. CASE TokenProgram
  <2>1. ASSUME NEW m \in Mints, BurnPrinting(m) PROVE NumberInv'
    BY <1>1, <2>1, NumberOldMaster
  <2>2. ASSUME NEW m, NEW w, NEW v, Transfer(m, w, v) \/ Approve(m, w, v) \/ Revoke(m, w) \/ MintTo(m, w)
        PROVE  NumberInv'
    <3>1. UNCHANGED <<edition, marks>>
      BY <2>2 DEF Transfer, Approve, Revoke, MintTo, metaVars
    <3> QED BY <1>1, <3>1, NumberElsewhere
  <2> QED BY <1>1, <1>2, <2>1, <2>2 DEF TokenProgram
<1>3. CASE Edit
  <2>1. ASSUME NEW m \in Mints, NEW max_supply, NEW writable, CreateMasterEdition(m, max_supply, writable)
        PROVE  NumberInv'
    BY <1>1, <2>1, NumberCreateMaster
  <2>2. ASSUME NEW m \in Mints, ConvertMasterEditionV1ToV2(m) PROVE NumberInv'
    BY <1>1, <2>2, NumberOldMaster
  <2>3. ASSUME NEW m \in Mints, NEW p \in Mints, NEW n \in clients.numbers, NEW owner, NEW authority,
               \/ MintNewEditionViaToken(m, owner, p, n, authority)
               \/ MintNewEditionViaVaultProxy(m, p, n, authority)
        PROVE  NumberInv'
    <3>1. MintNewEdition(m, p, n, authority)
      BY <2>3 DEF MintNewEditionViaToken, MintNewEditionViaVaultProxy
    <3> QED BY <1>1, <3>1, PrintNumbered
  <2>4. ASSUME NEW m \in Mints, NEW owner, NEW c, BurnNft(m, owner, c) PROVE NumberInv'
    BY <1>1, <2>4, NumberBurn
  <2> QED BY <1>3, <2>1, <2>2, <2>3, <2>4 DEF Edit
<1>4. CASE Use
  <2>1. ASSUME NEW m, NEW owner, NEW user, NEW n, NEW approved,
               \/ ApproveUseAuthority(m, owner, user, n)
               \/ RevokeUseAuthority(m, owner, user)
               \/ Utilize(m, user, owner, approved, n)
               \/ FreezeDelegatedAccount(m, owner, user)
               \/ ThawDelegatedAccount(m, owner, user)
        PROVE  NumberInv'
    <3>1. UNCHANGED <<edition, marks>>
      BY <2>1 DEF ApproveUseAuthority, RevokeUseAuthority, Utilize, FreezeDelegatedAccount,
                  ThawDelegatedAccount, metaVars
    <3> QED BY <1>1, <3>1, NumberElsewhere
  <2> QED BY <1>4, <2>1 DEF Use
<1>5. CASE VaultMoves \/ UNCHANGED vars
  BY <1>1, <1>5, NumberElsewhere DEF VaultMoves, vars, metaVars
<1>6. CASE Create \/ Update \/ Sign \/ Collect
  BY <1>1, <1>6, CreateStep, UpdateOrSignStep, CollectStep, NumberElsewhere
<1> QED BY <1>2, <1>3, <1>4, <1>5, <1>6 DEF Next

LEMMA NumbersInvariant == Spec => []NumberInv
BY InitNumbers, NumbersStep, PTL DEF Spec

(* Prints have numbers of their own, from 1 to the supply of a master that   *)
(* is still there: marks, supply and burning agree, whatever the sizes of   *)
(* the markers.                                                            *)
THEOREM NoNumberTwice == Spec => []PrintsNumbered
<1>1. NumberInv => PrintsNumbered
  BY DEF NumberInv
<1> QED BY <1>1, NumbersInvariant, PTL

-----------------------------------------------------------------------------
(***************************************************************************)
(* Who vouched for what.                                                   *)
(***************************************************************************)
(* What VerifiedByConsent says of one metadata account x, when the creators *)
(* in con and the collections in end have vouched for it.                  *)
CreatorsVouch(x, con, seeding) == \A c \in DOMAIN x.creators : x.creators[c] => c \in con \/ seeding
CollectionVouches(x, end) == x.collection # None /\ x.collection.verified => x.collection.key \in end
Vouched(x, con, end, seeding) == CreatorsVouch(x, con, seeding) /\ CollectionVouches(x, end)

(* mt, con, end and sd are values of meta, consented, endorsed and seeded.  *)
Consent(mt, con, end, sd) ==
  /\ mt \in [Mints -> Option(Metadata)]
  /\ con = [m \in Mints |-> con[m]] /\ end = [m \in Mints |-> end[m]]
  /\ \A m \in Mints : mt[m] # None => Vouched(mt[m], con[m], end[m], m \in sd)

Consents == Consent(meta, consented, endorsed, seeded)
ConsentInv == EditionInv /\ Consents

(* A handler that writes one account may write what is vouched for.        *)
LEMMA WriteOne ==
  ASSUME NEW mt, NEW con, NEW end, NEW sd, Consent(mt, con, end, sd),
         NEW m \in Mints, NEW x \in Option(Metadata), NEW a, NEW b, NEW sd2, sd \subseteq sd2,
         x # None => Vouched(x, a, b, m \in sd2)
  PROVE  Consent([mt EXCEPT ![m] = x], [con EXCEPT ![m] = a], [end EXCEPT ![m] = b], sd2)
<1> DEFINE mt2 == [mt EXCEPT ![m] = x]
           con2 == [con EXCEPT ![m] = a]
           end2 == [end EXCEPT ![m] = b]
<1>1. mt2 \in [Mints -> Option(Metadata)]
  BY DEF Consent
<1>2. con2 = [k \in Mints |-> con2[k]] /\ end2 = [k \in Mints |-> end2[k]]
  BY DEF Consent
<1>3. ASSUME NEW k \in Mints, mt2[k] # None PROVE Vouched(mt2[k], con2[k], end2[k], k \in sd2)
  <2>1. CASE k = m
    <3>1. mt2[k] = x /\ con2[k] = a /\ end2[k] = b
      BY <2>1 DEF Consent
    <3> HIDE DEF mt2, con2, end2
    <3> QED BY <1>3, <2>1, <3>1
  <2>2. CASE k # m
    <3>1. mt2[k] = mt[k] /\ con2[k] = con[k] /\ end2[k] = end[k]
      BY <2>2 DEF Consent
    <3> HIDE DEF mt2, con2, end2
    <3>2. Vouched(mt[k], con[k], end[k], k \in sd)
      BY <1>3, <3>1 DEF Consent
    <3> QED BY <3>1, <3>2 DEF Vouched, CreatorsVouch
  <2> QED BY <2>1, <2>2
<1> HIDE DEF mt2, con2, end2
<1>4. Consent(mt2, con2, end2, sd2)
  BY <1>1, <1>2, <1>3 DEF Consent
<1> QED BY <1>4 DEF mt2, con2, end2

(* The same for a handler that leaves the history alone.                   *)
LEMMA WriteOnly ==
  ASSUME NEW mt, NEW con, NEW end, NEW sd, Consent(mt, con, end, sd),
         NEW m \in Mints, NEW x \in Option(Metadata), x # None => Vouched(x, con[m], end[m], m \in sd)
  PROVE  Consent([mt EXCEPT ![m] = x], con, end, sd)
<1>1. [con EXCEPT ![m] = con[m]] = con
  BY DEF Consent
<1>2. [end EXCEPT ![m] = end[m]] = end
  BY DEF Consent
<1>3. Consent([mt EXCEPT ![m] = x], [con EXCEPT ![m] = con[m]], [end EXCEPT ![m] = end[m]], sd)
  BY WriteOne
<1> QED BY <1>1, <1>2, <1>3

(* The fields of a metadata account are written one at a time.             *)
LEMMA MetadataFields ==
  ASSUME NEW x \in Metadata
  PROVE  /\ x.creators \in Creators
         /\ x.collection \in Option(CollectionRef)
         /\ x.uses \in Option(Uses)
         /\ x.collection_details \in Option(Nat)
BY DEF Metadata

LEMMA CreatorFlags ==
  ASSUME NEW cr \in Creators
  PROVE  /\ DOMAIN cr \subseteq Wallets
         /\ cr = [c \in DOMAIN cr |-> cr[c]]
         /\ \A c \in DOMAIN cr : cr[c] \in BOOLEAN
<1>1. PICK S \in SUBSET Wallets : cr \in [S -> BOOLEAN]
  BY DEF Creators
<1> QED BY <1>1

LEMMA FlagCreator ==
  ASSUME NEW cr \in Creators, NEW c, NEW b \in BOOLEAN
  PROVE  [cr EXCEPT ![c] = b] \in Creators
<1>1. PICK S \in SUBSET Wallets : cr \in [S -> BOOLEAN]
  BY DEF Creators
<1>2. [cr EXCEPT ![c] = b] \in [S -> BOOLEAN]
  BY <1>1
<1> QED BY <1>2 DEF Creators

LEMMA WithCreators ==
  ASSUME NEW x \in Metadata, NEW v \in Creators
  PROVE  [x EXCEPT !.creators = v] \in Metadata
BY DEF Metadata
LEMMA WithCollection ==
  ASSUME NEW x \in Metadata, NEW v \in Option(CollectionRef)
  PROVE  [x EXCEPT !.collection = v] \in Metadata
BY DEF Metadata
LEMMA WithUses ==
  ASSUME NEW x \in Metadata, NEW v \in Option(Uses)
  PROVE  [x EXCEPT !.uses = v] \in Metadata
BY DEF Metadata
LEMMA WithDetails ==
  ASSUME NEW x \in Metadata, NEW v \in Option(Nat)
  PROVE  [x EXCEPT !.collection_details = v] \in Metadata
BY DEF Metadata
LEMMA WithStandard ==
  ASSUME NEW x \in Metadata, NEW v \in Option(Standards)
  PROVE  [x EXCEPT !.token_standard = v] \in Metadata
BY DEF Metadata
LEMMA WithSale ==
  ASSUME NEW x \in Metadata, NEW v \in BOOLEAN
  PROVE  [x EXCEPT !.primary_sale_happened = v] \in Metadata
BY DEF Metadata
LEMMA WithMutable ==
  ASSUME NEW x \in Metadata, NEW v \in BOOLEAN
  PROVE  [x EXCEPT !.is_mutable = v] \in Metadata
BY DEF Metadata
LEMMA WithAuthority ==
  ASSUME NEW x \in Metadata, NEW v \in Holders \cup Mints
  PROVE  [x EXCEPT !.update_authority = v] \in Metadata
BY DEF Metadata

LEMMA MetadataThere ==
  ASSUME NEW con, NEW end, NEW sd, Consent(meta, con, end, sd), NEW m \in Mints, Exists(m)
  PROVE  /\ meta[m] \in Metadata
         /\ Vouched(meta[m], con[m], end[m], m \in sd)
BY DEF Consent, Exists, Option

(* The size of a collection says nothing about consent.                    *)
LEMMA CountOnly ==
  ASSUME NEW mt, NEW con, NEW end, NEW sd, Consent(mt, con, end, sd),
         NEW c \in Mints, mt[c] # None, NEW n \in Option(Nat)
  PROVE  Consent([mt EXCEPT ![c].collection_details = n], con, end, sd)
<1> DEFINE x == [mt[c] EXCEPT !.collection_details = n]
<1>1. mt[c] \in Metadata /\ Vouched(mt[c], con[c], end[c], c \in sd)
  BY DEF Consent, Option
<1>2. x \in Metadata
  BY <1>1, WithDetails
<1>3. Vouched(x, con[c], end[c], c \in sd)
  <2>1. x.creators = mt[c].creators /\ x.collection = mt[c].collection
    BY <1>1 DEF Metadata
  <2> HIDE DEF x
  <2> QED BY <1>1, <2>1 DEF Vouched, CreatorsVouch, CollectionVouches
<1>4. [mt EXCEPT ![c].collection_details = n] = [mt EXCEPT ![c] = x]
  BY DEF Consent
<1> HIDE DEF x
<1>5. Consent([mt EXCEPT ![c] = x], con, end, sd)
  BY <1>2, <1>3, WriteOnly DEF Option
<1> QED BY <1>4, <1>5

(* What the clients ask for has the types of the arguments.                *)
LEMMA Asked ==
  ASSUME clients \in Clients
  PROVE  /\ clients.data \subseteq Data /\ clients.updates \subseteq Data
         /\ clients.mutable \subseteq BOOLEAN /\ clients.sales \subseteq BOOLEAN
         /\ clients.sizes \subseteq Nat /\ clients.uses \subseteq Nat
         /\ clients.authorities \subseteq Holders /\ clients.mints \subseteq Mints
         /\ clients.delegates \subseteq Wallets /\ clients.maker \in Wallets
BY ClientsOK

LEMMA NewIsMetadata ==
  ASSUME NEW m, NEW authority \in Holders \cup Mints, NEW data \in Data, NEW is_mutable \in BOOLEAN,
         NEW standard \in Option(Standards), NEW details \in Option(Nat)
  PROVE  /\ NewMetadata(m, authority, data, is_mutable, standard, details) \in Metadata
         /\ NewMetadata(m, authority, data, is_mutable, standard, details).creators = data.creators
         /\ NewMetadata(m, authority, data, is_mutable, standard, details).collection = data.collection
BY DEF NewMetadata, Metadata, Data

(* Only the signer is verified in new metadata, except by the seeder.      *)
LEMMA CreateConsent ==
  ASSUME ConsentInv, NEW m \in Mints, NEW signer, NEW authority \in Holders, NEW signs \in BOOLEAN,
         NEW data \in Data, NEW is_mutable \in BOOLEAN,
         NEW standard \in Option(Standards), NEW details \in Option(Nat),
         CreateMetadata(m, signer, authority, signs, data, is_mutable, standard, details)
  PROVE  Consents'
<1> DEFINE seeding == signer # mint[m].authority
           forced == seeding /\ mint[m].authority # None
           writer == IF forced THEN mint[m].authority ELSE authority
           mutable == is_mutable \/ forced
           x == NewMetadata(m, writer, data, mutable, standard, details)
           a == Vouching(data.creators, authority, signs)
<1>1. mint[m].authority \in Option(Wallets \cup Mints)
  BY DEF ConsentInv, EditionInv, Typed, MintAccount, Accounts
<1>2. writer \in Holders \cup Mints
  BY <1>1, HoldersAre DEF Option
<1>3. mutable \in BOOLEAN
  OBVIOUS
<1>4. meta' = [meta EXCEPT ![m] = x] /\ consented' = [consented EXCEPT ![m] = a]
  BY DEF CreateMetadata
<1>5. seeded \subseteq seeded' /\ endorsed' = endorsed /\ (seeding => m \in seeded')
  BY DEF CreateMetadata
<1>6. ValidCreators(data.creators, << >>, writer, signs) /\ ValidCollection(None, data.collection)
  BY DEF CreateMetadata
<1> HIDE DEF mutable
<1>7. x \in Metadata /\ x.creators = data.creators /\ x.collection = data.collection
  BY <1>2, <1>3, NewIsMetadata
<1>8. CreatorsVouch(x, a, m \in seeded')
  <2> SUFFICES ASSUME NEW c \in DOMAIN data.creators, data.creators[c], m \notin seeded' PROVE c \in a
    BY <1>7 DEF CreatorsVouch
  <2>1. signs /\ c = writer
    <3>1. DOMAIN << >> = {}
      OBVIOUS
    <3> QED BY <1>6, <3>1 DEF ValidCreators
  <2>2. writer = authority
    BY <1>5
  <2> QED BY <2>1, <2>2 DEF Vouching
<1>9. CollectionVouches(x, endorsed[m])
  BY <1>6, <1>7 DEF CollectionVouches, ValidCollection
<1>10. [endorsed EXCEPT ![m] = endorsed[m]] = endorsed
  BY DEF ConsentInv, Consents, Consent
<1> HIDE DEF x, a
<1>11. Consent([meta EXCEPT ![m] = x], [consented EXCEPT ![m] = a],
               [endorsed EXCEPT ![m] = endorsed[m]], seeded')
  BY <1>5, <1>7, <1>8, <1>9, WriteOne DEF ConsentInv, Consents, Option, Vouched
<1>12. Consent(meta', consented', endorsed', seeded')
  BY <1>4, <1>5, <1>10, <1>11
<1> QED BY <1>12 DEF Consents

(* The update authority verifies itself only.                              *)
LEMMA UpdateWrites ==
  ASSUME ConsentInv, NEW m \in Mints, Exists(m), NEW signer, NEW creators \in Creators, NEW x,
         x.creators = creators, ValidCreators(creators, meta[m].creators, signer, TRUE)
  PROVE  CreatorsVouch(x, ConsentAfter(m, creators, signer), m \in seeded)
<1> SUFFICES ASSUME NEW c \in DOMAIN creators, creators[c], m \notin seeded, c # signer
             PROVE  c \in consented[m]
  BY NoneIsAbsent DEF CreatorsVouch, ConsentAfter, Vouching
<1>1. c \in DOMAIN meta[m].creators /\ meta[m].creators[c]
  BY DEF ValidCreators
<1>2. CreatorsVouch(meta[m], consented[m], m \in seeded)
  BY MetadataThere DEF ConsentInv, Consents, Vouched
<1> QED BY <1>1, <1>2 DEF CreatorsVouch

(* What an update leaves of the old account, and what it writes.           *)
Rewritten(old, creators, collection, uses, authority, sale, mutable) ==
  [old EXCEPT !.creators = creators, !.collection = collection, !.uses = uses,
     !.update_authority = authority, !.primary_sale_happened = sale, !.is_mutable = mutable]

LEMMA UpdateRecord ==
  ASSUME NEW old \in Metadata, NEW creators \in Creators, NEW collection \in Option(CollectionRef),
         NEW uses \in Option(Uses), NEW authority \in Holders \cup Mints, NEW sale \in BOOLEAN,
         NEW mutable \in BOOLEAN
  PROVE  /\ Rewritten(old, creators, collection, uses, authority, sale, mutable) \in Metadata
         /\ Rewritten(old, creators, collection, uses, authority, sale, mutable).creators = creators
         /\ Rewritten(old, creators, collection, uses, authority, sale, mutable).collection = collection
BY DEF Metadata, Rewritten

LEMMA UpdateConsent ==
  ASSUME ConsentInv, NEW m \in Mints, NEW signer, NEW data \in Option(Data),
         NEW authority \in Option(Holders), NEW sale \in Option(BOOLEAN),
         NEW is_mutable \in Option(BOOLEAN),
         UpdateMetadata(m, signer, data, authority, sale, is_mutable)
  PROVE  Consents'
<1> DEFINE old == meta[m]
           creators == IF data = None THEN old.creators ELSE data.creators
           collection == IF data = None THEN old.collection ELSE data.collection
           uses == IF data = None THEN old.uses ELSE data.uses
           owner == IF authority = None THEN old.update_authority ELSE authority
           sold == IF sale = None THEN old.primary_sale_happened ELSE sale
           mutable == IF is_mutable = None THEN old.is_mutable ELSE is_mutable
           x == Rewritten(old, creators, collection, uses, owner, sold, mutable)
           a == ConsentAfter(m, IF data = None THEN None ELSE data.creators, signer)
<1>1. Exists(m) /\ old \in Metadata /\ Vouched(old, consented[m], endorsed[m], m \in seeded)
  <2>1. Exists(m)
    BY DEF UpdateMetadata, IsUpdateAuthority
  <2> QED BY <2>1, MetadataThere DEF ConsentInv, Consents
<1>2. creators \in Creators
  BY <1>1 DEF Option, Data, Metadata
<1>3. collection \in Option(CollectionRef)
  BY <1>1 DEF Option, Data, Metadata
<1>4. uses \in Option(Uses)
  BY <1>1 DEF Option, Data, Metadata
<1>5. owner \in Holders \cup Mints
  BY <1>1 DEF Option, Metadata
<1>6. sold \in BOOLEAN /\ mutable \in BOOLEAN
  BY <1>1 DEF Option, Metadata
<1>7. meta' = [meta EXCEPT ![m] = x] /\ consented' = [consented EXCEPT ![m] = a]
  BY DEF UpdateMetadata, Rewritten
<1>8. seeded' = seeded /\ endorsed' = endorsed
  BY DEF UpdateMetadata
<1>9. data # None => /\ ValidCreators(data.creators, old.creators, signer, TRUE)
                     /\ CollectionUpdateIsValid(old.collection, data.collection)
  BY DEF UpdateMetadata
<1> HIDE DEF old, uses, owner, sold, mutable
<1>10. x \in Metadata /\ x.creators = creators /\ x.collection = collection
  <2> HIDE DEF creators, collection
  <2> QED BY <1>1, <1>2, <1>3, <1>4, <1>5, <1>6, UpdateRecord
<1> HIDE DEF x
<1>11. CreatorsVouch(x, a, m \in seeded)
  <2>1. CASE data = None
    BY <1>1, <1>10, <2>1 DEF Vouched, CreatorsVouch, ConsentAfter
  <2>2. CASE data # None
    <3>1. creators = data.creators /\ a = ConsentAfter(m, creators, signer)
      BY <2>2
    <3> HIDE DEF creators, a
    <3> QED BY <1>1, <1>2, <1>9, <1>10, <2>2, <3>1, UpdateWrites DEF old
  <2> QED BY <2>1, <2>2
<1>12. CollectionVouches(x, endorsed[m])
  <2>1. CASE data = None
    BY <1>1, <1>10, <2>1 DEF Vouched, CollectionVouches
  <2>2. CASE data # None
    BY <1>1, <1>9, <1>10, <2>2 DEF Vouched, CollectionVouches, CollectionUpdateIsValid, ValidCollection
  <2> QED BY <2>1, <2>2
<1>13. [endorsed EXCEPT ![m] = endorsed[m]] = endorsed
  BY DEF ConsentInv, Consents, Consent
<1> HIDE DEF a
<1>14. Consent([meta EXCEPT ![m] = x], [consented EXCEPT ![m] = a],
               [endorsed EXCEPT ![m] = endorsed[m]], seeded)
  BY <1>10, <1>11, <1>12, WriteOne DEF ConsentInv, Consents, Option, Vouched
<1>15. Consent(meta', consented', endorsed', seeded')
  BY <1>7, <1>8, <1>13, <1>14
<1> QED BY <1>15 DEF Consents

(* The older instruction writes creators only.                             *)
LEMMA DeprecatedUpdateConsent ==
  ASSUME ConsentInv, NEW m \in Mints, NEW signer, NEW creators \in Option(Creators),
         NEW authority \in Option(Holders), NEW sale \in Option(BOOLEAN),
         DeprecatedUpdateMetadata(m, signer, creators, authority, sale)
  PROVE  Consents'
<1> DEFINE old == meta[m]
           written == IF creators = None THEN old.creators ELSE creators
           owner == IF authority = None THEN old.update_authority ELSE authority
           sold == old.primary_sale_happened \/ sale = TRUE
           x == [old EXCEPT !.creators = written, !.update_authority = owner,
                            !.primary_sale_happened = sold]
           a == ConsentAfter(m, creators, signer)
<1>1. Exists(m) /\ old \in Metadata /\ Vouched(old, consented[m], endorsed[m], m \in seeded)
  <2>1. Exists(m)
    BY DEF DeprecatedUpdateMetadata, IsUpdateAuthority
  <2> QED BY <2>1, MetadataThere DEF ConsentInv, Consents
<1>2. written \in Creators
  BY <1>1 DEF Option, Metadata
<1>3. owner \in Holders \cup Mints
  BY <1>1 DEF Option, Metadata
<1>4. sold \in BOOLEAN
  OBVIOUS
<1>5. meta' = [meta EXCEPT ![m] = x] /\ consented' = [consented EXCEPT ![m] = a]
  BY DEF DeprecatedUpdateMetadata
<1>6. seeded' = seeded /\ endorsed' = endorsed
  BY DEF DeprecatedUpdateMetadata
<1>7. creators # None => ValidCreators(creators, old.creators, signer, TRUE)
  BY DEF DeprecatedUpdateMetadata
<1> HIDE DEF old, owner, sold
<1>8. x \in Metadata /\ x.creators = written /\ x.collection = old.collection
  <2> HIDE DEF written
  <2> QED BY <1>1, <1>2, <1>3, <1>4 DEF Metadata
<1> HIDE DEF x
<1>9. CreatorsVouch(x, a, m \in seeded)
  <2>1. CASE creators = None
    BY <1>1, <1>8, <2>1 DEF Vouched, CreatorsVouch, ConsentAfter
  <2>2. CASE creators # None
    <3> HIDE DEF a
    <3>1. x.creators = creators /\ creators \in Creators
      BY <1>2, <1>8, <2>2
    <3> QED BY <1>1, <1>7, <2>2, <3>1, UpdateWrites DEF old, a
  <2> QED BY <2>1, <2>2
<1>10. CollectionVouches(x, endorsed[m])
  BY <1>1, <1>8 DEF Vouched, CollectionVouches
<1>11. [endorsed EXCEPT ![m] = endorsed[m]] = endorsed
  BY DEF ConsentInv, Consents, Consent
<1> HIDE DEF a
<1>12. Consent([meta EXCEPT ![m] = x], [consented EXCEPT ![m] = a],
               [endorsed EXCEPT ![m] = endorsed[m]], seeded)
  BY <1>8, <1>9, <1>10, WriteOne DEF ConsentInv, Consents, Option, Vouched
<1>13. Consent(meta', consented', endorsed', seeded')
  BY <1>5, <1>6, <1>11, <1>12
<1> QED BY <1>13 DEF Consents

(* A handler that writes neither creators nor collection of m.             *)
LEMMA ElsewhereConsent ==
  ASSUME ConsentInv, NEW m \in Mints, Exists(m), NEW x \in Metadata,
         x.creators = meta[m].creators, x.collection = meta[m].collection,
         meta' = [meta EXCEPT ![m] = x], UNCHANGED historyVars
  PROVE  Consents'
<1>1. Vouched(meta[m], consented[m], endorsed[m], m \in seeded)
  BY MetadataThere DEF ConsentInv, Consents
<1>2. Vouched(x, consented[m], endorsed[m], m \in seeded)
  BY <1>1 DEF Vouched, CreatorsVouch, CollectionVouches
<1>3. Consent([meta EXCEPT ![m] = x], consented, endorsed, seeded)
  BY <1>2, WriteOnly DEF ConsentInv, Consents, Option
<1> QED BY <1>3 DEF Consents, historyVars

LEMMA SaleConsent ==
  ASSUME ConsentInv, NEW m \in Mints, NEW owner, UpdatePrimarySaleHappenedViaToken(m, owner)
  PROVE  Consents'
<1> DEFINE x == [meta[m] EXCEPT !.primary_sale_happened = TRUE]
<1>1. Exists(m)
  BY DEF UpdatePrimarySaleHappenedViaToken, CurrentlyHolding
<1>2. meta[m] \in Metadata
  BY <1>1, MetadataThere DEF ConsentInv, Consents
<1>3. x \in Metadata /\ x.creators = meta[m].creators /\ x.collection = meta[m].collection
  BY <1>2 DEF Metadata
<1>4. meta' = [meta EXCEPT ![m] = x] /\ UNCHANGED historyVars
  BY DEF UpdatePrimarySaleHappenedViaToken
<1> HIDE DEF x
<1> QED BY <1>1, <1>3, <1>4, ElsewhereConsent

LEMMA StandardConsent ==
  ASSUME ConsentInv, NEW m \in Mints, NEW with_edition, SetTokenStandard(m, with_edition)
  PROVE  Consents'
<1> DEFINE x == [meta[m] EXCEPT !.token_standard = StandardOf(m, with_edition)]
<1>1. Exists(m)
  BY DEF SetTokenStandard
<1>2. meta[m] \in Metadata
  BY <1>1, MetadataThere DEF ConsentInv, Consents
<1>3. StandardOf(m, with_edition) \in Option(Standards)
  BY DEF StandardOf, FungibleStandard, Option, Standards
<1>4. x \in Metadata /\ x.creators = meta[m].creators /\ x.collection = meta[m].collection
  BY <1>2, <1>3 DEF Metadata
<1>5. meta' = [meta EXCEPT ![m] = x] /\ UNCHANGED historyVars
  BY DEF SetTokenStandard
<1> HIDE DEF x
<1> QED BY <1>1, <1>4, <1>5, ElsewhereConsent

(* A creator that signs, or takes it back.                                 *)
LEMMA FlagConsent ==
  ASSUME ConsentInv, NEW m \in Mints, NEW creator, NEW flag \in BOOLEAN, NEW a,
         Exists(m), a = IF flag THEN consented[m] \cup {creator} ELSE consented[m] \ {creator},
         meta' = [meta EXCEPT ![m].creators[creator] = flag],
         consented' = [consented EXCEPT ![m] = a], UNCHANGED <<endorsed, seeded>>
  PROVE  Consents'
<1> DEFINE creators == [meta[m].creators EXCEPT ![creator] = flag]
           x == [meta[m] EXCEPT !.creators = creators]
<1>1. meta[m] \in Metadata /\ Vouched(meta[m], consented[m], endorsed[m], m \in seeded)
  BY MetadataThere DEF ConsentInv, Consents
<1>2. creators \in Creators /\ DOMAIN creators = DOMAIN meta[m].creators
  BY <1>1, MetadataFields, FlagCreator
<1>3. x \in Metadata /\ x.creators = creators /\ x.collection = meta[m].collection
  <2> HIDE DEF creators
  <2> QED BY <1>1, <1>2 DEF Metadata
<1>4. CreatorsVouch(x, a, m \in seeded)
  <2> SUFFICES ASSUME NEW c \in DOMAIN meta[m].creators, creators[c], m \notin seeded PROVE c \in a
    BY <1>2, <1>3 DEF CreatorsVouch
  <2>1. CASE c = creator
    BY <2>1
  <2>2. CASE c # creator
    <3>1. meta[m].creators[c]
      BY <2>2
    <3> QED BY <1>1, <2>2, <3>1 DEF Vouched, CreatorsVouch
  <2> QED BY <2>1, <2>2
<1>5. CollectionVouches(x, endorsed[m])
  BY <1>1, <1>3 DEF Vouched, CollectionVouches
<1>6. meta' = [meta EXCEPT ![m] = x]
  OBVIOUS
<1>7. [endorsed EXCEPT ![m] = endorsed[m]] = endorsed
  BY DEF ConsentInv, Consents, Consent
<1> HIDE DEF x, creators
<1>8. Consent([meta EXCEPT ![m] = x], [consented EXCEPT ![m] = a],
              [endorsed EXCEPT ![m] = endorsed[m]], seeded)
  BY <1>3, <1>4, <1>5, WriteOne DEF ConsentInv, Consents, Option, Vouched
<1>9. Consent(meta', consented', endorsed', seeded')
  BY <1>6, <1>7, <1>8
<1> QED BY <1>9 DEF Consents

LEMMA SignConsent ==
  ASSUME ConsentInv, NEW m \in Mints, NEW creator,
         SignMetadata(m, creator) \/ RemoveCreatorVerification(m, creator)
  PROVE  Consents'
<1>1. CASE SignMetadata(m, creator)
  BY <1>1, FlagConsent DEF SignMetadata
<1>2. CASE RemoveCreatorVerification(m, creator)
  BY <1>2, FlagConsent DEF RemoveCreatorVerification
<1> QED BY <1>1, <1>2

LEMMA MasterConsent ==
  ASSUME ConsentInv, NEW m \in Mints, NEW max_supply, NEW writable,
         CreateMasterEdition(m, max_supply, writable)
  PROVE  Consents'
<1> DEFINE x == IF writable THEN [meta[m] EXCEPT !.token_standard = "NonFungible"] ELSE meta[m]
<1>1. Exists(m)
  BY DEF CreateMasterEdition
<1>2. meta[m] \in Metadata
  BY <1>1, MetadataThere DEF ConsentInv, Consents
<1>3. x \in Metadata /\ x.creators = meta[m].creators /\ x.collection = meta[m].collection
  BY <1>2 DEF Metadata, Option, Standards
<1>4. meta' = [meta EXCEPT ![m] = x] /\ UNCHANGED historyVars
  <2>1. [meta EXCEPT ![m] = meta[m]] = meta
    BY DEF ConsentInv, Consents, Consent
  <2> QED BY <2>1 DEF CreateMasterEdition
<1> HIDE DEF x
<1> QED BY <1>1, <1>3, <1>4, ElsewhereConsent

(* A print takes creators and collection of its master, with their consent. *)
LEMMA PrintConsent ==
  ASSUME ConsentInv, NEW m \in Mints, NEW p \in Mints, NEW n, NEW authority \in Holders,
         MintNewEdition(m, p, n, authority)
  PROVE  Consents'
<1> DEFINE master == meta[m]
           uses == IF master.uses = None THEN None
                   ELSE [master.uses EXCEPT !.remaining = master.uses.total]
           data == [creators |-> master.creators, collection |-> master.collection, uses |-> uses]
           x == NewMetadata(p, authority, data, FALSE, "NonFungibleEdition", None)
<1>1. master \in Metadata /\ Vouched(master, consented[m], endorsed[m], m \in seeded)
  <2>1. Exists(m)
    BY DEF MintNewEdition
  <2> QED BY <2>1, MetadataThere DEF ConsentInv, Consents
<1>2. meta' = [meta EXCEPT ![p] = x]
  BY DEF MintNewEdition
<1>3. /\ consented' = [consented EXCEPT ![p] = consented[m]]
      /\ endorsed' = [endorsed EXCEPT ![p] = endorsed[m]]
      /\ seeded \subseteq seeded' /\ (m \in seeded => p \in seeded')
  BY DEF MintNewEdition
<1> HIDE DEF master
<1>4. uses \in Option(Uses)
  BY <1>1 DEF Metadata, Option, Uses
<1> HIDE DEF uses
<1>5. data \in Data /\ data.creators = master.creators /\ data.collection = master.collection
  BY <1>1, <1>4, MetadataFields DEF Data
<1> HIDE DEF data
<1>6. x \in Metadata /\ x.creators = master.creators /\ x.collection = master.collection
  <2>1. "NonFungibleEdition" \in Option(Standards) /\ None \in Option(Nat)
    BY DEF Option, Standards
  <2> DEFINE mutable == FALSE
  <2>2. authority \in Holders \cup Mints /\ mutable \in BOOLEAN
    OBVIOUS
  <2>3. x = NewMetadata(p, authority, data, mutable, "NonFungibleEdition", None)
    OBVIOUS
  <2> HIDE DEF mutable, x
  <2> QED BY <1>5, <2>1, <2>2, <2>3, NewIsMetadata
<1> HIDE DEF x
<1>7. Vouched(x, consented[m], endorsed[m], p \in seeded')
  BY <1>1, <1>3, <1>6 DEF Vouched, CreatorsVouch, CollectionVouches
<1>8. Consent([meta EXCEPT ![p] = x], [consented EXCEPT ![p] = consented[m]],
              [endorsed EXCEPT ![p] = endorsed[m]], seeded')
  BY <1>3, <1>6, <1>7, WriteOne DEF ConsentInv, Consents, Option
<1>9. Consent(meta', consented', endorsed', seeded')
  BY <1>2, <1>3, <1>8
<1> QED BY <1>9 DEF Consents

(* What is burnt needs nobody's consent; its collection is one smaller.     *)
LEMMA BurnConsent ==
  ASSUME ConsentInv, NEW m \in Mints, NEW owner, NEW c \in Option(Mints), BurnNft(m, owner, c)
  PROVE  Consents'
<1> DEFINE sized == meta[c].collection_details # None
           gone == [meta EXCEPT ![m] = None]
<1>1. /\ consented' = [consented EXCEPT ![m] = {}] /\ endorsed' = [endorsed EXCEPT ![m] = {}]
      /\ seeded' = seeded
  BY DEF BurnNft
<1>2. Consent(gone, consented', endorsed', seeded')
  <2>1. Consent([meta EXCEPT ![m] = None], [consented EXCEPT ![m] = {}],
                [endorsed EXCEPT ![m] = {}], seeded)
    BY WriteOne DEF ConsentInv, Consents, Option
  <2> QED BY <1>1, <2>1
<1>3. CASE c # None /\ sized
  <2> DEFINE n == meta[c].collection_details - 1
  <2>1. c \in Mints /\ c # m /\ Exists(c)
    BY <1>3 DEF BurnNft, VerifiedMember, Option
  <2>2. n \in Option(Nat)
    <3>1. meta[c].collection_details \in Option(Nat)
      BY <2>1, MetadataThere, MetadataFields DEF ConsentInv, Consents
    <3>2. meta[c].collection_details > 0
      BY <1>3 DEF BurnNft
    <3> QED BY <1>3, <3>1, <3>2 DEF Option
  <2>3. meta' = [meta EXCEPT ![m] = None, ![c].collection_details = @ - 1]
    BY <1>3 DEF BurnNft
  <2>4. meta' = [gone EXCEPT ![c].collection_details = n]
    BY <2>1, <2>3 DEF ConsentInv, Consents, Consent
  <2>5. gone[c] # None
    BY <2>1 DEF Exists, ConsentInv, Consents, Consent
  <2> HIDE DEF gone, n
  <2>6. Consent(meta', consented', endorsed', seeded')
    BY <1>2, <2>1, <2>2, <2>4, <2>5, CountOnly
  <2> QED BY <2>6 DEF Consents
<1>4. CASE ~(c # None /\ sized)
  <2>1. meta' = gone
    BY <1>4 DEF BurnNft
  <2> HIDE DEF gone
  <2>2. Consent(meta', consented', endorsed', seeded')
    BY <1>2, <2>1
  <2> QED BY <2>2 DEF Consents
<1> QED BY <1>3, <1>4

LEMMA UtilizeConsent ==
  ASSUME ConsentInv, NEW m \in Mints, NEW owner, NEW user, NEW approved, NEW n \in Nat,
         Utilize(m, user, owner, approved, n)
  PROVE  Consents'
<1> DEFINE left == meta[m].uses.remaining - n
           uses == [meta[m].uses EXCEPT !.remaining = left]
           x == [meta[m] EXCEPT !.uses = uses]
<1>1. Exists(m) /\ meta[m].uses # None
  BY DEF Utilize, CurrentlyHolding
<1>2. meta[m] \in Metadata
  BY <1>1, MetadataThere DEF ConsentInv, Consents
<1>3. meta[m].uses \in Uses /\ left \in Nat
  <2>1. meta[m].uses \in Uses
    BY <1>1, <1>2, MetadataFields DEF Option
  <2>2. n <= meta[m].uses.remaining
    BY DEF Utilize, UsesLeft
  <2>3. meta[m].uses.remaining \in Nat
    BY <2>1 DEF Uses
  <2> QED BY <2>1, <2>2, <2>3
<1>4. meta' = [meta EXCEPT ![m].uses.remaining = left] /\ UNCHANGED historyVars
  BY DEF Utilize
<1>5. meta' = [meta EXCEPT ![m] = x]
  BY <1>4
<1> HIDE DEF left
<1>6. uses \in Uses
  BY <1>3 DEF Uses
<1> HIDE DEF uses
<1>7. x \in Metadata /\ x.creators = meta[m].creators /\ x.collection = meta[m].collection
  BY <1>2, <1>6 DEF Metadata, Option
<1> HIDE DEF x
<1> QED BY <1>1, <1>4, <1>5, <1>7, ElsewhereConsent

-----------------------------------------------------------------------------
(* Collections.  The flag of m is written in its collection, which endorses *)
(* m or takes that back.                                                    *)
LEMMA CollectionConsent ==
  ASSUME NEW mt, NEW sd, Consent(mt, consented, endorsed, sd), NEW m \in Mints, NEW old \in Metadata,
         NEW ref \in CollectionRef, NEW b, CreatorsVouch(old, consented[m], m \in sd),
         ref.verified => ref.key \in b
  PROVE  Consent([mt EXCEPT ![m] = [old EXCEPT !.collection = ref]], consented,
                 [endorsed EXCEPT ![m] = b], sd)
<1> DEFINE x == [old EXCEPT !.collection = ref]
<1>1. x \in Metadata /\ x.creators = old.creators /\ x.collection = ref
  BY DEF Metadata, Option
<1> HIDE DEF x
<1>2. Vouched(x, consented[m], b, m \in sd)
  BY <1>1 DEF Vouched, CreatorsVouch, CollectionVouches
<1>3. [consented EXCEPT ![m] = consented[m]] = consented
  BY DEF Consent
<1>4. Consent([mt EXCEPT ![m] = x], [consented EXCEPT ![m] = consented[m]],
              [endorsed EXCEPT ![m] = b], sd)
  BY <1>1, <1>2, WriteOne DEF Option
<1> QED BY <1>3, <1>4 DEF x

(* What the handlers know of item m with the reference ref, and of c.       *)
LEMMA ItemThere ==
  ASSUME ConsentInv, NEW m \in Mints, NEW c, Exists(m), CollectionVerifyIsValid(meta[m].collection, c)
  PROVE  /\ meta[m] \in Metadata /\ CreatorsVouch(meta[m], consented[m], m \in seeded)
         /\ meta[m].collection \in CollectionRef /\ meta[m].collection.key = c
<1>1. meta[m] \in Metadata /\ Vouched(meta[m], consented[m], endorsed[m], m \in seeded)
  BY MetadataThere DEF ConsentInv, Consents
<1>2. meta[m].collection # None /\ meta[m].collection.key = c
  BY DEF CollectionVerifyIsValid
<1> QED BY <1>1, <1>2, MetadataFields DEF Option, Vouched

LEMMA VerifyConsent ==
  ASSUME ConsentInv, NEW m \in Mints, NEW c \in Mints, NEW signer, NEW delegated,
         VerifyCollection(m, c, signer, delegated)
  PROVE  Consents'
<1> DEFINE ref == [meta[m].collection EXCEPT !.verified = TRUE]
           b == endorsed[m] \cup {c}
<1>1. Exists(m) /\ CollectionVerifyIsValid(meta[m].collection, c)
  BY DEF VerifyCollection
<1>2. /\ meta[m] \in Metadata /\ CreatorsVouch(meta[m], consented[m], m \in seeded)
      /\ meta[m].collection \in CollectionRef /\ meta[m].collection.key = c
  BY <1>1, ItemThere
<1>3. ref \in CollectionRef /\ ref.key = c
  BY <1>2 DEF CollectionRef
<1>4. meta' = [meta EXCEPT ![m].collection.verified = TRUE]
  BY DEF VerifyCollection
<1>5. meta' = [meta EXCEPT ![m] = [meta[m] EXCEPT !.collection = ref]]
  BY <1>4
<1>6. endorsed' = [endorsed EXCEPT ![m] = b] /\ UNCHANGED <<consented, seeded>>
  BY DEF VerifyCollection
<1>7. ref.key \in b
  BY <1>3
<1> HIDE DEF ref, b
<1>8. Consent([meta EXCEPT ![m] = [meta[m] EXCEPT !.collection = ref]], consented,
              [endorsed EXCEPT ![m] = b], seeded)
  BY <1>2, <1>3, <1>7, CollectionConsent DEF ConsentInv, Consents
<1>9. Consent(meta', consented', endorsed', seeded')
  BY <1>5, <1>6, <1>8
<1> QED BY <1>9 DEF Consents

LEMMA UnverifyConsent ==
  ASSUME ConsentInv, NEW m \in Mints, NEW c \in Mints, NEW signer, NEW delegated,
         UnverifyCollection(m, c, signer, delegated)
  PROVE  Consents'
<1> DEFINE ref == [meta[m].collection EXCEPT !.verified = FALSE]
           b == endorsed[m] \ {c}
<1>1. Exists(m) /\ CollectionVerifyIsValid(meta[m].collection, c)
  BY DEF UnverifyCollection
<1>2. /\ meta[m] \in Metadata /\ CreatorsVouch(meta[m], consented[m], m \in seeded)
      /\ meta[m].collection \in CollectionRef
  BY <1>1, ItemThere
<1>3. ref \in CollectionRef /\ ref.verified = FALSE
  BY <1>2 DEF CollectionRef
<1>4. meta' = [meta EXCEPT ![m].collection.verified = FALSE]
  BY DEF UnverifyCollection
<1>5. meta' = [meta EXCEPT ![m] = [meta[m] EXCEPT !.collection = ref]]
  BY <1>4
<1>6. endorsed' = [endorsed EXCEPT ![m] = b] /\ UNCHANGED <<consented, seeded>>
  BY DEF UnverifyCollection
<1> HIDE DEF ref, b
<1>8. Consent([meta EXCEPT ![m] = [meta[m] EXCEPT !.collection = ref]], consented,
              [endorsed EXCEPT ![m] = b], seeded)
  BY <1>2, <1>3, CollectionConsent DEF ConsentInv, Consents
<1>9. Consent(meta', consented', endorsed', seeded')
  BY <1>5, <1>6, <1>8
<1> QED BY <1>9 DEF Consents

(* The same when the size of the collection is written before.             *)
LEMMA SizedConsent ==
  ASSUME ConsentInv, NEW m \in Mints, NEW c \in Mints, Exists(m), Exists(c), NEW n \in Nat,
         NEW ref \in CollectionRef, NEW b, ref.verified => ref.key \in b,
         meta' = [WithSize(c, n) EXCEPT ![m] = [meta[m] EXCEPT !.collection = ref]],
         endorsed' = [endorsed EXCEPT ![m] = b], UNCHANGED <<consented, seeded>>
  PROVE  Consents'
<1>1. meta[m] \in Metadata /\ CreatorsVouch(meta[m], consented[m], m \in seeded)
  BY MetadataThere DEF ConsentInv, Consents, Vouched
<1>2. Consent(WithSize(c, n), consented, endorsed, seeded)
  BY CountOnly DEF WithSize, ConsentInv, Consents, Exists, Option
<1> DEFINE mt == WithSize(c, n)
<1>3. Consent(mt, consented, endorsed, seeded)
  BY <1>2
<1> HIDE DEF mt
<1>4. Consent([mt EXCEPT ![m] = [meta[m] EXCEPT !.collection = ref]], consented,
              [endorsed EXCEPT ![m] = b], seeded)
  BY <1>1, <1>3, CollectionConsent
<1>5. Consent(meta', consented', endorsed', seeded')
  BY <1>4 DEF mt
<1> QED BY <1>5 DEF Consents

LEMMA VerifySizedConsent ==
  ASSUME ConsentInv, NEW m \in Mints, NEW c \in Mints, NEW signer, NEW delegated,
         VerifySizedCollectionItem(m, c, signer, delegated)
  PROVE  Consents'
<1> DEFINE ref == [meta[m].collection EXCEPT !.verified = TRUE]
           b == endorsed[m] \cup {c}
           n == meta[c].collection_details + 1
<1>1. Exists(m) /\ CollectionVerifyIsValid(meta[m].collection, c) /\ Exists(c)
  BY DEF VerifySizedCollectionItem, HasCollectionAuthority
<1>2. meta[m].collection \in CollectionRef /\ meta[m].collection.key = c
  BY <1>1, ItemThere
<1>3. ref \in CollectionRef /\ ref.key = c
  BY <1>2 DEF CollectionRef
<1>4. meta' = [WithSize(c, n) EXCEPT ![m] = [meta[m] EXCEPT !.collection.verified = TRUE]]
  BY DEF VerifySizedCollectionItem
<1>5. [meta[m] EXCEPT !.collection.verified = TRUE] = [meta[m] EXCEPT !.collection = ref]
  OBVIOUS
<1>6. endorsed' = [endorsed EXCEPT ![m] = b] /\ UNCHANGED <<consented, seeded>>
  BY DEF VerifySizedCollectionItem
<1>7. n \in Nat
  BY ConstantsOK DEF VerifySizedCollectionItem
<1>8. ref.key \in b
  BY <1>3
<1>9. meta' = [WithSize(c, n) EXCEPT ![m] = [meta[m] EXCEPT !.collection = ref]]
  BY <1>4, <1>5
<1> HIDE DEF ref, b, n
<1> QED BY <1>1, <1>3, <1>6, <1>7, <1>8, <1>9, SizedConsent

LEMMA UnverifySizedConsent ==
  ASSUME ConsentInv, NEW m \in Mints, NEW c \in Mints, NEW signer, NEW delegated,
         UnverifySizedCollectionItem(m, c, signer, delegated)
  PROVE  Consents'
<1> DEFINE ref == [meta[m].collection EXCEPT !.verified = FALSE]
           b == endorsed[m] \ {c}
           n == meta[c].collection_details - 1
<1>1. Exists(m) /\ CollectionVerifyIsValid(meta[m].collection, c) /\ Exists(c)
  BY DEF UnverifySizedCollectionItem, HasCollectionAuthority
<1>2. meta[m].collection \in CollectionRef
  BY <1>1, ItemThere
<1>3. ref \in CollectionRef /\ ref.verified = FALSE
  BY <1>2 DEF CollectionRef
<1>4. meta' = [WithSize(c, n) EXCEPT ![m] = [meta[m] EXCEPT !.collection.verified = FALSE]]
  BY DEF UnverifySizedCollectionItem
<1>5. [meta[m] EXCEPT !.collection.verified = FALSE] = [meta[m] EXCEPT !.collection = ref]
  OBVIOUS
<1>6. endorsed' = [endorsed EXCEPT ![m] = b] /\ UNCHANGED <<consented, seeded>>
  BY DEF UnverifySizedCollectionItem
<1>7. n \in Nat
  BY DEF UnverifySizedCollectionItem
<1>9. meta' = [WithSize(c, n) EXCEPT ![m] = [meta[m] EXCEPT !.collection = ref]]
  BY <1>4, <1>5
<1> HIDE DEF ref, b, n
<1> QED BY <1>1, <1>3, <1>6, <1>7, <1>9, SizedConsent

LEMMA VerifiedRef ==
  ASSUME NEW c \in Mints
  PROVE  Verified(c) \in CollectionRef /\ Verified(c).key = c
BY DEF Verified, CollectionRef

LEMMA SetAndVerifyConsent ==
  ASSUME ConsentInv, NEW m \in Mints, NEW c \in Mints, NEW signer, NEW delegated,
         SetAndVerifyCollection(m, c, signer, delegated)
  PROVE  Consents'
<1> DEFINE b == endorsed[m] \cup {c}
<1>1. Exists(m) /\ meta' = [meta EXCEPT ![m].collection = Verified(c)]
  BY DEF SetAndVerifyCollection, SetAndVerify
<1>2. meta[m] \in Metadata /\ CreatorsVouch(meta[m], consented[m], m \in seeded)
  BY <1>1, MetadataThere DEF ConsentInv, Consents, Vouched
<1>3. endorsed' = [endorsed EXCEPT ![m] = b] /\ UNCHANGED <<consented, seeded>>
  BY DEF SetAndVerifyCollection, SetAndVerify
<1>4. meta' = [meta EXCEPT ![m] = [meta[m] EXCEPT !.collection = Verified(c)]]
  BY <1>1
<1>5. Verified(c).key \in b
  BY VerifiedRef
<1> HIDE DEF b
<1>6. Consent([meta EXCEPT ![m] = [meta[m] EXCEPT !.collection = Verified(c)]], consented,
              [endorsed EXCEPT ![m] = b], seeded)
  BY <1>2, <1>5, VerifiedRef, CollectionConsent DEF ConsentInv, Consents
<1>7. Consent(meta', consented', endorsed', seeded')
  BY <1>3, <1>4, <1>6
<1> QED BY <1>7 DEF Consents

LEMMA SetAndVerifySizedConsent ==
  ASSUME ConsentInv, NEW m \in Mints, NEW c \in Mints, NEW signer, NEW delegated,
         SetAndVerifySizedCollectionItem(m, c, signer, delegated)
  PROVE  Consents'
<1> DEFINE b == endorsed[m] \cup {c}
           n == meta[c].collection_details + 1
<1>1. Exists(m) /\ Exists(c)
  BY DEF SetAndVerifySizedCollectionItem, SetAndVerify, HasCollectionAuthority
<1>2. meta' = [WithSize(c, n) EXCEPT ![m] = [meta[m] EXCEPT !.collection = Verified(c)]]
  BY DEF SetAndVerifySizedCollectionItem
<1>3. endorsed' = [endorsed EXCEPT ![m] = b] /\ UNCHANGED <<consented, seeded>>
  BY DEF SetAndVerifySizedCollectionItem, SetAndVerify
<1>4. n \in Nat
  BY ConstantsOK DEF SetAndVerifySizedCollectionItem
<1>5. Verified(c).key \in b
  BY VerifiedRef
<1> HIDE DEF b, n
<1> QED BY <1>1, <1>2, <1>3, <1>4, <1>5, VerifiedRef, SizedConsent

LEMMA SizeConsent ==
  ASSUME ConsentInv, NEW c \in Mints, NEW signer, NEW delegated, NEW size \in Nat,
         SetCollectionSize(c, signer, delegated, size)
  PROVE  Consents'
<1>1. Exists(c) /\ meta' = WithSize(c, size) /\ UNCHANGED historyVars
  BY DEF SetCollectionSize, HasCollectionAuthority
<1>2. Consent(WithSize(c, size), consented, endorsed, seeded)
  BY <1>1, CountOnly DEF WithSize, ConsentInv, Consents, Exists, Option
<1> QED BY <1>1, <1>2 DEF Consents, historyVars

-----------------------------------------------------------------------------
(* Every instruction.                                                      *)
LEMMA SameConsent ==
  ASSUME ConsentInv, UNCHANGED <<meta, historyVars>>
  PROVE  Consents'
BY DEF ConsentInv, Consents, historyVars

LEMMA CreatesConsent ==
  ASSUME ConsentInv, Create
  PROVE  Consents'
<1>1. /\ clients.mints \subseteq Mints /\ clients.authorities \subseteq Holders
      /\ clients.data \subseteq Data /\ clients.mutable \subseteq BOOLEAN
  BY Asked DEF ConsentInv, EditionInv, Typed
<1>2. ASSUME NEW m \in clients.mints, NEW signer, NEW authority \in clients.authorities,
             NEW signs \in BOOLEAN, NEW data \in clients.data, NEW is_mutable \in clients.mutable,
             DeprecatedCreateMetadata(m, signer, authority, signs, data.creators, is_mutable)
      PROVE  Consents'
  <2> DEFINE plain == [creators |-> data.creators, collection |-> None, uses |-> None]
  <2>1. plain \in Data /\ None \in Option(Standards) /\ None \in Option(Nat)
    BY <1>1 DEF Data, Option
  <2>2. CreateMetadata(m, signer, authority, signs, plain, is_mutable, None, None)
    BY <1>2 DEF DeprecatedCreateMetadata
  <2> HIDE DEF plain
  <2> QED BY <1>1, <2>1, <2>2, CreateConsent
<1>3. ASSUME NEW m \in clients.mints, NEW signer, NEW authority \in clients.authorities,
             NEW signs \in BOOLEAN, NEW data \in clients.data, NEW is_mutable \in clients.mutable,
             CreateMetadataV2(m, signer, authority, signs, data, is_mutable)
      PROVE  Consents'
  <2>1. FungibleStandard(m) \in Option(Standards) /\ None \in Option(Nat)
    BY DEF Standards, Option, FungibleStandard
  <2>2. CreateMetadata(m, signer, authority, signs, data, is_mutable, FungibleStandard(m), None)
    BY <1>3 DEF CreateMetadataV2
  <2> QED BY <1>1, <2>1, <2>2, CreateConsent
<1>4. ASSUME NEW m \in clients.mints, NEW signer, NEW authority \in clients.authorities,
             NEW signs \in BOOLEAN, NEW data \in clients.data, NEW is_mutable \in clients.mutable,
             NEW sized, CreateMetadataV3(m, signer, authority, signs, data, is_mutable, sized)
      PROVE  Consents'
  <2> DEFINE details == IF sized THEN 0 ELSE None
  <2>1. FungibleStandard(m) \in Option(Standards) /\ details \in Option(Nat)
    BY DEF Standards, Option, FungibleStandard
  <2>2. CreateMetadata(m, signer, authority, signs, data, is_mutable, FungibleStandard(m), details)
    BY <1>4 DEF CreateMetadataV3
  <2> HIDE DEF details
  <2> QED BY <1>1, <2>1, <2>2, CreateConsent
<1> QED BY <1>2, <1>3, <1>4 DEF Create

LEMMA UpdatesConsent ==
  ASSUME ConsentInv, Update
  PROVE  Consents'
<1>1. clients \in Clients
  BY DEF ConsentInv, EditionInv, Typed
<1>2. PICK m \in Mints, signer \in Wallets, authority \in Option(Holders), sale \in Option(BOOLEAN) :
        \/ \E data \in Option(clients.updates), is_mutable \in Option(clients.mutable) :
              UpdateMetadata(m, signer, data, authority, sale, is_mutable)
        \/ \E creators \in Option({d.creators : d \in clients.updates}) :
              DeprecatedUpdateMetadata(m, signer, creators, authority, sale)
  <2>1. Option(clients.authorities) \subseteq Option(Holders)
        /\ Option(clients.sales) \subseteq Option(BOOLEAN)
    BY <1>1, Asked DEF Option
  <2> QED BY <2>1 DEF Update
<1>3. CASE \E data \in Option(clients.updates), is_mutable \in Option(clients.mutable) :
              UpdateMetadata(m, signer, data, authority, sale, is_mutable)
  <2>1. PICK data \in Option(clients.updates), is_mutable \in Option(clients.mutable) :
              UpdateMetadata(m, signer, data, authority, sale, is_mutable)
    BY <1>3
  <2>2. data \in Option(Data) /\ is_mutable \in Option(BOOLEAN)
    BY <1>1, Asked DEF Option
  <2> QED BY <2>1, <2>2, UpdateConsent
<1>4. CASE \E creators \in Option({d.creators : d \in clients.updates}) :
              DeprecatedUpdateMetadata(m, signer, creators, authority, sale)
  <2>1. PICK creators \in Option({d.creators : d \in clients.updates}) :
              DeprecatedUpdateMetadata(m, signer, creators, authority, sale)
    BY <1>4
  <2>2. creators \in Option(Creators)
    BY <1>1, Asked DEF Option, Data
  <2> QED BY <2>1, <2>2, DeprecatedUpdateConsent
<1> QED BY <1>2, <1>3, <1>4

LEMMA SignsConsent ==
  ASSUME ConsentInv, Sign
  PROVE  Consents'
<1>1. ASSUME NEW m \in Mints, NEW w, SignMetadata(m, w) \/ RemoveCreatorVerification(m, w)
      PROVE  Consents'
  BY <1>1, SignConsent
<1>2. ASSUME NEW m \in Mints, NEW w, UpdatePrimarySaleHappenedViaToken(m, w) PROVE Consents'
  BY <1>2, SaleConsent
<1>3. ASSUME NEW m \in Mints, NEW w \in BOOLEAN, SetTokenStandard(m, w) PROVE Consents'
  BY <1>3, StandardConsent
<1> QED BY <1>1, <1>2, <1>3 DEF Sign

LEMMA EditsConsent ==
  ASSUME ConsentInv, Edit
  PROVE  Consents'
<1>1. clients.authorities \subseteq Holders
  BY Asked DEF ConsentInv, EditionInv, Typed
<1>2. ASSUME NEW m \in Mints, NEW max_supply, NEW writable, CreateMasterEdition(m, max_supply, writable)
      PROVE  Consents'
  BY <1>2, MasterConsent
<1>3. ASSUME NEW m \in Mints, ConvertMasterEditionV1ToV2(m) PROVE Consents'
  BY <1>3, SameConsent DEF ConvertMasterEditionV1ToV2
<1>4. ASSUME NEW m \in Mints, NEW p \in Mints, NEW n, NEW owner, NEW authority \in clients.authorities,
             \/ MintNewEditionViaToken(m, owner, p, n, authority)
             \/ MintNewEditionViaVaultProxy(m, p, n, authority)
      PROVE  Consents'
  <2>1. MintNewEdition(m, p, n, authority)
    BY <1>4 DEF MintNewEditionViaToken, MintNewEditionViaVaultProxy
  <2> QED BY <1>1, <2>1, PrintConsent
<1>5. ASSUME NEW m \in Mints, NEW owner, NEW c \in Option(Mints), BurnNft(m, owner, c) PROVE Consents'
  BY <1>5, BurnConsent
<1> QED BY <1>2, <1>3, <1>4, <1>5 DEF Edit

LEMMA CollectsConsent ==
  ASSUME ConsentInv, Collect
  PROVE  Consents'
<1>1. clients.sizes \subseteq Nat
  BY Asked DEF ConsentInv, EditionInv, Typed
<1>2. ASSUME NEW m \in Mints, NEW c \in Mints, NEW signer, NEW delegated \in BOOLEAN,
             \/ VerifyCollection(m, c, signer, delegated)
             \/ VerifySizedCollectionItem(m, c, signer, delegated)
             \/ UnverifyCollection(m, c, signer, delegated)
             \/ UnverifySizedCollectionItem(m, c, signer, delegated)
             \/ SetAndVerifyCollection(m, c, signer, delegated)
             \/ SetAndVerifySizedCollectionItem(m, c, signer, delegated)
      PROVE  Consents'
  BY <1>2, VerifyConsent, VerifySizedConsent, UnverifyConsent, UnverifySizedConsent,
     SetAndVerifyConsent, SetAndVerifySizedConsent
<1>3. ASSUME NEW c \in Mints, NEW signer, NEW delegated \in BOOLEAN, NEW size \in clients.sizes,
             SetCollectionSize(c, signer, delegated, size)
      PROVE  Consents'
  BY <1>1, <1>3, SizeConsent
<1>4. ASSUME NEW c, NEW w, NEW signer,
             ApproveCollectionAuthority(c, w) \/ RevokeCollectionAuthority(c, w, signer)
      PROVE  Consents'
  BY <1>4, SameConsent DEF ApproveCollectionAuthority, RevokeCollectionAuthority
<1> QED BY <1>2, <1>3, <1>4 DEF Collect

LEMMA UsesConsent ==
  ASSUME ConsentInv, Use
  PROVE  Consents'
<1>1. clients.uses \subseteq Nat
  BY Asked DEF ConsentInv, EditionInv, Typed
<1>2. ASSUME NEW m, NEW owner, NEW user, NEW n,
             ApproveUseAuthority(m, owner, user, n) \/ RevokeUseAuthority(m, owner, user)
      PROVE  Consents'
  BY <1>2, SameConsent DEF ApproveUseAuthority, RevokeUseAuthority
<1>3. ASSUME NEW m, NEW owner, NEW user,
             FreezeDelegatedAccount(m, owner, user) \/ ThawDelegatedAccount(m, owner, user)
      PROVE  Consents'
  BY <1>3, SameConsent DEF FreezeDelegatedAccount, ThawDelegatedAccount, metaVars
<1>4. ASSUME NEW m \in Mints, NEW owner, NEW user, NEW approved \in BOOLEAN, NEW n \in clients.uses,
             Utilize(m, user, owner, approved, n)
      PROVE  Consents'
  BY <1>1, <1>4, UtilizeConsent
<1> QED BY <1>2, <1>3, <1>4 DEF Use

LEMMA TokensConsent ==
  ASSUME ConsentInv, TokenProgram
  PROVE  Consents'
<1>1. UNCHANGED <<meta, historyVars>>
  BY DEF TokenProgram, Transfer, Approve, Revoke, MintTo, BurnPrinting, metaVars
<1> QED BY <1>1, SameConsent

LEMMA ConsentStep == ConsentInv /\ [Next]_vars => ConsentInv'
<1> SUFFICES ASSUME ConsentInv, [Next]_vars PROVE ConsentInv'
  OBVIOUS
<1>1. EditionInv'
  BY EditionsStep DEF ConsentInv
<1>2. Consents'
  <2>1. CASE UNCHANGED vars \/ VaultMoves
    BY <2>1, SameConsent DEF vars, metaVars, VaultMoves
  <2> QED BY <2>1, TokensConsent, CreatesConsent, UpdatesConsent, SignsConsent, EditsConsent,
             CollectsConsent, UsesConsent DEF Next
<1> QED BY <1>1, <1>2 DEF ConsentInv

LEMMA InitConsent == Init => ConsentInv
<1> SUFFICES ASSUME Init PROVE Consents
  BY InitEditions DEF ConsentInv
<1> DEFINE none == [creators |-> << >>, collection |-> None, uses |-> None]
<1>1. clients \in Clients /\ clients.maker \in Holders
  BY Asked, HoldersAre DEF Init
<1>2. none \in Data /\ DOMAIN none.creators = {} /\ none.collection = None
  <2>1. << >> = [c \in {} |-> TRUE]
    OBVIOUS
  <2>2. << >> \in [{} -> BOOLEAN]
    BY <2>1
  <2>3. << >> \in Creators
    BY <2>2 DEF Creators
  <2> QED BY <2>1, <2>3 DEF Data, Option
<1> DEFINE x(m) == NewMetadata(m, clients.maker, none, TRUE, None, None)
<1>3. ASSUME NEW m \in Mints
      PROVE  x(m) \in Metadata /\ x(m).creators = none.creators /\ x(m).collection = None
  <2> DEFINE mutable == TRUE
  <2>1. clients.maker \in Holders \cup Mints /\ mutable \in BOOLEAN
        /\ None \in Option(Standards) /\ None \in Option(Nat)
    BY <1>1 DEF Option
  <2>2. x(m) = NewMetadata(m, clients.maker, none, mutable, None, None)
    OBVIOUS
  <2> HIDE DEF mutable, x, none
  <2> QED BY <1>2, <2>1, <2>2, NewIsMetadata
<1>4. meta = [m \in Mints |-> IF m \in DOMAIN clients.legacy THEN x(m) ELSE None]
  BY DEF Init
<1> HIDE DEF x, none
<1>5. meta \in [Mints -> Option(Metadata)]
  BY <1>3, <1>4 DEF Option
<1>6. consented = [m \in Mints |-> consented[m]] /\ endorsed = [m \in Mints |-> endorsed[m]]
  BY DEF Init
<1>7. ASSUME NEW m \in Mints, meta[m] # None
      PROVE  Vouched(meta[m], consented[m], endorsed[m], m \in seeded)
  BY <1>2, <1>3, <1>4, <1>7 DEF Vouched, CreatorsVouch, CollectionVouches
<1> QED BY <1>5, <1>6, <1>7 DEF Consents, Consent

(* However metadata is created, updated, signed, printed, burnt and put into *)
(* collections, and by whom, a creator shown as verified has signed for it   *)
(* or its master, and a collection has endorsed it: nobody writes another's *)
(* verified flag.                                                          *)
THEOREM NobodyVouchesForAnother == Spec => []VerifiedByConsent
<1>1. ConsentInv => VerifiedByConsent
  <2> SUFFICES ASSUME ConsentInv, NEW m \in Mints, Exists(m)
               PROVE  Vouched(meta[m], consented[m], endorsed[m], m \in seeded)
    BY DEF VerifiedByConsent, Vouched, CreatorsVouch, CollectionVouches
  <2> QED BY MetadataThere DEF ConsentInv, Consents
<1> QED BY <1>1, InitConsent, ConsentStep, PTL DEF Spec

-----------------------------------------------------------------------------
(***************************************************************************)
(* Uses only go down.                                                      *)
(***************************************************************************)
UsesKept == \A k \in Mints : Exists(k) /\ meta'[k] # None => meta'[k].uses = meta[k].uses
UsesDown ==
  \A k \in Mints : Exists(k) /\ meta'[k] # None =>
    LET old == meta[k].uses new == meta'[k].uses IN
    old # None /\ new # None /\ old.total # old.remaining =>
      /\ new.use_method = old.use_method /\ new.total = old.total
      /\ new.remaining <= old.remaining

LEMMA KeptGoDown ==
  ASSUME ConsentInv, UsesKept
  PROVE  UsesDown
<1> SUFFICES ASSUME NEW k \in Mints, Exists(k), meta'[k] # None, meta[k].uses # None
             PROVE  meta'[k].uses = meta[k].uses /\ meta[k].uses.remaining <= meta[k].uses.remaining
  BY DEF UsesDown, UsesKept
<1>1. meta[k].uses \in Uses
  BY MetadataThere, MetadataFields DEF ConsentInv, Consents, Option
<1>2. meta[k].uses.remaining \in Nat
  BY <1>1 DEF Uses
<1> QED BY <1>2 DEF UsesKept

(* A handler that writes one account, new or with the uses it had.         *)
LEMMA OneWrite ==
  ASSUME ConsentInv, NEW m \in Mints, NEW x, meta' = [meta EXCEPT ![m] = x],
         Exists(m) /\ x # None => x.uses = meta[m].uses
  PROVE  UsesKept
<1> SUFFICES ASSUME NEW k \in Mints, Exists(k), meta'[k] # None
             PROVE  meta'[k].uses = meta[k].uses
  BY DEF UsesKept
<1>1. meta \in [Mints -> Option(Metadata)]
  BY DEF ConsentInv, Consents, Consent
<1>2. CASE k = m
  <2>1. meta'[k] = x
    BY <1>1, <1>2
  <2> QED BY <1>2, <2>1
<1>3. CASE k # m
  <2>1. meta'[k] = meta[k]
    BY <1>1, <1>3
  <2> QED BY <2>1
<1> QED BY <1>2, <1>3

LEMMA UpdateUses ==
  ASSUME ConsentInv, NEW m \in Mints, NEW signer, NEW data, NEW authority, NEW sale, NEW is_mutable,
         UpdateMetadata(m, signer, data, authority, sale, is_mutable)
  PROVE  UsesDown
<1>1. Exists(m)
  BY DEF UpdateMetadata, IsUpdateAuthority
<1>2. meta[m] \in Metadata /\ meta \in [Mints -> Option(Metadata)]
  BY <1>1, MetadataThere DEF ConsentInv, Consents, Consent
<1> SUFFICES ASSUME NEW k \in Mints, Exists(k), meta'[k] # None, meta[k].uses # None,
                    meta'[k].uses # None, meta[k].uses.total # meta[k].uses.remaining
             PROVE  meta'[k].uses = meta[k].uses /\ meta[k].uses.remaining <= meta[k].uses.remaining
  BY DEF UsesDown
<1>3. meta[k].uses.remaining \in Nat
  <2>1. meta[k].uses \in Uses
    BY MetadataThere, MetadataFields DEF ConsentInv, Consents, Option
  <2> QED BY <2>1 DEF Uses
<1>4. CASE k # m
  BY <1>2, <1>3, <1>4 DEF UpdateMetadata
<1>5. CASE k = m
  <2>1. meta'[m].uses = IF data = None THEN meta[m].uses ELSE data.uses
    BY <1>2 DEF UpdateMetadata, Metadata
  <2>2. data # None => ValidUse(data.uses, meta[m].uses)
    BY DEF UpdateMetadata
  <2> QED BY <1>3, <1>5, <2>1, <2>2 DEF ValidUse
<1> QED BY <1>4, <1>5

LEMMA DeprecatedUpdateUses ==
  ASSUME ConsentInv, NEW m \in Mints, NEW signer, NEW creators, NEW authority, NEW sale,
         DeprecatedUpdateMetadata(m, signer, creators, authority, sale)
  PROVE  UsesKept
<1> DEFINE x == [meta[m] EXCEPT
           !.creators = IF creators = None THEN @ ELSE creators,
           !.update_authority = IF authority = None THEN @ ELSE authority,
           !.primary_sale_happened = @ \/ sale = TRUE]
<1>1. Exists(m)
  BY DEF DeprecatedUpdateMetadata, IsUpdateAuthority
<1>2. meta[m] \in Metadata
  BY <1>1, MetadataThere DEF ConsentInv, Consents
<1>3. meta' = [meta EXCEPT ![m] = x]
  BY DEF DeprecatedUpdateMetadata
<1>4. x.uses = meta[m].uses
  BY <1>2 DEF Metadata
<1> HIDE DEF x
<1> QED BY <1>3, <1>4, OneWrite

LEMMA UtilizeUses ==
  ASSUME ConsentInv, NEW m \in Mints, NEW owner, NEW user, NEW approved, NEW n \in Nat,
         Utilize(m, user, owner, approved, n)
  PROVE  UsesDown
<1>1. Exists(m) /\ meta[m].uses # None
  BY DEF Utilize, CurrentlyHolding
<1>2. meta[m] \in Metadata /\ meta \in [Mints -> Option(Metadata)]
  BY <1>1, MetadataThere DEF ConsentInv, Consents, Consent
<1>3. meta' = [meta EXCEPT ![m].uses.remaining = meta[m].uses.remaining - n]
  BY DEF Utilize
<1> SUFFICES ASSUME NEW k \in Mints, Exists(k), meta'[k] # None, meta[k].uses # None
             PROVE  /\ meta'[k].uses.use_method = meta[k].uses.use_method
                    /\ meta'[k].uses.total = meta[k].uses.total
                    /\ meta'[k].uses.remaining <= meta[k].uses.remaining
  BY DEF UsesDown
<1>4. meta[k].uses \in Uses /\ meta[k].uses.remaining \in Nat
  <2>1. meta[k].uses \in Uses
    BY MetadataThere, MetadataFields DEF ConsentInv, Consents, Option
  <2> QED BY <2>1 DEF Uses
<1>5. CASE k # m
  BY <1>2, <1>3, <1>4, <1>5
<1>6. CASE k = m
  <2>1. meta'[m].uses = [meta[m].uses EXCEPT !.remaining = meta[m].uses.remaining - n]
    BY <1>2, <1>3 DEF Metadata
  <2> QED BY <1>4, <1>6, <2>1 DEF Uses
<1> QED BY <1>5, <1>6

LEMMA SignUses ==
  ASSUME ConsentInv, Sign
  PROVE  UsesKept
<1>1. ASSUME NEW m \in Mints, NEW w, SignMetadata(m, w) PROVE UsesKept
  <2> DEFINE x == [meta[m] EXCEPT !.creators = [meta[m].creators EXCEPT ![w] = TRUE]]
  <2>1. Exists(m) /\ meta' = [meta EXCEPT ![m] = x]
    BY <1>1 DEF SignMetadata
  <2>2. x.uses = meta[m].uses
    BY <2>1, MetadataThere DEF ConsentInv, Consents, Metadata
  <2> HIDE DEF x
  <2> QED BY <2>1, <2>2, OneWrite
<1>2. ASSUME NEW m \in Mints, NEW w, RemoveCreatorVerification(m, w) PROVE UsesKept
  <2> DEFINE x == [meta[m] EXCEPT !.creators = [meta[m].creators EXCEPT ![w] = FALSE]]
  <2>1. Exists(m) /\ meta' = [meta EXCEPT ![m] = x]
    BY <1>2 DEF RemoveCreatorVerification
  <2>2. x.uses = meta[m].uses
    BY <2>1, MetadataThere DEF ConsentInv, Consents, Metadata
  <2> HIDE DEF x
  <2> QED BY <2>1, <2>2, OneWrite
<1>3. ASSUME NEW m \in Mints, NEW w, UpdatePrimarySaleHappenedViaToken(m, w) PROVE UsesKept
  <2> DEFINE x == [meta[m] EXCEPT !.primary_sale_happened = TRUE]
  <2>1. Exists(m) /\ meta' = [meta EXCEPT ![m] = x]
    BY <1>3 DEF UpdatePrimarySaleHappenedViaToken, CurrentlyHolding
  <2>2. x.uses = meta[m].uses
    BY <2>1, MetadataThere DEF ConsentInv, Consents, Metadata
  <2> HIDE DEF x
  <2> QED BY <2>1, <2>2, OneWrite
<1>4. ASSUME NEW m \in Mints, NEW w \in BOOLEAN, SetTokenStandard(m, w) PROVE UsesKept
  <2> DEFINE x == [meta[m] EXCEPT !.token_standard = StandardOf(m, w)]
  <2>1. Exists(m) /\ meta' = [meta EXCEPT ![m] = x]
    BY <1>4 DEF SetTokenStandard
  <2>2. x.uses = meta[m].uses
    BY <2>1, MetadataThere DEF ConsentInv, Consents, Metadata
  <2> HIDE DEF x
  <2> QED BY <2>1, <2>2, OneWrite
<1> QED BY <1>1, <1>2, <1>3, <1>4 DEF Sign

(* New metadata had no uses before.                                        *)
LEMMA CreateUses ==
  ASSUME ConsentInv, Create
  PROVE  UsesKept
<1>1. clients.mints \subseteq Mints
  BY Asked DEF ConsentInv, EditionInv, Typed
<1>2. ASSUME NEW m \in clients.mints, NEW signer, NEW authority, NEW signs, NEW data, NEW is_mutable,
             NEW standard, NEW details,
             CreateMetadata(m, signer, authority, signs, data, is_mutable, standard, details)
      PROVE  UsesKept
  <2>1. ~Exists(m)
    BY <1>2 DEF CreateMetadata
  <2>2. \E x : meta' = [meta EXCEPT ![m] = x]
    BY <1>2 DEF CreateMetadata
  <2>3. PICK x : meta' = [meta EXCEPT ![m] = x]
    BY <2>2
  <2> QED BY <1>1, <2>1, <2>3, OneWrite
<1>3. ASSUME NEW m \in clients.mints, NEW signer, NEW authority, NEW signs, NEW creators,
             NEW is_mutable, DeprecatedCreateMetadata(m, signer, authority, signs, creators, is_mutable)
      PROVE  UsesKept
  BY <1>2, <1>3 DEF DeprecatedCreateMetadata
<1>4. ASSUME NEW m \in clients.mints, NEW signer, NEW authority, NEW signs, NEW data, NEW is_mutable,
             CreateMetadataV2(m, signer, authority, signs, data, is_mutable)
      PROVE  UsesKept
  BY <1>2, <1>4 DEF CreateMetadataV2
<1>5. ASSUME NEW m \in clients.mints, NEW signer, NEW authority, NEW signs, NEW data, NEW is_mutable,
             NEW sized, CreateMetadataV3(m, signer, authority, signs, data, is_mutable, sized)
      PROVE  UsesKept
  BY <1>2, <1>5 DEF CreateMetadataV3
<1> QED BY <1>3, <1>4, <1>5 DEF Create

LEMMA EditUses ==
  ASSUME ConsentInv, Edit
  PROVE  UsesKept
<1>1. ASSUME NEW m \in Mints, NEW max_supply, NEW writable, CreateMasterEdition(m, max_supply, writable)
      PROVE  UsesKept
  <2> DEFINE x == [meta[m] EXCEPT !.token_standard = "NonFungible"]
  <2>1. Exists(m) /\ (meta' = [meta EXCEPT ![m] = x] \/ meta' = meta)
    BY <1>1 DEF CreateMasterEdition
  <2>2. x.uses = meta[m].uses
    BY <2>1, MetadataThere DEF ConsentInv, Consents, Metadata
  <2> HIDE DEF x
  <2>3. CASE meta' = meta
    BY <2>3 DEF UsesKept
  <2>4. CASE meta' = [meta EXCEPT ![m] = x]
    BY <2>2, <2>4, OneWrite
  <2> QED BY <2>1, <2>3, <2>4
<1>2. ASSUME NEW m \in Mints, ConvertMasterEditionV1ToV2(m) PROVE UsesKept
  BY <1>2 DEF ConvertMasterEditionV1ToV2, UsesKept
<1>3. ASSUME NEW m \in Mints, NEW p \in Mints, NEW n, NEW owner, NEW authority,
             \/ MintNewEditionViaToken(m, owner, p, n, authority)
             \/ MintNewEditionViaVaultProxy(m, p, n, authority)
      PROVE  UsesKept
  <2>1. MintNewEdition(m, p, n, authority)
    BY <1>3 DEF MintNewEditionViaToken, MintNewEditionViaVaultProxy
  <2>2. ~Exists(p) /\ \E x : meta' = [meta EXCEPT ![p] = x]
    BY <2>1 DEF MintNewEdition
  <2>3. PICK x : meta' = [meta EXCEPT ![p] = x]
    BY <2>2
  <2> QED BY <2>2, <2>3, OneWrite
<1>4. ASSUME NEW m \in Mints, NEW owner, NEW c \in Option(Mints), BurnNft(m, owner, c) PROVE UsesKept
  <2> DEFINE gone == [meta EXCEPT ![m] = None]
  <2>1. \/ meta' = gone
        \/ meta' = [meta EXCEPT ![m] = None, ![c].collection_details = @ - 1]
    BY <1>4 DEF BurnNft
  <2>2. meta \in [Mints -> Option(Metadata)]
    BY DEF ConsentInv, Consents, Consent
  <2> SUFFICES ASSUME NEW k \in Mints, Exists(k), meta'[k] # None
               PROVE  meta'[k].uses = meta[k].uses
    BY DEF UsesKept
  <2>3. meta[k] \in Metadata
    BY MetadataThere DEF ConsentInv, Consents
  <2>4. CASE meta' = gone
    BY <2>2, <2>4
  <2>5. CASE meta' = [meta EXCEPT ![m] = None, ![c].collection_details = @ - 1]
    <3>1. CASE k = m /\ c # m
      BY <2>2, <2>5, <3>1
    <3>2. CASE k # m /\ k # c
      BY <2>2, <2>5, <3>2
    <3>3. CASE k # m /\ k = c
      <4>1. meta'[k] = [meta[k] EXCEPT !.collection_details = @ - 1]
        BY <2>2, <2>5, <3>3
      <4> QED BY <2>3, <4>1 DEF Metadata
    <3>4. CASE k = m /\ c = m
      <4>1. c # None
        BY <3>4, MintNoWallet
      <4>2. c # m
        BY <1>4, <4>1 DEF BurnNft
      <4> QED BY <3>4, <4>2
    <3> QED BY <3>1, <3>2, <3>3, <3>4
  <2> QED BY <2>1, <2>4, <2>5
<1> QED BY <1>1, <1>2, <1>3, <1>4 DEF Edit

(* The handlers of collections write sizes and collections.                *)
LEMMA CollectUses ==
  ASSUME ConsentInv, Collect
  PROVE  UsesKept
<1>1. meta \in [Mints -> Option(Metadata)]
  BY DEF ConsentInv, Consents, Consent
<1>2. ASSUME NEW m \in Mints, NEW ref, Exists(m),
             \/ meta' = [meta EXCEPT ![m].collection.verified = ref]
             \/ meta' = [meta EXCEPT ![m].collection = ref]
             \/ meta' = [meta EXCEPT ![m].collection_details = ref]
      PROVE  UsesKept
  <2> DEFINE x == [meta[m] EXCEPT !.collection.verified = ref]
             y == [meta[m] EXCEPT !.collection = ref]
             z == [meta[m] EXCEPT !.collection_details = ref]
  <2>1. meta[m] \in Metadata
    BY <1>2, MetadataThere DEF ConsentInv, Consents
  <2>2. x.uses = meta[m].uses /\ y.uses = meta[m].uses /\ z.uses = meta[m].uses
    BY <2>1 DEF Metadata
  <2>3. meta' = [meta EXCEPT ![m] = x] \/ meta' = [meta EXCEPT ![m] = y] \/ meta' = [meta EXCEPT ![m] = z]
    BY <1>2
  <2> HIDE DEF x, y, z
  <2> QED BY <2>2, <2>3, OneWrite
<1>3. ASSUME NEW m \in Mints, NEW c \in Mints, NEW n, NEW ref, Exists(m), Exists(c),
             \/ meta' = [WithSize(c, n) EXCEPT ![m] = [meta[m] EXCEPT !.collection = ref]]
             \/ meta' = [WithSize(c, n) EXCEPT ![m] = [meta[m] EXCEPT !.collection.verified = ref]]
      PROVE  UsesKept
  <2> SUFFICES ASSUME NEW k \in Mints, Exists(k) PROVE meta'[k].uses = meta[k].uses
    BY DEF UsesKept
  <2>1. meta[k] \in Metadata /\ meta[m] \in Metadata
    BY <1>3, MetadataThere DEF ConsentInv, Consents
  <2>2. CASE k = m
    <3>1. \/ meta'[m] = [meta[m] EXCEPT !.collection = ref]
          \/ meta'[m] = [meta[m] EXCEPT !.collection.verified = ref]
      BY <1>1, <1>3 DEF WithSize
    <3> QED BY <2>1, <2>2, <3>1 DEF Metadata
  <2>3. CASE k # m
    <3>1. meta'[k] = WithSize(c, n)[k]
      BY <1>1, <1>3, <2>3 DEF WithSize
    <3>2. CASE k = c
      <4>1. meta'[k] = [meta[k] EXCEPT !.collection_details = n]
        BY <1>1, <3>1, <3>2 DEF WithSize
      <4> QED BY <2>1, <4>1 DEF Metadata
    <3>3. CASE k # c
      BY <1>1, <3>1, <3>3 DEF WithSize
    <3> QED BY <3>2, <3>3
  <2> QED BY <2>2, <2>3
<1>4. ASSUME NEW m \in Mints, NEW c \in Mints, NEW signer, NEW delegated \in BOOLEAN,
             \/ VerifyCollection(m, c, signer, delegated)
             \/ UnverifyCollection(m, c, signer, delegated)
             \/ SetAndVerifyCollection(m, c, signer, delegated)
      PROVE  UsesKept
  <2>1. Exists(m)
    BY <1>4 DEF VerifyCollection, UnverifyCollection, SetAndVerifyCollection, SetAndVerify
  <2>2. \/ meta' = [meta EXCEPT ![m].collection.verified = TRUE]
        \/ meta' = [meta EXCEPT ![m].collection.verified = FALSE]
        \/ meta' = [meta EXCEPT ![m].collection = Verified(c)]
    BY <1>4 DEF VerifyCollection, UnverifyCollection, SetAndVerifyCollection
  <2> DEFINE yes == TRUE no == FALSE
  <2>3. \/ meta' = [meta EXCEPT ![m].collection.verified = yes]
        \/ meta' = [meta EXCEPT ![m].collection.verified = no]
        \/ meta' = [meta EXCEPT ![m].collection = Verified(c)]
    BY <2>2
  <2> HIDE DEF yes, no
  <2> QED BY <1>2, <2>1, <2>3
<1>5. ASSUME NEW m \in Mints, NEW c \in Mints, NEW signer, NEW delegated \in BOOLEAN,
             \/ VerifySizedCollectionItem(m, c, signer, delegated)
             \/ UnverifySizedCollectionItem(m, c, signer, delegated)
             \/ SetAndVerifySizedCollectionItem(m, c, signer, delegated)
      PROVE  UsesKept
  <2>1. Exists(m) /\ Exists(c)
    BY <1>5 DEF VerifySizedCollectionItem, UnverifySizedCollectionItem,
                SetAndVerifySizedCollectionItem, SetAndVerify, HasCollectionAuthority
  <2> DEFINE yes == TRUE no == FALSE
             more == meta[c].collection_details + 1
             less == meta[c].collection_details - 1
  <2>2. \/ meta' = [WithSize(c, more) EXCEPT ![m] = [meta[m] EXCEPT !.collection.verified = yes]]
        \/ meta' = [WithSize(c, less) EXCEPT ![m] = [meta[m] EXCEPT !.collection.verified = no]]
        \/ meta' = [WithSize(c, more) EXCEPT ![m] = [meta[m] EXCEPT !.collection = Verified(c)]]
    BY <1>5 DEF VerifySizedCollectionItem, UnverifySizedCollectionItem, SetAndVerifySizedCollectionItem
  <2> HIDE DEF yes, no, more, less
  <2> QED BY <1>3, <2>1, <2>2
<1>6. ASSUME NEW c \in Mints, NEW signer, NEW delegated \in BOOLEAN, NEW size,
             SetCollectionSize(c, signer, delegated, size)
      PROVE  UsesKept
  BY <1>2, <1>6 DEF SetCollectionSize, HasCollectionAuthority, WithSize
<1>7. ASSUME NEW c, NEW w, NEW signer,
             ApproveCollectionAuthority(c, w) \/ RevokeCollectionAuthority(c, w, signer)
      PROVE  UsesKept
  BY <1>7 DEF ApproveCollectionAuthority, RevokeCollectionAuthority, UsesKept
<1> QED BY <1>4, <1>5, <1>6, <1>7 DEF Collect

LEMMA UseUses ==
  ASSUME ConsentInv, Use
  PROVE  UsesDown
<1>1. clients.uses \subseteq Nat
  BY Asked DEF ConsentInv, EditionInv, Typed
<1>2. ASSUME NEW m, NEW owner, NEW user, NEW n,
             \/ ApproveUseAuthority(m, owner, user, n) \/ RevokeUseAuthority(m, owner, user)
             \/ FreezeDelegatedAccount(m, owner, user) \/ ThawDelegatedAccount(m, owner, user)
      PROVE  UsesDown
  <2>1. meta' = meta
    BY <1>2 DEF ApproveUseAuthority, RevokeUseAuthority, FreezeDelegatedAccount,
                ThawDelegatedAccount, metaVars
  <2>2. UsesKept
    BY <2>1 DEF UsesKept
  <2> QED BY <2>2, KeptGoDown
<1>3. ASSUME NEW m \in Mints, NEW owner, NEW user, NEW approved \in BOOLEAN, NEW n \in clients.uses,
             Utilize(m, user, owner, approved, n)
      PROVE  UsesDown
  BY <1>1, <1>3, UtilizeUses
<1> QED BY <1>2, <1>3 DEF Use

LEMMA UpdatesUses ==
  ASSUME ConsentInv, Update
  PROVE  UsesDown
<1>1. ASSUME NEW m \in Mints, NEW signer, NEW data, NEW authority, NEW sale, NEW is_mutable,
             UpdateMetadata(m, signer, data, authority, sale, is_mutable)
      PROVE  UsesDown
  BY <1>1, UpdateUses
<1>2. ASSUME NEW m \in Mints, NEW signer, NEW creators, NEW authority, NEW sale,
             DeprecatedUpdateMetadata(m, signer, creators, authority, sale)
      PROVE  UsesDown
  BY <1>2, DeprecatedUpdateUses, KeptGoDown
<1> QED BY <1>1, <1>2 DEF Update

(* Uses that have begun keep method and total and only go down: no update    *)
(* of the metadata, by whoever is update authority, gives any back.         *)
THEOREM UsesAreNotRestored == Spec => UsesOnlyGoDown
<1>1. ASSUME ConsentInv, [Next]_vars PROVE [UsesDown]_vars
  <2>1. CASE UNCHANGED vars
    BY <2>1
  <2>2. CASE VaultMoves \/ TokenProgram
    <3>1. meta' = meta
      BY <2>2 DEF VaultMoves, TokenProgram, Transfer, Approve, Revoke, MintTo, BurnPrinting, metaVars
    <3>2. UsesKept
      BY <3>1 DEF UsesKept
    <3> QED BY <1>1, <3>2, KeptGoDown
  <2> QED BY <1>1, <2>1, <2>2, CreateUses, SignUses, EditUses, CollectUses, KeptGoDown,
             UseUses, UpdatesUses DEF Next
<1>2. [UsesDown]_vars => [\A m \in Mints : Exists(m) /\ meta'[m] # None =>
         LET old == meta[m].uses new == meta'[m].uses IN
         old # None /\ new # None /\ old.total # old.remaining =>
           /\ new.use_method = old.use_method /\ new.total = old.total
           /\ new.remaining <= old.remaining]_vars
  BY DEF UsesDown
<1> QED BY <1>1, <1>2, InitConsent, ConsentStep, PTL DEF Spec, UsesOnlyGoDown
=============================================================================
