--------------------------- MODULE TokenMetadata ---------------------------
(***************************************************************************)
(* The token metadata program: metadata with creators, collections and     *)
(* uses, master editions with their prints, the records of delegates, and  *)
(* of the token program what it reads and moves.  A mint has at most one   *)
(* token account per wallet.  Names, addresses of derived accounts, shares *)
(* of creators and rent are left out.                                      *)
(***************************************************************************)
EXTENDS Integers, FiniteSets

CONSTANTS
    Mints,        \* token mints
    Wallets,      \* keys that sign
    VaultPda,     \* the owner of the stores of a vault; signs nothing here
    Burner,       \* the program's own key, to which burning may be delegated
    Seeder,       \* SEED_AUTHORITY: may create metadata of anybody's mint
    Decimals,     \* [Mints -> Nat]
    None,
    ByteSize,     \* bits of a byte of an edition marker, 8 in the code
    MarkerBits,   \* editions per marker, 248 in the code
    MaxTokens,    \* bound: tokens of a mint
    MaxSize,      \* bound: members counted by a collection
    Clients       \* what the clients of an instance ask for, one record each

ASSUME ConstantsOK ==
    /\ Wallets \cap {VaultPda, Burner, None} = {} /\ VaultPda # Burner
    /\ Mints \cap (Wallets \cup {VaultPda, Burner, None}) = {}
    /\ ByteSize \in Nat \ {0} /\ MarkerBits \in Nat \ {0}
    /\ Decimals \in [Mints -> Nat] /\ MaxTokens \in Nat \ {0} /\ MaxSize \in Nat

VARIABLES
    clients,        \* the member of Clients the instance runs with
    mint,           \* authority, freeze authority, supply; an edition account is named by its mint
    held,           \* token accounts: amount,
    delegate,       \*   its delegate or None with the delegated amount,
    frozen,         \*   and whether it is frozen
    meta,           \* Metadata or None
    edition,        \* MasterEditionV1, MasterEditionV2, EditionV1 or None
    marks,          \* the bits set in the edition markers of a master
    use_record,     \* UseAuthorityRecord: allowed uses or None
    coll_record,    \* CollectionAuthorityRecord: wallets with one
    vault_combined, \* the state of the vault that VaultPda belongs to
    consented,      \* history: creators that vouched for a metadata themselves
    endorsed,       \* history: collections whose authority vouched for a metadata
    seeded          \* history: metadata created by the seeder

tokenVars == <<mint, held, delegate, frozen>>
metaVars == <<meta, edition, marks, use_record, coll_record>>
historyVars == <<consented, endorsed, seeded>>
vars == <<clients, tokenVars, metaVars, vault_combined, historyVars>>

Holders == Wallets \cup {VaultPda}
Option(S) == S \cup {None}

UseMethods == {"Burn", "Multiple", "Single"}
Standards == {"NonFungible", "FungibleAsset", "Fungible", "NonFungibleEdition"}
CollectionRef == [key: Mints, verified: BOOLEAN]
Uses == [use_method: UseMethods, remaining: Nat, total: Nat]
\* creators: those listed, with their verified flag; nobody listed is the None of the code
Creators == UNION {[S -> BOOLEAN] : S \in SUBSET Wallets}
Data == [creators: Creators, collection: Option(CollectionRef), uses: Option(Uses)]
Metadata == [update_authority: Holders \cup Mints, creators: Creators,
             primary_sale_happened: BOOLEAN, is_mutable: BOOLEAN,
             token_standard: Option(Standards), collection: Option(CollectionRef),
             uses: Option(Uses), collection_details: Option(Nat)]
MasterEdition == [key: {"MasterEditionV1", "MasterEditionV2"}, supply: Nat,
                  max_supply: Option(Nat), printing: Nat, one_time: Nat]
Edition == [key: {"EditionV1"}, parent: Mints, edition: Nat]

\* an account or option that is absent is told apart from those that are there
ASSUME NoneIsAbsent == None \notin MasterEdition \cup Edition \cup Creators

\* a wallet makes the mints; some already belong to a master edition of the old kind
ASSUME ClientsOK ==
    \A c \in Clients :
        /\ c.maker \in Wallets /\ c.freeze \in Option(Wallets)
        /\ DOMAIN c.legacy \subseteq Mints /\ \A m \in DOMAIN c.legacy : c.legacy[m] \in MasterEdition
        /\ c.supplies \subseteq Option(Nat) /\ (c.numbers \cup c.sizes \cup c.uses) \subseteq Nat
        /\ (c.data \cup c.updates) \subseteq Data /\ (c.mutable \cup c.sales) \subseteq BOOLEAN
        /\ c.authorities \subseteq Holders /\ c.delegates \subseteq Wallets /\ c.mints \subseteq Mints
        /\ (c.transfers \cup c.approvals \cup c.minting) \subseteq Mints

----------------------------------------------------------------------------
(* Assertions and helpers. *)

Exists(m) == meta[m] # None
IsMaster(m) == edition[m] # None /\ edition[m].key \in {"MasterEditionV1", "MasterEditionV2"}

\* the signer may write a metadata
IsUpdateAuthority(m, signer) == Exists(m) /\ meta[m].update_authority = signer
\* the signer holds a token of the mint and the metadata is the one of the mint
CurrentlyHolding(m, owner) == Exists(m) /\ held[m][owner] >= 1
\* the whole amount is delegated to the signer
DelegatedTokensInPart(m, owner, signer) == held[m][owner] >= 1 /\ delegate[m][owner].to # None
DelegatedTokens(m, owner, signer) ==
    held[m][owner] >= 1 /\ delegate[m][owner] = [to |-> signer, amount |-> held[m][owner]]
\* the edition account is the freeze authority
EditionFreezes(m) == edition[m] # None /\ mint[m].freeze = m
Undelegated == [to |-> None, amount |-> 0]

\* who may be listed as verified: a creator that signs as update authority decides for
\* itself, the others keep the flag they have; verified creators must stay listed
ValidCreatorsUnchecked(new, old, authority, signs) ==
    \A c \in DOMAIN new : (signs /\ c = authority) \/ (new[c] => c \in DOMAIN old)
ValidCreators(new, old, authority, signs) ==
    LET Itself(c) == signs /\ c = authority IN
    DOMAIN new # {} =>
       /\ \A c \in DOMAIN new : Itself(c) \/ new[c] = (c \in DOMAIN old /\ old[c])
       /\ \A c \in DOMAIN old \ DOMAIN new : Itself(c) \/ ~old[c]

\* a collection cannot be verified by writing it
ValidCollection(old, new) == new # None /\ old # new => ~new.verified

\* uses of the right size, and unchanged once they have begun
ValidUse(new, old) ==
    /\ new # None =>
         /\ new.use_method = "Single" => new.total = 1 /\ new.remaining = 1
         /\ new.use_method = "Multiple" => new.total >= 2 /\ new.total >= new.remaining
    /\ new # None /\ old # None /\ old.total # old.remaining => new = old

\* the authority of a collection: its update authority or a delegate with a record
HasCollectionAuthority(c, signer, delegated) ==
    /\ Exists(c)
    /\ IF delegated THEN signer \in coll_record[c] ELSE meta[c].update_authority = signer

\* a collection is a master edition that cannot be printed
IsCollection(c) ==
    /\ Exists(c) /\ meta[c].token_standard = "NonFungible"
    /\ edition[c] # None /\ edition[c].key = "MasterEditionV2" /\ edition[c].max_supply = 0
CollectionVerifyIsValid(ref, c) == ref # None /\ ref.key = c /\ IsCollection(c)

\* the bit of an edition number: marker, byte, bit from the right
Mark(n) ==
    LET offset == n % MarkerBits IN
    <<n \div MarkerBits, offset \div ByteSize, ByteSize - 1 - (offset % ByteSize)>>

\* the supply of a master after printing number n
SupplyAfter(m, n) == IF n > edition[m].supply THEN n ELSE edition[m].supply
SupplyAllowsOneMore(m, n) ==
    n # 0 /\ (edition[m].max_supply # None => edition[m].supply <= edition[m].max_supply)
SupplyAllows(m, n) == n # 0 /\ (edition[m].max_supply # None => SupplyAfter(m, n) <= edition[m].max_supply)

\* mint and freeze authority go to the edition account, if there is a freeze authority
EditionOwnsMint(m) ==
    [mint[m] EXCEPT !.authority = m, !.freeze = IF @ = None THEN None ELSE m]

NewMetadata(m, authority, data, is_mutable, standard, details) ==
    [update_authority |-> authority, creators |-> data.creators,
     primary_sale_happened |-> FALSE, is_mutable |-> is_mutable,
     token_standard |-> standard, collection |-> data.collection,
     uses |-> data.uses, collection_details |-> details]

\* history: creators that verify themselves in new
Vouching(new, authority, signs) == {c \in DOMAIN new : new[c] /\ signs /\ c = authority}

----------------------------------------------------------------------------
(* The token program: what holders and mint authorities do on their own. *)

Burnt(m, owner) == /\ held' = [held EXCEPT ![m][owner] = @ - 1]
                   /\ mint' = [mint EXCEPT ![m].supply = @ - 1]

MintTo(m, w) ==
    /\ mint[m].authority \in Wallets /\ mint[m].supply < MaxTokens /\ ~frozen[m][w]
    /\ mint' = [mint EXCEPT ![m].supply = @ + 1]
    /\ held' = [held EXCEPT ![m][w] = @ + 1]
    /\ UNCHANGED <<clients, delegate, frozen, metaVars, vault_combined, historyVars>>

Transfer(m, from, to) ==
    /\ from # to /\ held[m][from] >= 1 /\ ~frozen[m][from] /\ ~frozen[m][to]
    /\ held' = [held EXCEPT ![m][from] = @ - 1, ![m][to] = @ + 1]
    /\ UNCHANGED <<clients, mint, delegate, frozen, metaVars, vault_combined, historyVars>>

Approve(m, owner, to) ==
    /\ ~frozen[m][owner]
    /\ delegate' = [delegate EXCEPT ![m][owner] = [to |-> to, amount |-> 1]]
    /\ UNCHANGED <<clients, mint, held, frozen, metaVars, vault_combined, historyVars>>

Revoke(m, owner) ==
    /\ ~frozen[m][owner] /\ delegate[m][owner] # Undelegated
    /\ delegate' = [delegate EXCEPT ![m][owner] = Undelegated]
    /\ UNCHANGED <<clients, mint, held, frozen, metaVars, vault_combined, historyVars>>

\* the holders of the printing tokens of an old master edition use them up
BurnPrinting(m) ==
    /\ IsMaster(m) /\ edition[m].key = "MasterEditionV1"
    /\ \/ edition[m].printing > 0 /\ edition' = [edition EXCEPT ![m].printing = @ - 1]
       \/ edition[m].one_time > 0 /\ edition' = [edition EXCEPT ![m].one_time = @ - 1]
    /\ UNCHANGED <<clients, tokenVars, meta, marks, use_record, coll_record, vault_combined, historyVars>>

\* the token vault: shares are bought out, or the vault is given up
VaultMoves ==
    /\ vault_combined' = ~vault_combined
    /\ UNCHANGED <<clients, tokenVars, metaVars, historyVars>>

----------------------------------------------------------------------------
(* Metadata. *)

\* the mint authority signs; the seeder may stand in for it
CreateMetadata(m, signer, authority, signs, data, is_mutable, standard, details) ==
    LET seeding == signer # mint[m].authority
        writer == IF seeding /\ mint[m].authority # None THEN mint[m].authority ELSE authority
    IN
    /\ ~Exists(m)
    /\ seeding => signer = Seeder
    /\ ValidCreators(data.creators, << >>, writer, signs)
    /\ ValidUse(data.uses, None) /\ ValidCollection(None, data.collection)
    /\ meta' = [meta EXCEPT ![m] = NewMetadata(m, writer, data,
                    is_mutable \/ (seeding /\ mint[m].authority # None), standard, details)]
    /\ consented' = [consented EXCEPT ![m] = Vouching(data.creators, authority, signs)]
    /\ seeded' = IF seeding THEN seeded \cup {m} ELSE seeded
    /\ UNCHANGED <<clients, tokenVars, edition, marks, use_record, coll_record, vault_combined, endorsed>>

\* the standard of a token without edition
FungibleStandard(m) == IF Decimals[m] = 0 THEN "FungibleAsset" ELSE "Fungible"

DeprecatedCreateMetadata(m, signer, authority, signs, creators, is_mutable) ==
    CreateMetadata(m, signer, authority, signs,
        [creators |-> creators, collection |-> None, uses |-> None], is_mutable, None, None)
CreateMetadataV2(m, signer, authority, signs, data, is_mutable) ==
    CreateMetadata(m, signer, authority, signs, data, is_mutable, FungibleStandard(m), None)
\* a collection starts with size zero, whatever the argument says
CreateMetadataV3(m, signer, authority, signs, data, is_mutable, sized) ==
    CreateMetadata(m, signer, authority, signs, data, is_mutable, FungibleStandard(m),
                   IF sized THEN 0 ELSE None)

\* who has vouched for itself after the update authority has written new
ConsentAfter(m, new, signer) ==
    IF new = None THEN consented[m]
    ELSE (consented[m] \ {signer}) \cup Vouching(new, signer, TRUE)

\* a verified collection is not removed; it is replaced by another unverified one
CollectionUpdateIsValid(old, new) ==
    IF new # None THEN ValidCollection(old, new) ELSE (old # None => ~old.verified)

UpdateMetadata(m, signer, data, authority, sale, is_mutable) ==
    LET old == meta[m] IN
    /\ IsUpdateAuthority(m, signer)
    /\ data # None =>
         /\ old.is_mutable
         /\ ValidCreators(data.creators, old.creators, signer, TRUE)
         /\ CollectionUpdateIsValid(old.collection, data.collection)
         /\ ValidUse(data.uses, old.uses)
    /\ sale = FALSE => ~old.primary_sale_happened
    /\ is_mutable = TRUE => old.is_mutable
    /\ meta' = [meta EXCEPT ![m] = [old EXCEPT
           !.creators = IF data = None THEN @ ELSE data.creators,
           !.collection = IF data = None THEN @ ELSE data.collection,
           !.uses = IF data = None THEN @ ELSE data.uses,
           !.update_authority = IF authority = None THEN @ ELSE authority,
           !.primary_sale_happened = IF sale = None THEN @ ELSE sale,
           !.is_mutable = IF is_mutable = None THEN @ ELSE is_mutable]]
    /\ consented' = [consented EXCEPT ![m] =
           ConsentAfter(m, IF data = None THEN None ELSE data.creators, signer)]
    /\ UNCHANGED <<clients, tokenVars, edition, marks, use_record, coll_record, vault_combined,
                   endorsed, seeded>>

DeprecatedUpdateMetadata(m, signer, creators, authority, sale) ==
    LET old == meta[m] IN
    /\ IsUpdateAuthority(m, signer)
    /\ creators # None =>
         old.is_mutable /\ ValidCreators(creators, old.creators, signer, TRUE)
    /\ sale # FALSE
    /\ meta' = [meta EXCEPT ![m] = [old EXCEPT
           !.creators = IF creators = None THEN @ ELSE creators,
           !.update_authority = IF authority = None THEN @ ELSE authority,
           !.primary_sale_happened = @ \/ sale = TRUE]]
    /\ consented' = [consented EXCEPT ![m] = ConsentAfter(m, creators, signer)]
    /\ UNCHANGED <<clients, tokenVars, edition, marks, use_record, coll_record, vault_combined,
                   endorsed, seeded>>

UpdatePrimarySaleHappenedViaToken(m, owner) ==
    /\ CurrentlyHolding(m, owner)
    /\ meta' = [meta EXCEPT ![m].primary_sale_happened = TRUE]
    /\ UNCHANGED <<clients, tokenVars, edition, marks, use_record, coll_record, vault_combined, historyVars>>

SignMetadata(m, creator) ==
    /\ Exists(m) /\ creator \in DOMAIN meta[m].creators
    /\ meta' = [meta EXCEPT ![m].creators[creator] = TRUE]
    /\ consented' = [consented EXCEPT ![m] = @ \cup {creator}]
    /\ UNCHANGED <<clients, tokenVars, edition, marks, use_record, coll_record, vault_combined,
                   endorsed, seeded>>

RemoveCreatorVerification(m, creator) ==
    /\ Exists(m) /\ creator \in DOMAIN meta[m].creators
    /\ meta' = [meta EXCEPT ![m].creators[creator] = FALSE]
    /\ consented' = [consented EXCEPT ![m] = @ \ {creator}]
    /\ UNCHANGED <<clients, tokenVars, edition, marks, use_record, coll_record, vault_combined,
                   endorsed, seeded>>

\* an edition account tells the standard, without one the mint must not belong to an edition
StandardOf(m, with_edition) ==
    IF with_edition
      THEN IF edition[m].key = "MasterEditionV2" THEN "NonFungible" ELSE "NonFungibleEdition"
      ELSE FungibleStandard(m)
SetTokenStandard(m, with_edition) ==
    LET unique == Decimals[m] = 0 /\ mint[m].supply = 1 IN
    /\ Exists(m) /\ meta[m].update_authority \in Wallets
    /\ IF with_edition
         THEN edition[m] # None /\ edition[m].key \in {"MasterEditionV2", "EditionV1"} /\ unique
         ELSE mint[m].authority # m
    /\ meta' = [meta EXCEPT ![m].token_standard = StandardOf(m, with_edition)]
    /\ UNCHANGED <<clients, tokenVars, edition, marks, use_record, coll_record, vault_combined, historyVars>>

----------------------------------------------------------------------------
(* Master editions and prints. *)

\* mint authority and update authority sign; an older client leaves the metadata read-only
CreateMasterEdition(m, max_supply, writable) ==
    /\ Exists(m) /\ edition[m] = None
    /\ mint[m].authority \in Wallets /\ meta[m].update_authority \in Wallets
    /\ mint[m].freeze \in {None, mint[m].authority}
    /\ Decimals[m] = 0 /\ mint[m].supply = 1
    /\ edition' = [edition EXCEPT ![m] = [key |-> "MasterEditionV2", supply |-> 0,
                      max_supply |-> max_supply, printing |-> 0, one_time |-> 0]]
    /\ meta' = IF writable THEN [meta EXCEPT ![m].token_standard = "NonFungible"] ELSE meta
    /\ mint' = [mint EXCEPT ![m] = EditionOwnsMint(m)]
    /\ UNCHANGED <<clients, held, delegate, frozen, marks, use_record, coll_record,
                   vault_combined, historyVars>>

ConvertMasterEditionV1ToV2(m) ==
    /\ IsMaster(m) /\ edition[m].key = "MasterEditionV1"
    /\ edition[m].printing = 0 /\ edition[m].one_time = 0
    /\ edition' = [edition EXCEPT ![m].key = "MasterEditionV2"]
    /\ UNCHANGED <<clients, tokenVars, meta, marks, use_record, coll_record, vault_combined, historyVars>>

\* no number is printed twice
PrintOnce(m, n) == Mark(n) \notin marks[m] /\ marks' = [marks EXCEPT ![m] = @ \cup {Mark(n)}]

\* number n of master m becomes mint p; anybody may be named update authority of the print.
\* A print is too short an account to pass for a master edition.
MintNewEdition(m, p, n, authority) ==
    LET master == meta[m]
        data == [creators |-> master.creators, collection |-> master.collection,
                 uses |-> IF master.uses = None THEN None
                          ELSE [master.uses EXCEPT !.remaining = master.uses.total]]
    IN
    /\ Exists(m) /\ IsMaster(m) /\ ~Exists(p) /\ edition[p] = None
    /\ mint[p].authority \in Wallets /\ mint[p].freeze \in {None, mint[p].authority}
    /\ SupplyAllows(m, n) /\ mint[p].supply = 1
    /\ ValidUse(data.uses, None)
    /\ PrintOnce(m, n)
    /\ meta' = [meta EXCEPT ![p] =
                   NewMetadata(p, authority, data, FALSE, "NonFungibleEdition", None)]
    /\ edition' = [edition EXCEPT ![m].supply = SupplyAfter(m, n),
                                  ![p] = [key |-> "EditionV1", parent |-> m, edition |-> n]]
    /\ mint' = [mint EXCEPT ![p] = EditionOwnsMint(p)]
    /\ consented' = [consented EXCEPT ![p] = consented[m]]
    /\ endorsed' = [endorsed EXCEPT ![p] = endorsed[m]]
    /\ seeded' = IF m \in seeded THEN seeded \cup {p} ELSE seeded
    /\ UNCHANGED <<clients, held, delegate, frozen, use_record, coll_record, vault_combined>>

\* the holder of the master token prints ...
MintNewEditionViaToken(m, owner, p, n, authority) ==
    /\ held[m][owner] >= 1 /\ MintNewEdition(m, p, n, authority)
\* ... or the authority of the vault that holds it
MintNewEditionViaVaultProxy(m, p, n, authority) ==
    /\ vault_combined /\ held[m][VaultPda] >= 1 /\ MintNewEdition(m, p, n, authority)

VerifiedMember(m, c) == Exists(c) /\ meta[m].collection = [key |-> c, verified |-> TRUE]

\* the owner burns a master edition that has not been printed; a verified member of a
\* collection leaves it, which its parent counts
BurnNft(m, owner, c) ==
    LET ref == meta[m].collection
        sized == meta[c].collection_details # None
    IN
    /\ CurrentlyHolding(m, owner) /\ held[m][owner] = 1 /\ ~frozen[m][owner]
    /\ IsMaster(m) /\ edition[m].supply = 0
    /\ IF c = None THEN (ref # None => ~ref.verified)
       ELSE /\ c # m /\ VerifiedMember(m, c)
            /\ sized => meta[c].collection_details > 0
    /\ meta' = IF c # None /\ sized
                 THEN [meta EXCEPT ![m] = None, ![c].collection_details = @ - 1]
                 ELSE [meta EXCEPT ![m] = None]
    /\ Burnt(m, owner)
    /\ edition' = [edition EXCEPT ![m] = None]
    /\ delegate' = [delegate EXCEPT ![m][owner] = Undelegated]
    /\ consented' = [consented EXCEPT ![m] = {}] /\ endorsed' = [endorsed EXCEPT ![m] = {}]
    /\ UNCHANGED <<clients, frozen, marks, use_record, coll_record, vault_combined, seeded>>

----------------------------------------------------------------------------
(* Collections. *)

\* the parent is written first: an item that is its own parent loses the count
WithSize(c, n) == [meta EXCEPT ![c].collection_details = n]

VerifyCollection(m, c, signer, delegated) ==
    /\ Exists(m) /\ CollectionVerifyIsValid(meta[m].collection, c)
    /\ HasCollectionAuthority(c, signer, delegated)
    /\ meta[c].collection_details = None
    /\ meta' = [meta EXCEPT ![m].collection.verified = TRUE]
    /\ endorsed' = [endorsed EXCEPT ![m] = @ \cup {c}]
    /\ UNCHANGED <<clients, tokenVars, edition, marks, use_record, coll_record, vault_combined,
                   consented, seeded>>

VerifySizedCollectionItem(m, c, signer, delegated) ==
    /\ Exists(m) /\ CollectionVerifyIsValid(meta[m].collection, c) /\ ~meta[m].collection.verified
    /\ HasCollectionAuthority(c, signer, delegated)
    /\ meta[c].collection_details \in 0..(MaxSize - 1)
    /\ meta' = [WithSize(c, meta[c].collection_details + 1) EXCEPT
                    ![m] = [meta[m] EXCEPT !.collection.verified = TRUE]]
    /\ endorsed' = [endorsed EXCEPT ![m] = @ \cup {c}]
    /\ UNCHANGED <<clients, tokenVars, edition, marks, use_record, coll_record, vault_combined,
                   consented, seeded>>

UnverifyCollection(m, c, signer, delegated) ==
    /\ Exists(m) /\ CollectionVerifyIsValid(meta[m].collection, c)
    /\ HasCollectionAuthority(c, signer, delegated)
    /\ meta[c].collection_details = None
    /\ meta' = [meta EXCEPT ![m].collection.verified = FALSE]
    /\ endorsed' = [endorsed EXCEPT ![m] = @ \ {c}]
    /\ UNCHANGED <<clients, tokenVars, edition, marks, use_record, coll_record, vault_combined,
                   consented, seeded>>

UnverifySizedCollectionItem(m, c, signer, delegated) ==
    /\ Exists(m) /\ CollectionVerifyIsValid(meta[m].collection, c) /\ meta[m].collection.verified
    /\ HasCollectionAuthority(c, signer, delegated)
    /\ meta[c].collection_details \in Nat \ {0}
    /\ meta' = [WithSize(c, meta[c].collection_details - 1) EXCEPT
                    ![m] = [meta[m] EXCEPT !.collection.verified = FALSE]]
    /\ endorsed' = [endorsed EXCEPT ![m] = @ \ {c}]
    /\ UNCHANGED <<clients, tokenVars, edition, marks, use_record, coll_record, vault_combined,
                   consented, seeded>>

\* item and collection have the same update authority, which is named and need not sign
SetAndVerify(m, c, signer, delegated) ==
    /\ Exists(m) /\ IsCollection(c)
    /\ meta[m].update_authority = meta[c].update_authority
    /\ HasCollectionAuthority(c, signer, delegated)
    /\ endorsed' = [endorsed EXCEPT ![m] = @ \cup {c}]
    /\ UNCHANGED <<clients, tokenVars, edition, marks, use_record, coll_record, vault_combined,
                   consented, seeded>>
Verified(c) == [key |-> c, verified |-> TRUE]

SetAndVerifyCollection(m, c, signer, delegated) ==
    /\ SetAndVerify(m, c, signer, delegated)
    /\ meta[c].collection_details = None
    /\ meta' = [meta EXCEPT ![m].collection = Verified(c)]

SetAndVerifySizedCollectionItem(m, c, signer, delegated) ==
    /\ SetAndVerify(m, c, signer, delegated)
    /\ meta[m].collection # None => ~meta[m].collection.verified
    /\ meta[c].collection_details \in 0..(MaxSize - 1)
    /\ meta' = [WithSize(c, meta[c].collection_details + 1) EXCEPT
                    ![m] = [meta[m] EXCEPT !.collection = Verified(c)]]

\* an old collection gets its size once
SetCollectionSize(c, signer, delegated, size) ==
    /\ HasCollectionAuthority(c, signer, delegated)
    /\ meta[c].collection_details = None
    /\ meta' = WithSize(c, size)
    /\ UNCHANGED <<clients, tokenVars, edition, marks, use_record, coll_record, vault_combined, historyVars>>

ApproveCollectionAuthority(c, w) ==
    /\ Exists(c) /\ meta[c].update_authority \in Wallets /\ w \notin coll_record[c]
    /\ coll_record' = [coll_record EXCEPT ![c] = @ \cup {w}]
    /\ UNCHANGED <<clients, tokenVars, meta, edition, marks, use_record, vault_combined, historyVars>>

\* the update authority revokes, or the delegate itself
RevokeCollectionAuthority(c, w, signer) ==
    /\ Exists(c) /\ signer \in {meta[c].update_authority, w} /\ w \in coll_record[c]
    /\ coll_record' = [coll_record EXCEPT ![c] = @ \ {w}]
    /\ UNCHANGED <<clients, tokenVars, meta, edition, marks, use_record, vault_combined, historyVars>>

----------------------------------------------------------------------------
(* Uses, and freezing by a delegate. *)

ApproveUseAuthority(m, owner, user, n) ==
    /\ CurrentlyHolding(m, owner) /\ meta[m].uses # None
    /\ use_record[m][user] = None /\ n <= meta[m].uses.remaining
    /\ use_record' = [use_record EXCEPT ![m][user] = n]
    /\ IF meta[m].uses.use_method = "Burn"
         THEN /\ ~frozen[m][owner]
              /\ delegate' = [delegate EXCEPT ![m][owner] = [to |-> Burner, amount |-> 1]]
         ELSE UNCHANGED delegate
    /\ UNCHANGED <<clients, mint, held, frozen, meta, edition, marks, coll_record,
                   vault_combined, historyVars>>

RevokeUseAuthority(m, owner, user) ==
    /\ CurrentlyHolding(m, owner) /\ meta[m].uses # None
    /\ use_record[m][user] # None
    /\ use_record' = [use_record EXCEPT ![m][user] = None]
    /\ IF meta[m].uses.use_method = "Burn"
         THEN ~frozen[m][owner] /\ delegate' = [delegate EXCEPT ![m][owner] = Undelegated]
         ELSE UNCHANGED delegate
    /\ UNCHANGED <<clients, mint, held, frozen, meta, edition, marks, coll_record,
                   vault_combined, historyVars>>

UsesLeft(m, n) == n <= meta[m].uses.total /\ n <= meta[m].uses.remaining

\* the owner uses its token, or an approved user does; the last use may burn it
Utilize(m, user, owner, approved, n) ==
    LET left == meta[m].uses.remaining - n
        burns == meta[m].uses.use_method = "Burn" /\ left = 0
    IN
    /\ CurrentlyHolding(m, owner) /\ meta[m].uses # None
    /\ UsesLeft(m, n)
    /\ meta' = [meta EXCEPT ![m].uses.remaining = left]
    /\ IF approved THEN /\ use_record[m][user] # None /\ n <= use_record[m][user]
                        /\ use_record' = [use_record EXCEPT ![m][user] = @ - n]
                   ELSE user = owner /\ UNCHANGED use_record
    /\ IF burns
         THEN /\ ~frozen[m][owner] /\ Burnt(m, owner)
              /\ IF approved
                   THEN /\ delegate[m][owner].to = Burner
                        /\ delegate' = [delegate EXCEPT ![m][owner] = Undelegated]
                   ELSE UNCHANGED delegate
         ELSE UNCHANGED <<mint, held, delegate>>
    /\ UNCHANGED <<clients, frozen, edition, marks, coll_record, vault_combined, historyVars>>

FreezeDelegatedAccount(m, owner, signer) ==
    /\ EditionFreezes(m) /\ DelegatedTokens(m, owner, signer) /\ ~frozen[m][owner]
    /\ frozen' = [frozen EXCEPT ![m][owner] = TRUE]
    /\ UNCHANGED <<clients, mint, held, delegate, metaVars, vault_combined, historyVars>>

ThawDelegatedAccount(m, owner, signer) ==
    /\ EditionFreezes(m) /\ DelegatedTokens(m, owner, signer) /\ frozen[m][owner]
    /\ frozen' = [frozen EXCEPT ![m][owner] = FALSE]
    /\ UNCHANGED <<clients, mint, held, delegate, metaVars, vault_combined, historyVars>>

----------------------------------------------------------------------------
(* A mint has one token, in the hands of its maker, until somebody mints more. *)

LegacyMaster(m) == clients.legacy[m]
Init ==
    /\ clients \in Clients
    /\ mint = [m \in Mints |-> IF m \in DOMAIN clients.legacy
                 THEN [authority |-> m, freeze |-> m, supply |-> 1]
                 ELSE [authority |-> clients.maker, freeze |-> clients.freeze, supply |-> 1]]
    /\ held = [m \in Mints |-> [w \in Holders |-> IF w = clients.maker THEN 1 ELSE 0]]
    /\ delegate = [m \in Mints |-> [w \in Holders |-> Undelegated]]
    /\ frozen = [m \in Mints |-> [w \in Holders |-> FALSE]]
    /\ edition = [m \in Mints |-> IF m \in DOMAIN clients.legacy THEN LegacyMaster(m) ELSE None]
    /\ meta = [m \in Mints |-> IF m \in DOMAIN clients.legacy
                 THEN NewMetadata(m, clients.maker,
                        [creators |-> << >>, collection |-> None, uses |-> None], TRUE, None, None)
                 ELSE None]
    /\ marks = [m \in Mints |-> {}]
    /\ use_record = [m \in Mints |-> [w \in Wallets |-> None]]
    /\ coll_record = [m \in Mints |-> {}]
    /\ vault_combined = FALSE
    /\ consented = [m \in Mints |-> {}] /\ endorsed = [m \in Mints |-> {}] /\ seeded = {}

Does(op) == op \in clients.ops

TokenProgram ==
    \/ \E m \in clients.transfers, from \in Wallets, to \in Holders : Transfer(m, from, to)
    \/ \E m \in clients.approvals, owner \in Wallets :
         \/ \E to \in Wallets : Approve(m, owner, to)
         \/ Revoke(m, owner)
    \/ \E m \in clients.minting, w \in Wallets : MintTo(m, w)
    \/ \E m \in DOMAIN clients.legacy : BurnPrinting(m)

Create ==
    \E m \in clients.mints, signer \in clients.signers, authority \in clients.authorities, signs \in BOOLEAN,
       data \in clients.data, is_mutable \in clients.mutable :
        \/ Does("create") /\ DeprecatedCreateMetadata(m, signer, authority, signs, data.creators, is_mutable)
        \/ Does("create v2") /\ CreateMetadataV2(m, signer, authority, signs, data, is_mutable)
        \/ \E sized \in clients.sized :
             CreateMetadataV3(m, signer, authority, signs, data, is_mutable, sized)

Update ==
    \E m \in Mints, signer \in Wallets, authority \in Option(clients.authorities),
       sale \in Option(clients.sales) :
        Does("update") /\
        (\/ \E data \in Option(clients.updates), is_mutable \in Option(clients.mutable) :
              UpdateMetadata(m, signer, data, authority, sale, is_mutable)
         \/ \E creators \in Option({d.creators : d \in clients.updates}) :
              DeprecatedUpdateMetadata(m, signer, creators, authority, sale))

Sign ==
    \E m \in Mints :
        \/ \E w \in Wallets : Does("sign") /\ (\/ UpdatePrimarySaleHappenedViaToken(m, w)
                                              \/ SignMetadata(m, w)
                                              \/ RemoveCreatorVerification(m, w))
        \/ \E with_edition \in BOOLEAN : Does("standard") /\ SetTokenStandard(m, with_edition)

Edit ==
    \/ \E m \in Mints, max_supply \in clients.supplies, writable \in clients.writable :
         CreateMasterEdition(m, max_supply, writable)
    \/ \E m \in Mints : ConvertMasterEditionV1ToV2(m)
    \/ \E m \in Mints, p \in Mints, n \in clients.numbers, owner \in Wallets,
          authority \in clients.authorities :
         \/ MintNewEditionViaToken(m, owner, p, n, authority)
         \/ MintNewEditionViaVaultProxy(m, p, n, authority)
    \/ \E m \in Mints, owner \in Wallets, c \in Option(Mints) : Does("burn") /\ BurnNft(m, owner, c)

Collect ==
    \E c \in Mints, signer \in Wallets :
        \/ \E m \in Mints, delegated \in BOOLEAN :
             Does("collect") /\ (\/ VerifyCollection(m, c, signer, delegated)
                                \/ VerifySizedCollectionItem(m, c, signer, delegated)
                                \/ UnverifyCollection(m, c, signer, delegated)
                                \/ UnverifySizedCollectionItem(m, c, signer, delegated)
                                \/ SetAndVerifyCollection(m, c, signer, delegated)
                                \/ SetAndVerifySizedCollectionItem(m, c, signer, delegated))
        \/ \E delegated \in BOOLEAN, size \in clients.sizes :
             SetCollectionSize(c, signer, delegated, size)
        \/ \E w \in clients.delegates : \/ ApproveCollectionAuthority(c, w)
                                       \/ RevokeCollectionAuthority(c, w, signer)

Use ==
    \E m \in Mints, owner \in Wallets, user \in Wallets :
        \/ \E n \in clients.uses : \/ ApproveUseAuthority(m, owner, user, n)
                                   \/ Utilize(m, user, owner, TRUE, n)
                                   \/ Utilize(m, user, owner, FALSE, n)
        \/ RevokeUseAuthority(m, owner, user)
        \/ Does("freeze") /\ FreezeDelegatedAccount(m, owner, user)
        \/ Does("freeze") /\ ThawDelegatedAccount(m, owner, user)

Next == TokenProgram \/ (Does("vault") /\ VaultMoves) \/ Create \/ Update \/ Sign \/ Edit \/ Collect \/ Use
Spec == Init /\ [][Next]_vars

----------------------------------------------------------------------------
(* Properties. *)

(* Accounts have the shape the program gives them; a standard that speaks of an edition
   is only found beside that kind of edition (create_master_edition, mint_limited_edition,
   set_token_standard and burn_nft keep the two accounts in step). *)
TypeOK ==
    /\ mint \in [Mints -> [authority: Option(Wallets \cup Mints), freeze: Option(Wallets \cup Mints),
                           supply: 0..MaxTokens]]
    /\ held \in [Mints -> [Holders -> 0..MaxTokens]]
    /\ delegate \in [Mints -> [Holders -> [to: Option(Wallets \cup {Burner}), amount: {0, 1}]]]
    /\ frozen \in [Mints -> [Holders -> BOOLEAN]]
    /\ meta \in [Mints -> Option(Metadata)]
    /\ edition \in [Mints -> Option(MasterEdition \cup Edition)]
    /\ use_record \in [Mints -> [Wallets -> Option(Nat)]]
    /\ coll_record \in [Mints -> SUBSET Wallets]
    /\ \A m \in Mints : Exists(m) =>
         /\ meta[m].token_standard = "NonFungible" => IsMaster(m)
         /\ meta[m].token_standard = "NonFungibleEdition" =>
              edition[m] # None /\ edition[m].key = "EditionV1"

IsPrint(p) == edition[p] # None /\ edition[p].key = "EditionV1"

(* Every print has a number of its own, from 1 to the maximal supply of a master that
   is still there, marked in the master's ledger and within its supply: the marks are
   split over accounts, bytes and bits (EditionMarker), the supply is only raised to
   the highest number printed (calculate_supply_change), and masters may be burnt. *)
PrintsNumbered ==
    \A p \in Mints : IsPrint(p) =>
        LET m == edition[p].parent n == edition[p].edition IN
        /\ IsMaster(m) /\ n \in 1..edition[m].supply /\ Mark(n) \in marks[m]
        /\ edition[m].max_supply # None => edition[m].supply <= edition[m].max_supply
        /\ \A q \in Mints \ {p} : IsPrint(q) /\ edition[q].parent = m => edition[q].edition # n

(* An edition, master or print, never has a second token: its mint had one token when
   the edition account took the mint authority (transfer_mint_authority). *)
OneOfAKind == \A m \in Mints : edition[m] # None => mint[m].supply <= 1

(* A verified creator has signed for this metadata, or for the master of this print, and
   has not taken it back; the collection it is verified in has endorsed it or its master
   and has not taken it back (assert_data_valid, assert_collection_update_is_valid, over
   every handler that writes the metadata).  Metadata made by the seeder is excepted. *)
VerifiedByConsent ==
    \A m \in Mints : Exists(m) =>
        /\ \A c \in DOMAIN meta[m].creators :
             meta[m].creators[c] => c \in consented[m] \/ m \in seeded
        /\ meta[m].collection # None /\ meta[m].collection.verified =>
             meta[m].collection.key \in endorsed[m]

(* A frozen token can always be thawed by somebody who signs: its delegate cannot be
   changed, its amount neither, and its edition cannot be burnt meanwhile. *)
FrozenCanThaw ==
    \A m \in Mints, w \in Holders : frozen[m][w] =>
        /\ edition[m] # None /\ mint[m].freeze = m
        /\ delegate[m][w].to \in Wallets /\ DelegatedTokens(m, w, delegate[m][w].to)

(* Uses that have begun keep their method and total and only go down, whoever updates
   the metadata or uses it, as long as it has uses (assert_valid_use, process_utilize). *)
UsesOnlyGoDown ==
    [][\A m \in Mints : Exists(m) /\ meta'[m] # None =>
         LET old == meta[m].uses new == meta'[m].uses IN
         old # None /\ new # None /\ old.total # old.remaining =>
           /\ new.use_method = old.use_method /\ new.total = old.total
           /\ new.remaining <= old.remaining]_vars

(* No update changes a verified collection, as comments of
   process_update_metadata_accounts_v2 promise: it is for the collection's authority. *)
VerifiedCollectionStays ==
    [][Update => \A m \in Mints : Exists(m) =>
         LET old == meta[m].collection IN
         old # None /\ old.verified => meta'[m].collection = old]_vars
=============================================================================
