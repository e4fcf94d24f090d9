----------------------------- MODULE Bubblegum -----------------------------
(***************************************************************************)
(* The bubblegum program: compressed NFTs, the leaves of one Merkle tree.  *)
(* A wallet asks for mints, the creator of the tree or its delegate        *)
(* approves them, and a mint appends a leaf.  A leaf is transferred,       *)
(* delegated, burnt, verified by creators and collections; it is redeemed  *)
(* for a voucher, and the voucher turned into a token or back into the     *)
(* leaf.  The account holds only hashes: a caller repeats the content, and *)
(* a call whose content is not that of the leaf fails.  A hash is          *)
(* represented by what it is a hash of.                                    *)
(***************************************************************************)
EXTENDS Integers, FiniteSets, Functions

CONSTANTS
  Wallets,
  Signers,         \* wallets that sign transactions; the others are only named
  Receivers,       \* wallets that become owners and delegates
  Collections,     \* the metadata of collections, by their mint
  MintChoices,     \* MetadataArgs passed to mint_v1
  Capacities,      \* num_mints passed to the requests and to approve
  MaxDepth,        \* max_depth of the tree
  TreeAuthority,   \* the program's address for the tree: anybody mints with its request
  None

CollectionMetadata == [update_authority : Wallets, sized : BOOLEAN]
Creators == UNION {[S -> BOOLEAN] : S \in SUBSET Wallets}   \* address -> verified
MetadataArgs ==
  [ creators : Creators,
    collection : [key : DOMAIN Collections, verified : BOOLEAN] \cup {None} ]

ASSUME BubblegumAssumption ==
  /\ IsFiniteSet(Wallets) /\ Signers \subseteq Wallets /\ Receivers \subseteq Wallets
  /\ Collections \in [DOMAIN Collections -> CollectionMetadata]
  /\ MintChoices \subseteq MetadataArgs
  /\ Capacities \subseteq Nat
  /\ MaxDepth \in Nat
  /\ TreeAuthority \notin Wallets
  /\ None \notin Wallets /\ None \notin [key : DOMAIN Collections, verified : BOOLEAN]

TotalMintCapacity == 2 ^ MaxDepth
Nonces == 0 .. TotalMintCapacity - 1
Authorities == Wallets \cup {TreeAuthority}

TreeConfig ==
  [creator : Wallets, delegate : Wallets, num_mints_approved : Nat, num_minted : Nat]
MintRequest == [num_mints_requested : Nat, num_mints_approved : Nat]
LeafSchema ==
  [owner : Wallets, delegate : Wallets, data_hash : MetadataArgs, creator_hash : Creators]

ASSUME AbsentAssumption == None \notin TreeConfig \cup MintRequest \cup LeafSchema

VARIABLES
  tree,     \* TreeConfig
  request,  \* MintRequest by mint authority
  leaf,     \* the nodes of the tree by index, which is the nonce of the leaf
  voucher,  \* Voucher by nonce
  token     \* the content of the token a leaf was decompressed into, by nonce

vars == <<tree, request, leaf, voucher, token>>
leafVars == <<leaf, voucher, token>>

TypeOK ==
  /\ tree \in TreeConfig \cup {None}
  /\ request \in [Authorities -> MintRequest \cup {None}]
  /\ leaf \in [Nonces -> LeafSchema \cup {None}]
  /\ voucher \in [Nonces -> LeafSchema \cup {None}]
  /\ token \in [Nonces -> MetadataArgs \cup {None}]

Init ==
  /\ tree = None
  /\ request = [a \in Authorities |-> None]
  /\ leaf = [n \in Nonces |-> None]
  /\ voucher = [n \in Nonces |-> None]
  /\ token = [n \in Nonces |-> None]
----------------------------------------------------------------------------
(***************************************************************************)
(* The tree and who may mint.                                              *)
(***************************************************************************)
CreateTree(s) ==
  /\ tree = None
  /\ tree' = [creator |-> s, delegate |-> s, num_mints_approved |-> 0, num_minted |-> 0]
  /\ UNCHANGED <<request, leafVars>>

SetTreeDelegate(s, new) ==
  /\ tree # None /\ s = tree.creator
  /\ tree' = [tree EXCEPT !.delegate = new]
  /\ UNCHANGED <<request, leafVars>>

SaturatingSub(a, b) == IF a > b THEN a - b ELSE 0

(* Mutant: what is minted is forgotten. *)
ContainsCapacityToApprove(n) == n <= TotalMintCapacity

(* What is minted was approved before: it is counted twice.                 *)
ContainsMintCapacity(n) ==
  n <= SaturatingSub(SaturatingSub(TotalMintCapacity, tree.num_minted), tree.num_mints_approved)

(* request_mint_authority and create_default_mint_request; what is approved *)
(* already stays approved.                                                 *)
SetMintRequest(a, n) ==
  /\ tree # None
  /\ ContainsMintCapacity(n)
  /\ request' = [request EXCEPT ![a] =
       [ num_mints_requested |-> n,
         num_mints_approved |-> IF @ = None THEN 0 ELSE @.num_mints_approved ]]
  /\ UNCHANGED <<tree, leafVars>>
RequestMintAuthority(s, n) == SetMintRequest(s, n)
CreateDefaultMintRequest(s, n) ==
  tree # None /\ s = tree.creator /\ SetMintRequest(TreeAuthority, n)

ApproveMintAuthorityRequest(s, a, n) ==
  /\ tree # None /\ s \in {tree.creator, tree.delegate}
  /\ request[a] # None
  /\ ContainsMintCapacity(n)
  /\ n <= request[a].num_mints_requested
  /\ tree' = [tree EXCEPT !.num_mints_approved = @ + n]
  /\ request' = [request EXCEPT ![a].num_mints_requested = @ - n,
                                ![a].num_mints_approved = @ + n]
  /\ UNCHANGED leafVars

(* Closing gives back what is approved; the address of the tree cannot sign. *)
CloseMintRequest(s) ==
  /\ tree # None /\ request[s] # None
  /\ tree' = [tree EXCEPT !.num_mints_approved =
                SaturatingSub(@, request[s].num_mints_approved)]
  /\ request' = [request EXCEPT ![s] = None]
  /\ UNCHANGED leafVars
----------------------------------------------------------------------------
(***************************************************************************)
(* Minting.                                                                *)
(***************************************************************************)
VerifiedIn(data) == {c \in DOMAIN data.creators : data.creators[c]}

(* "Use the metadata auth to check whether we can allow `verified`".        *)
CreatorsSigned(data, signers) == VerifiedIn(data) \subseteq signers

UnverifiedCollection(data) ==
  data.collection \in [key : DOMAIN Collections, verified : {FALSE}] \cup {None}

(* One approval is used; a request with nothing approved or asked for left  *)
(* is closed.  The approval is not taken off the tree's own count.          *)
AfterMint(r) ==
  LET left == [r EXCEPT !.num_mints_approved = @ - 1]
  IN IF left.num_mints_approved = 0 /\ left.num_mints_requested = 0 THEN None ELSE left

NewLeaf(owner, delegate, data) ==
  [owner |-> owner, delegate |-> delegate, data_hash |-> data, creator_hash |-> data.creators]

(* Mint authority a signs unless it is the tree's address; signers are the  *)
(* remaining accounts that sign.  The tree program has room for its leaves. *)
MintV1(a, signers, owner, delegate, data) ==
  /\ tree # None /\ request[a] # None
  /\ a \in Signers \cup {TreeAuthority}
  /\ CreatorsSigned(data, signers \cup ({a} \ {TreeAuthority}))
  /\ UnverifiedCollection(data)
  /\ request[a].num_mints_approved > 0
  /\ tree.num_minted \in Nonces
  /\ leaf' = [leaf EXCEPT ![tree.num_minted] = NewLeaf(owner, delegate, data)]
  /\ tree' = [tree EXCEPT !.num_minted = @ + 1]
  /\ request' = [request EXCEPT ![a] = AfterMint(@)]
  /\ UNCHANGED <<voucher, token>>
----------------------------------------------------------------------------
(***************************************************************************)
(* Verification.  Nobody but the creator or collection authority signs:     *)
(* owner and delegate are only named.                                      *)
(***************************************************************************)
(* The leaf's content with creator c's flag set; the new creator hash is    *)
(* taken from the message before the flag is changed.                       *)
VerifyCreatorTo(n, c, verify) ==
  /\ leaf[n] # None
  /\ c \in DOMAIN leaf[n].data_hash.creators
  /\ leaf[n].creator_hash = leaf[n].data_hash.creators
  /\ leaf' = [leaf EXCEPT ![n].data_hash.creators[c] = verify,
                          ![n].creator_hash = leaf[n].data_hash.creators]
  /\ UNCHANGED <<tree, request, voucher, token>>

(* What assert_collection_verify_is_valid and assert_has_collection_authority *)
(* ask of collection k; token-metadata refuses to change the size of a sized *)
(* one, the instruction for it being switched off.                          *)
CollectionAuthority(k, s) == s = Collections[k].update_authority /\ ~Collections[k].sized

VerifyCollectionTo(n, s, verify) ==
  /\ leaf[n] # None
  /\ leaf[n].data_hash.collection # None
  /\ leaf[n].data_hash.collection.verified # verify
  /\ CollectionAuthority(leaf[n].data_hash.collection.key, s)
  /\ leaf' = [leaf EXCEPT ![n].data_hash.collection.verified = verify]
  /\ UNCHANGED <<tree, request, voucher, token>>

(* t is the account given as tree delegate; s signs for the collection.     *)
SetAndVerifyCollection(n, k, s, t) ==
  /\ leaf[n] # None
  /\ \/ t \in Signers \cap {tree.creator, tree.delegate}
     \/ Collections[k].update_authority \in {tree.creator, tree.delegate}
  /\ CollectionAuthority(k, s)
  /\ leaf' = [leaf EXCEPT ![n].data_hash.collection = [key |-> k, verified |-> TRUE]]
  /\ UNCHANGED <<tree, request, voucher, token>>
----------------------------------------------------------------------------
(***************************************************************************)
(* Moving a leaf.                                                          *)
(***************************************************************************)
(* Mutant: the leaf is given to whoever asks. *)
Anybody(n, s) == TRUE

(* "Transfers must be initiated by either the leaf owner or leaf delegate." *)
LeafAuthority(n, s) == s \in {leaf[n].owner, leaf[n].delegate}

Transfer(n, s, new) ==
  /\ leaf[n] # None /\ LeafAuthority(n, s)
  /\ leaf' = [leaf EXCEPT ![n].owner = new, ![n].delegate = new]
  /\ UNCHANGED <<tree, request, voucher, token>>

Delegate(n, s, new) ==
  /\ leaf[n] # None /\ s = leaf[n].owner
  /\ leaf' = [leaf EXCEPT ![n].delegate = new]
  /\ UNCHANGED <<tree, request, voucher, token>>

Burn(n, s) ==
  /\ leaf[n] # None /\ LeafAuthority(n, s)
  /\ leaf' = [leaf EXCEPT ![n] = None]
  /\ UNCHANGED <<tree, request, voucher, token>>

(* Mutant: the leaf stays in the tree. *)
RedeemCopy(n, s) ==
  /\ leaf[n] # None /\ s = leaf[n].owner
  /\ voucher[n] = None
  /\ voucher' = [voucher EXCEPT ![n] = leaf[n]]
  /\ UNCHANGED <<tree, request, leaf, token>>

Redeem(n, s) ==
  /\ leaf[n] # None /\ s = leaf[n].owner
  /\ voucher[n] = None
  /\ leaf' = [leaf EXCEPT ![n] = None]
  /\ voucher' = [voucher EXCEPT ![n] = leaf[n]]
  /\ UNCHANGED <<tree, request, token>>

(* Mutant: the leaf is put back at the last index that was used. *)
CancelRedeemAtEnd(n, s) ==
  /\ voucher[n] # None /\ s = voucher[n].owner
  /\ leaf[tree.num_minted - 1] = None
  /\ leaf' = [leaf EXCEPT ![tree.num_minted - 1] = voucher[n]]
  /\ voucher' = [voucher EXCEPT ![n] = None]
  /\ UNCHANGED <<tree, request, token>>

(* The empty node must still be at the index of the voucher.                *)
CancelRedeem(n, s) ==
  /\ voucher[n] # None /\ s = voucher[n].owner
  /\ leaf[n] = None
  /\ leaf' = [leaf EXCEPT ![n] = voucher[n]]
  /\ voucher' = [voucher EXCEPT ![n] = None]
  /\ UNCHANGED <<tree, request, token>>

(* Mint, metadata and master edition are created at addresses made from the *)
(* nonce.  As long as token-metadata does not trust this program it refuses *)
(* creators and collections that are verified already.                      *)
DecompressV1(n, s) ==
  /\ voucher[n] # None /\ s = voucher[n].owner
  /\ token[n] = None
  /\ VerifiedIn(voucher[n].data_hash) = {}
  /\ UnverifiedCollection(voucher[n].data_hash)
  /\ token' = [token EXCEPT ![n] = voucher[n].data_hash]
  /\ voucher' = [voucher EXCEPT ![n] = None]
  /\ UNCHANGED <<tree, request, leaf>>
----------------------------------------------------------------------------
MintRequests(s) ==
  \/ \E n \in Capacities : RequestMintAuthority(s, n)
  \/ \E n \in Capacities : CreateDefaultMintRequest(s, n)
  \/ \E a \in Authorities, n \in Capacities : ApproveMintAuthorityRequest(s, a, n)
  \/ CloseMintRequest(s)

Verifications(s) ==
  \E n \in Nonces :
    \/ \E verify \in BOOLEAN : VerifyCreatorTo(n, s, verify)
    \/ \E verify \in BOOLEAN : VerifyCollectionTo(n, s, verify)
    \/ \E k \in DOMAIN Collections, t \in Wallets : SetAndVerifyCollection(n, k, s, t)

Moves(s) ==
  \E n \in Nonces :
    \/ \E new \in Receivers : Transfer(n, s, new)
    \/ \E new \in Receivers : Delegate(n, s, new)
    \/ Burn(n, s)
    \/ Redeem(n, s)
    \/ CancelRedeem(n, s)
    \/ DecompressV1(n, s)

Next ==
  \/ \E a \in Authorities, signers \in SUBSET Signers, owner, delegate \in Receivers,
        data \in MintChoices : MintV1(a, signers, owner, delegate, data)
  \/ \E s \in Signers :
       \/ CreateTree(s)
       \/ \E new \in Receivers : SetTreeDelegate(s, new)
       \/ MintRequests(s)
       \/ Verifications(s)
       \/ Moves(s)

Spec == Init /\ [][Next]_vars
----------------------------------------------------------------------------
(***************************************************************************)
(* Safety.                                                                 *)
(***************************************************************************)
(* Whatever is asked for, approved, closed and minted in between, the       *)
(* approvals that are outstanding fit into the rest of the tree, and the    *)
(* tree counts them together with what is minted: no approved mint fails   *)
(* because the tree is full (contains_mint_capacity).                       *)
Outstanding ==
  SumFunction([a \in Authorities |->
                 IF request[a] = None THEN 0 ELSE request[a].num_mints_approved])
ApprovalsHonoured ==
  tree # None =>
    /\ tree.num_mints_approved = tree.num_minted + Outstanding
    /\ tree.num_mints_approved <= TotalMintCapacity

(* A compressed NFT is a leaf, a voucher or a token, never two of them, and  *)
(* none before it is minted (redeem, cancel_redeem, decompress_v1).         *)
Minted(n) == tree # None /\ n < tree.num_minted
OneForm ==
  \A n \in Nonces :
    /\ leaf[n] # None => voucher[n] = None /\ token[n] = None
    /\ voucher[n] # None => token[n] = None
    /\ ~Minted(n) => leaf[n] = None /\ voucher[n] = None /\ token[n] = None

(* What is burnt or decompressed never returns to the tree, neither by a     *)
(* later mint nor by an old voucher, and a token stays.                     *)
Gone(n) == Minted(n) /\ leaf[n] = None /\ voucher[n] = None
GoneForGood ==
  [][\A n \in Nonces : /\ Gone(n) => Gone(n)'
                       /\ token[n] # None => token'[n] = token[n]]_vars

(* A leaf whose owner and delegate sign nothing keeps both whoever else acts *)
(* on it, a voucher stays with such an owner, and no flag says verified of  *)
(* a creator who signs nothing.                                             *)
ChangesSigned ==
  [][\A n \in Nonces :
       /\ (leaf[n] # None /\ {leaf[n].owner, leaf[n].delegate} \cap Signers = {}) =>
            /\ leaf'[n] # None
            /\ leaf'[n].owner = leaf[n].owner /\ leaf'[n].delegate = leaf[n].delegate
       /\ (voucher[n] # None /\ voucher[n].owner \notin Signers) => voucher'[n] = voucher[n]
       /\ (leaf'[n] # None /\ leaf[n] = None /\ voucher[n] = None) =>
            VerifiedIn(leaf'[n].data_hash) \subseteq Signers
       /\ (leaf'[n] # None /\ leaf[n] # None) =>
            VerifiedIn(leaf'[n].data_hash) \ VerifiedIn(leaf[n].data_hash) \subseteq Signers]_vars
----------------------------------------------------------------------------
(***************************************************************************)
(* What the code says and does not do.                                     *)
(***************************************************************************)
(* lib.rs:691 "Calculate new creator hash." of the updated creators: the     *)
(* hash of creators in a leaf is that of the creators of its metadata.      *)
CreatorsHashed ==
  \A n \in Nonces : leaf[n] # None => leaf[n].creator_hash = leaf[n].data_hash.creators
=============================================================================
