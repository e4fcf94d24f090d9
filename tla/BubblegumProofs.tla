-------------------------- MODULE BubblegumProofs --------------------------
(***************************************************************************)
(* Proofs about the compressed NFTs of module Bubblegum, for any tree,     *)
(* wallets, collections and metadata.                                      *)
(***************************************************************************)
EXTENDS Bubblegum, Sums, TLAPS

USE DEF Authorities

(***************************************************************************)
(* Types.                                                                  *)
(***************************************************************************)
LEMMA Absent ==
  None \notin TreeConfig /\ None \notin MintRequest /\ None \notin LeafSchema
BY AbsentAssumption

LEMMA CreatorSet ==
  ASSUME NEW f \in Creators, NEW c \in DOMAIN f, NEW v \in BOOLEAN
  PROVE  [f EXCEPT ![c] = v] \in Creators
<1>1. PICK S \in SUBSET Wallets : f \in [S -> BOOLEAN]
  BY DEF Creators
<1>2. [f EXCEPT ![c] = v] \in [S -> BOOLEAN]
  BY <1>1
<1> QED BY <1>2 DEF Creators

LEMMA DecreaseTyped ==
  ASSUME NEW a \in Nat, NEW b \in Nat
  PROVE  SaturatingSub(a, b) \in Nat
BY DEF SaturatingSub

LEMMA InitTyped == Init => TypeOK
BY DEF Init, TypeOK

(* The tree and the requests keep their types under the instructions that    *)
(* leave the leaves alone.                                                  *)
LEMMA RequestsTyped ==
  ASSUME TypeOK, NEW s \in Signers,
         \/ CreateTree(s)
         \/ \E new \in Receivers : SetTreeDelegate(s, new)
         \/ MintRequests(s)
  PROVE  TypeOK'
<1> USE BubblegumAssumption, Absent DEF TypeOK, leafVars
<1>1. CASE CreateTree(s)
  BY <1>1 DEF CreateTree, TreeConfig
<1>2. ASSUME NEW new \in Receivers, SetTreeDelegate(s, new) PROVE TypeOK'
  BY <1>2 DEF SetTreeDelegate, TreeConfig
<1>3. ASSUME NEW a \in Authorities, NEW n \in Capacities, SetMintRequest(a, n) PROVE TypeOK'
  <2>1. request' \in [Authorities -> MintRequest \cup {None}]
    BY <1>3 DEF SetMintRequest, MintRequest
  <2> QED BY <1>3, <2>1 DEF SetMintRequest
<1>4. ASSUME NEW n \in Capacities, RequestMintAuthority(s, n) PROVE TypeOK'
  BY <1>3, <1>4 DEF RequestMintAuthority
<1>5. ASSUME NEW n \in Capacities, CreateDefaultMintRequest(s, n) PROVE TypeOK'
  BY <1>3, <1>5 DEF CreateDefaultMintRequest
<1>6. ASSUME NEW a \in Authorities, NEW n \in Capacities, ApproveMintAuthorityRequest(s, a, n)
      PROVE  TypeOK'
  <2>1. tree \in TreeConfig /\ request[a] \in MintRequest /\ n \in Nat
    BY <1>6 DEF ApproveMintAuthorityRequest
  <2>2. tree' \in TreeConfig
    BY <1>6, <2>1 DEF ApproveMintAuthorityRequest, TreeConfig, MintRequest
  <2>3. request' \in [Authorities -> MintRequest \cup {None}]
    BY <1>6, <2>1 DEF ApproveMintAuthorityRequest, MintRequest
  <2> QED BY <1>6, <2>2, <2>3 DEF ApproveMintAuthorityRequest
<1>7. CASE CloseMintRequest(s)
  <2>1. tree \in TreeConfig /\ request[s] \in MintRequest
    BY <1>7 DEF CloseMintRequest
  <2>2. SaturatingSub(tree.num_mints_approved, request[s].num_mints_approved) \in Nat
    BY <2>1, DecreaseTyped DEF TreeConfig, MintRequest
  <2>3. tree' \in TreeConfig
    BY <1>7, <2>1, <2>2 DEF CloseMintRequest, TreeConfig
  <2> QED BY <1>7, <2>3 DEF CloseMintRequest
<1> QED BY <1>1, <1>2, <1>4, <1>5, <1>6, <1>7 DEF MintRequests

LEMMA MintTyped ==
  ASSUME TypeOK, NEW a \in Authorities, NEW signers \in SUBSET Signers,
         NEW owner \in Receivers, NEW delegate \in Receivers, NEW data \in MintChoices,
         MintV1(a, signers, owner, delegate, data)
  PROVE  TypeOK'
<1> USE BubblegumAssumption, Absent DEF TypeOK
<1>1. tree \in TreeConfig /\ request[a] \in MintRequest
  BY DEF MintV1
<1>2. tree' \in TreeConfig
  BY <1>1 DEF MintV1, TreeConfig
<1>3. AfterMint(request[a]) \in MintRequest \cup {None}
  BY <1>1 DEF MintV1, AfterMint, MintRequest
<1>4. request' \in [Authorities -> MintRequest \cup {None}]
  BY <1>3 DEF MintV1
<1>5. NewLeaf(owner, delegate, data) \in LeafSchema
  BY DEF NewLeaf, LeafSchema, MetadataArgs
<1>6. leaf' \in [Nonces -> LeafSchema \cup {None}]
  BY <1>5 DEF MintV1
<1> QED BY <1>2, <1>4, <1>6 DEF MintV1

LEMMA VerificationsTyped ==
  ASSUME TypeOK, NEW s \in Signers, Verifications(s)
  PROVE  TypeOK'
<1> USE BubblegumAssumption, Absent DEF TypeOK
<1>1. PICK n \in Nonces :
        \/ \E verify \in BOOLEAN : VerifyCreatorTo(n, s, verify)
        \/ \E verify \in BOOLEAN : VerifyCollectionTo(n, s, verify)
        \/ \E k \in DOMAIN Collections, t \in Wallets : SetAndVerifyCollection(n, k, s, t)
  BY DEF Verifications
<1>2. leaf[n] # None
  BY <1>1 DEF VerifyCreatorTo, VerifyCollectionTo, SetAndVerifyCollection
<1>3. leaf[n] \in LeafSchema
  BY <1>2
<1>4. UNCHANGED <<tree, request, voucher, token>>
  BY <1>1 DEF VerifyCreatorTo, VerifyCollectionTo, SetAndVerifyCollection
<1>5. ASSUME NEW verify \in BOOLEAN, VerifyCreatorTo(n, s, verify)
      PROVE  leaf' \in [Nonces -> LeafSchema \cup {None}]
  <2>1. leaf[n].data_hash.creators \in Creators
    BY <1>3 DEF LeafSchema, MetadataArgs
  <2>2. [leaf[n].data_hash.creators EXCEPT ![s] = verify] \in Creators
    BY <2>1, <1>5, CreatorSet DEF VerifyCreatorTo
  <2>3. [leaf[n] EXCEPT !.data_hash.creators[s] = verify,
                        !.creator_hash = leaf[n].data_hash.creators] \in LeafSchema
    BY <1>3, <2>1, <2>2 DEF LeafSchema, MetadataArgs
  <2> QED BY <1>5, <2>3 DEF VerifyCreatorTo
<1>6. ASSUME NEW verify \in BOOLEAN, VerifyCollectionTo(n, s, verify)
      PROVE  leaf' \in [Nonces -> LeafSchema \cup {None}]
  <2>1. [leaf[n] EXCEPT !.data_hash.collection.verified = verify] \in LeafSchema
    BY <1>3, <1>6 DEF LeafSchema, MetadataArgs, VerifyCollectionTo
  <2> QED BY <1>6, <2>1 DEF VerifyCollectionTo
<1>7. ASSUME NEW k \in DOMAIN Collections, NEW t \in Wallets, SetAndVerifyCollection(n, k, s, t)
      PROVE  leaf' \in [Nonces -> LeafSchema \cup {None}]
  <2>1. [leaf[n] EXCEPT !.data_hash.collection = [key |-> k, verified |-> TRUE]] \in LeafSchema
    BY <1>3 DEF LeafSchema, MetadataArgs
  <2> QED BY <1>7, <2>1 DEF SetAndVerifyCollection
<1> QED BY <1>1, <1>4, <1>5, <1>6, <1>7

LEMMA MovesTyped ==
  ASSUME TypeOK, NEW s \in Signers, Moves(s)
  PROVE  TypeOK'
<1> USE BubblegumAssumption, Absent DEF TypeOK
<1>1. PICK n \in Nonces :
        \/ \E new \in Receivers : Transfer(n, s, new)
        \/ \E new \in Receivers : Delegate(n, s, new)
        \/ Burn(n, s) \/ Redeem(n, s) \/ CancelRedeem(n, s) \/ DecompressV1(n, s)
  BY DEF Moves
<1>2. ASSUME NEW new \in Receivers, Transfer(n, s, new) PROVE TypeOK'
  <2>1. leaf[n] \in LeafSchema
    BY <1>2 DEF Transfer
  <2>2. [leaf[n] EXCEPT !.owner = new, !.delegate = new] \in LeafSchema
    BY <2>1 DEF LeafSchema
  <2> QED BY <1>2, <2>2 DEF Transfer
<1>3. ASSUME NEW new \in Receivers, Delegate(n, s, new) PROVE TypeOK'
  <2>1. leaf[n] \in LeafSchema
    BY <1>3 DEF Delegate
  <2>2. [leaf[n] EXCEPT !.delegate = new] \in LeafSchema
    BY <2>1 DEF LeafSchema
  <2> QED BY <1>3, <2>2 DEF Delegate
<1>4. CASE Burn(n, s) \/ Redeem(n, s) \/ CancelRedeem(n, s)
  BY <1>4 DEF Burn, Redeem, CancelRedeem
<1>5. CASE DecompressV1(n, s)
  <2>1. voucher[n].data_hash \in MetadataArgs
    BY <1>5 DEF DecompressV1, LeafSchema
  <2> QED BY <1>5, <2>1 DEF DecompressV1
<1> QED BY <1>1, <1>2, <1>3, <1>4, <1>5

LEMMA StepTyped == TypeOK /\ [Next]_vars => TypeOK'
<1> SUFFICES ASSUME TypeOK, [Next]_vars PROVE TypeOK'
  OBVIOUS
<1>1. CASE UNCHANGED vars
  BY <1>1 DEF vars, TypeOK
<1>2. CASE Next
  BY <1>2, RequestsTyped, MintTyped, VerificationsTyped, MovesTyped DEF Next
<1> QED BY <1>1, <1>2

(* Every account keeps the form the program gives it.                       *)
THEOREM TypeCorrect == Spec => []TypeOK
BY InitTyped, StepTyped, PTL DEF Spec
----------------------------------------------------------------------------
(***************************************************************************)
(* Where a compressed NFT is, and who moves it.                            *)
(***************************************************************************)
FormInv == TypeOK /\ OneForm

GoneStep ==
  \A n \in Nonces : /\ Gone(n) => Gone(n)'
                    /\ token[n] # None => token'[n] = token[n]

SignedStep ==
  \A n \in Nonces :
    /\ (leaf[n] # None /\ {leaf[n].owner, leaf[n].delegate} \cap Signers = {}) =>
         /\ leaf'[n] # None
         /\ leaf'[n].owner = leaf[n].owner /\ leaf'[n].delegate = leaf[n].delegate
    /\ (voucher[n] # None /\ voucher[n].owner \notin Signers) => voucher'[n] = voucher[n]
    /\ (leaf'[n] # None /\ leaf[n] = None /\ voucher[n] = None) =>
         VerifiedIn(leaf'[n].data_hash) \subseteq Signers
    /\ (leaf'[n] # None /\ leaf[n] # None) =>
         VerifiedIn(leaf'[n].data_hash) \ VerifiedIn(leaf[n].data_hash) \subseteq Signers

LEMMA NoncesNat == \A n \in Nonces : n \in Int /\ n >= 0
BY DEF Nonces

(* A step that leaves the leaves and the count of mints alone. *)
LEMMA LeavesAlone ==
  ASSUME FormInv, UNCHANGED leafVars, \A n \in Nonces : Minted(n)' <=> Minted(n)
  PROVE  OneForm' /\ GoneStep /\ SignedStep
<1>1. leaf' = leaf /\ voucher' = voucher /\ token' = token
  BY DEF leafVars
<1>2. OneForm'
  BY <1>1 DEF FormInv, OneForm
<1>3. GoneStep
  BY <1>1 DEF GoneStep, Gone
<1>4. SignedStep
  BY <1>1 DEF SignedStep
<1> QED BY <1>2, <1>3, <1>4

LEMMA RequestsForm ==
  ASSUME FormInv, NEW s \in Signers,
         \/ CreateTree(s)
         \/ \E new \in Receivers : SetTreeDelegate(s, new)
         \/ MintRequests(s)
  PROVE  OneForm' /\ GoneStep /\ SignedStep
<1> USE Absent DEF FormInv, TypeOK
<1>1. UNCHANGED leafVars
  BY DEF CreateTree, SetTreeDelegate, MintRequests, RequestMintAuthority, SetMintRequest,
         CreateDefaultMintRequest, ApproveMintAuthorityRequest, CloseMintRequest
<1>2. CASE CreateTree(s)
  <2>1. tree = None /\ tree'.num_minted = 0
    BY <1>2 DEF CreateTree
  <2>2. \A n \in Nonces : ~Minted(n) /\ ~Minted(n)'
    BY <2>1, NoncesNat DEF Minted
  <2> QED BY <1>1, <2>2, LeavesAlone
<1>3. CASE ~CreateTree(s)
  <2>1. tree # None /\ tree \in TreeConfig
    BY <1>3 DEF SetTreeDelegate, MintRequests, RequestMintAuthority, SetMintRequest,
         CreateDefaultMintRequest, ApproveMintAuthorityRequest, CloseMintRequest
  <2>3. tree' # None /\ tree'.num_minted = tree.num_minted
    <3>1. ASSUME NEW x \in Nat, tree' = [tree EXCEPT !.num_mints_approved = x]
          PROVE  tree' \in TreeConfig /\ tree'.num_minted = tree.num_minted
      BY <2>1, <3>1 DEF TreeConfig
    <3>2. ASSUME NEW x \in Wallets, tree' = [tree EXCEPT !.delegate = x]
          PROVE  tree' \in TreeConfig /\ tree'.num_minted = tree.num_minted
      BY <2>1, <3>2 DEF TreeConfig
    <3>3. CASE \E new \in Receivers : SetTreeDelegate(s, new)
      BY <3>2, <3>3, Absent, BubblegumAssumption DEF SetTreeDelegate
    <3>4. ASSUME NEW a \in Authorities, NEW n \in Capacities, ApproveMintAuthorityRequest(s, a, n)
          PROVE  tree' \in TreeConfig /\ tree'.num_minted = tree.num_minted
      <4>1. tree.num_mints_approved + n \in Nat
        BY <2>1, BubblegumAssumption DEF TreeConfig
      <4> QED BY <3>1, <3>4, <4>1 DEF ApproveMintAuthorityRequest
    <3>5. CASE CloseMintRequest(s)
      <4>1. request[s] \in MintRequest
        BY <3>5, BubblegumAssumption DEF CloseMintRequest
      <4>2. SaturatingSub(tree.num_mints_approved, request[s].num_mints_approved) \in Nat
        BY <2>1, <4>1, DecreaseTyped DEF TreeConfig, MintRequest
      <4> QED BY <3>1, <3>5, <4>2 DEF CloseMintRequest
    <3>6. CASE UNCHANGED tree
      BY <2>1, <3>6
    <3>7. CASE \/ \E n \in Capacities : RequestMintAuthority(s, n)
               \/ \E n \in Capacities : CreateDefaultMintRequest(s, n)
      BY <3>6, <3>7 DEF RequestMintAuthority, CreateDefaultMintRequest, SetMintRequest
    <3>8. CASE \E a \in Authorities, n \in Capacities : ApproveMintAuthorityRequest(s, a, n)
      BY <3>4, <3>8
    <3> QED BY <1>3, <3>3, <3>5, <3>7, <3>8 DEF MintRequests
  <2>4. \A n \in Nonces : Minted(n)' <=> Minted(n)
    BY <2>1, <2>3 DEF Minted
  <2> QED BY <1>1, <2>4, LeavesAlone
<1> QED BY <1>2, <1>3

LEMMA MintForm ==
  ASSUME FormInv, NEW a \in Authorities, NEW signers \in SUBSET Signers,
         NEW owner \in Receivers, NEW delegate \in Receivers, NEW data \in MintChoices,
         MintV1(a, signers, owner, delegate, data)
  PROVE  OneForm' /\ GoneStep /\ SignedStep
<1> USE DEF FormInv
<1> DEFINE new == NewLeaf(owner, delegate, data)
<1>1. /\ tree # None /\ tree \in TreeConfig /\ tree.num_minted \in Nonces
      /\ voucher' = voucher /\ token' = token
  BY DEF MintV1, TypeOK
<1>2. leaf' = [leaf EXCEPT ![tree.num_minted] = new]
  BY DEF MintV1
<1>3. tree' # None /\ tree'.num_minted = tree.num_minted + 1
  <2>1. tree' = [tree EXCEPT !.num_minted = tree.num_minted + 1]
    BY DEF MintV1
  <2>2. tree' \in TreeConfig
    BY <1>1, <2>1 DEF TreeConfig
  <2> QED BY <1>1, <2>1, <2>2, Absent DEF TreeConfig
<1>4. new \in LeafSchema /\ new # None
  <2>1. new \in LeafSchema
    BY BubblegumAssumption DEF NewLeaf, LeafSchema, MetadataArgs
  <2> QED BY <2>1, Absent
<1>5. leaf'[tree.num_minted] = new /\ \A n \in Nonces \ {tree.num_minted} : leaf'[n] = leaf[n]
  BY <1>1, <1>2 DEF TypeOK
<1>6. ~Minted(tree.num_minted)
  BY <1>1, NoncesNat DEF Minted
<1>7. /\ leaf[tree.num_minted] = None /\ voucher[tree.num_minted] = None
      /\ token[tree.num_minted] = None
  BY <1>1, <1>6 DEF OneForm
<1>8. \A n \in Nonces : Minted(n)' <=> (Minted(n) \/ n = tree.num_minted)
  BY <1>1, <1>3, NoncesNat DEF Minted
<1>9. OneForm'
  BY <1>1, <1>5, <1>7, <1>8 DEF OneForm
<1>10. GoneStep
  BY <1>1, <1>5, <1>6, <1>8 DEF GoneStep, Gone
<1>11. VerifiedIn(data) \subseteq Signers
  BY DEF MintV1, CreatorsSigned
<1>12. SignedStep
  <2>1. new.data_hash = data
    BY DEF NewLeaf
  <2> QED BY <1>1, <1>5, <1>7, <1>11, <2>1 DEF SignedStep
<1> QED BY <1>9, <1>10, <1>12

LEMMA VerificationsForm ==
  ASSUME FormInv, NEW s \in Signers, Verifications(s)
  PROVE  OneForm' /\ GoneStep /\ SignedStep
<1> USE Absent DEF FormInv
<1>1. PICK n \in Nonces :
        \/ \E verify \in BOOLEAN : VerifyCreatorTo(n, s, verify)
        \/ \E verify \in BOOLEAN : VerifyCollectionTo(n, s, verify)
        \/ \E k \in DOMAIN Collections, t \in Wallets : SetAndVerifyCollection(n, k, s, t)
  BY DEF Verifications
<1>2. leaf[n] # None /\ UNCHANGED <<tree, request, voucher, token>>
  BY <1>1 DEF VerifyCreatorTo, VerifyCollectionTo, SetAndVerifyCollection
<1>3. leaf[n] \in LeafSchema
  BY <1>2 DEF TypeOK
<1>4. ASSUME NEW x, leaf' = [leaf EXCEPT ![n] = x], x \in LeafSchema,
             x.owner = leaf[n].owner, x.delegate = leaf[n].delegate,
             VerifiedIn(x.data_hash) \subseteq VerifiedIn(leaf[n].data_hash) \cup {s}
      PROVE  OneForm' /\ GoneStep /\ SignedStep
  <2>1. leaf'[n] = x /\ x # None /\ \A m \in Nonces \ {n} : leaf'[m] = leaf[m]
    BY <1>4 DEF TypeOK
  <2>2. OneForm'
    BY <1>2, <2>1 DEF OneForm, Minted
  <2>3. GoneStep
    BY <1>2, <2>1 DEF GoneStep, Gone, Minted
  <2>4. SignedStep
    BY <1>2, <1>4, <2>1 DEF SignedStep
  <2> QED BY <2>2, <2>3, <2>4
<1>5. ASSUME NEW verify \in BOOLEAN, VerifyCreatorTo(n, s, verify)
      PROVE  OneForm' /\ GoneStep /\ SignedStep
  <2> DEFINE old == leaf[n].data_hash
             f == [old.creators EXCEPT ![s] = verify]
             x == [leaf[n] EXCEPT !.data_hash.creators[s] = verify, !.creator_hash = old.creators]
  <2>1. leaf' = [leaf EXCEPT ![n] = x]
    BY <1>5 DEF VerifyCreatorTo
  <2>2. old \in MetadataArgs /\ old.creators \in Creators
    BY <1>3 DEF LeafSchema, MetadataArgs
  <2>3. f \in Creators /\ DOMAIN f = DOMAIN old.creators
    BY <2>2, <1>5, CreatorSet DEF VerifyCreatorTo
  <2>4. /\ x.owner = leaf[n].owner /\ x.delegate = leaf[n].delegate
        /\ x.data_hash.creators = f /\ x \in LeafSchema
    BY <1>3, <2>2, <2>3 DEF LeafSchema, MetadataArgs
  <2>5. VerifiedIn(x.data_hash) \subseteq VerifiedIn(old) \cup {s}
    BY <2>3, <2>4 DEF VerifiedIn
  <2> QED BY <1>4, <2>1, <2>4, <2>5
<1>6. ASSUME NEW verify \in BOOLEAN, VerifyCollectionTo(n, s, verify)
      PROVE  OneForm' /\ GoneStep /\ SignedStep
  <2> DEFINE x == [leaf[n] EXCEPT !.data_hash.collection.verified = verify]
  <2>1. leaf' = [leaf EXCEPT ![n] = x]
    BY <1>6 DEF VerifyCollectionTo
  <2>2. /\ x.owner = leaf[n].owner /\ x.delegate = leaf[n].delegate
        /\ x.data_hash.creators = leaf[n].data_hash.creators /\ x \in LeafSchema
    BY <1>3, <1>6 DEF LeafSchema, MetadataArgs, VerifyCollectionTo
  <2>3. VerifiedIn(x.data_hash) \subseteq VerifiedIn(leaf[n].data_hash) \cup {s}
    BY <2>2 DEF VerifiedIn
  <2> QED BY <1>4, <2>1, <2>2, <2>3
<1>7. ASSUME NEW k \in DOMAIN Collections, NEW t \in Wallets, SetAndVerifyCollection(n, k, s, t)
      PROVE  OneForm' /\ GoneStep /\ SignedStep
  <2> DEFINE x == [leaf[n] EXCEPT !.data_hash.collection = [key |-> k, verified |-> TRUE]]
  <2>1. leaf' = [leaf EXCEPT ![n] = x]
    BY <1>7 DEF SetAndVerifyCollection
  <2>2. /\ x.owner = leaf[n].owner /\ x.delegate = leaf[n].delegate
        /\ x.data_hash.creators = leaf[n].data_hash.creators /\ x \in LeafSchema
    BY <1>3 DEF LeafSchema, MetadataArgs
  <2>3. VerifiedIn(x.data_hash) \subseteq VerifiedIn(leaf[n].data_hash) \cup {s}
    BY <2>2 DEF VerifiedIn
  <2> QED BY <1>4, <2>1, <2>2, <2>3
<1> QED BY <1>1, <1>5, <1>6, <1>7
(* The leaf n is cleared, moved to its voucher or brought back from it. *)
LEMMA MovesForm ==
  ASSUME FormInv, NEW s \in Signers, Moves(s)
  PROVE  OneForm' /\ GoneStep /\ SignedStep
<1> USE Absent DEF FormInv
<1>1. PICK n \in Nonces :
        \/ \E new \in Receivers : Transfer(n, s, new)
        \/ \E new \in Receivers : Delegate(n, s, new)
        \/ Burn(n, s) \/ Redeem(n, s) \/ CancelRedeem(n, s) \/ DecompressV1(n, s)
  BY DEF Moves
<1>2. UNCHANGED tree /\ \A m \in Nonces : Minted(m)' <=> Minted(m)
  BY <1>1 DEF Transfer, Delegate, Burn, Redeem, CancelRedeem, DecompressV1, Minted
<1>3. \A m \in Nonces \ {n} : leaf'[m] = leaf[m] /\ voucher'[m] = voucher[m] /\ token'[m] = token[m]
  BY <1>1 DEF TypeOK, Transfer, Delegate, Burn, Redeem, CancelRedeem, DecompressV1
<1>4. ASSUME NEW x, leaf' = [leaf EXCEPT ![n] = x], x \in LeafSchema, leaf[n] # None,
             UNCHANGED <<voucher, token>>, x.data_hash = leaf[n].data_hash,
             s \in {leaf[n].owner, leaf[n].delegate}
      PROVE  OneForm' /\ GoneStep /\ SignedStep
  <2>1. leaf'[n] = x /\ x # None
    BY <1>4 DEF TypeOK
  <2>2. OneForm'
    BY <1>2, <1>3, <1>4, <2>1 DEF OneForm
  <2>3. GoneStep
    BY <1>2, <1>3, <1>4, <2>1 DEF GoneStep, Gone
  <2>4. SignedStep
    BY <1>3, <1>4, <2>1 DEF SignedStep
  <2> QED BY <2>2, <2>3, <2>4
<1>5. ASSUME NEW new \in Receivers, Transfer(n, s, new)
      PROVE  OneForm' /\ GoneStep /\ SignedStep
  <2> DEFINE x == [leaf[n] EXCEPT !.owner = new, !.delegate = new]
  <2>1. leaf[n] \in LeafSchema
    BY <1>5 DEF Transfer, TypeOK
  <2>2. x \in LeafSchema /\ x.data_hash = leaf[n].data_hash
    BY <2>1, BubblegumAssumption DEF LeafSchema
  <2>3. leaf' = [leaf EXCEPT ![n] = x]
    BY <1>5 DEF Transfer
  <2> QED BY <1>4, <1>5, <2>2, <2>3 DEF Transfer, LeafAuthority
<1>6. ASSUME NEW new \in Receivers, Delegate(n, s, new)
      PROVE  OneForm' /\ GoneStep /\ SignedStep
  <2> DEFINE x == [leaf[n] EXCEPT !.delegate = new]
  <2>1. leaf[n] \in LeafSchema
    BY <1>6 DEF Delegate, TypeOK
  <2>2. x \in LeafSchema /\ x.data_hash = leaf[n].data_hash
    BY <2>1, BubblegumAssumption DEF LeafSchema
  <2>3. leaf' = [leaf EXCEPT ![n] = x]
    BY <1>6 DEF Delegate
  <2> QED BY <1>4, <1>6, <2>2, <2>3 DEF Delegate
<1>7. CASE Burn(n, s)
  <2>1. /\ leaf[n] # None /\ s \in {leaf[n].owner, leaf[n].delegate}
        /\ leaf'[n] = None /\ UNCHANGED <<voucher, token>>
    BY <1>7 DEF Burn, LeafAuthority, TypeOK
  <2>2. OneForm'
    BY <1>2, <1>3, <2>1 DEF OneForm
  <2>3. GoneStep
    BY <1>2, <1>3, <2>1 DEF GoneStep, Gone
  <2>4. SignedStep
    BY <1>3, <2>1 DEF SignedStep
  <2> QED BY <2>2, <2>3, <2>4
<1>8. CASE Redeem(n, s)
  <2>1. /\ leaf[n] # None /\ s = leaf[n].owner /\ voucher[n] = None
        /\ leaf'[n] = None /\ voucher'[n] = leaf[n] /\ token' = token
    BY <1>8 DEF Redeem, TypeOK
  <2>2. OneForm'
    BY <1>2, <1>3, <2>1 DEF OneForm
  <2>3. GoneStep
    BY <1>2, <1>3, <2>1 DEF GoneStep, Gone
  <2>4. SignedStep
    BY <1>3, <2>1 DEF SignedStep
  <2> QED BY <2>2, <2>3, <2>4
<1>9. CASE CancelRedeem(n, s)
  <2>1. /\ voucher[n] # None /\ s = voucher[n].owner /\ leaf[n] = None
        /\ leaf'[n] = voucher[n] /\ voucher'[n] = None /\ token' = token
    BY <1>9 DEF CancelRedeem, TypeOK
  <2>2. OneForm'
    BY <1>2, <1>3, <2>1 DEF OneForm
  <2>3. GoneStep
    BY <1>2, <1>3, <2>1 DEF GoneStep, Gone
  <2>4. SignedStep
    BY <1>3, <2>1 DEF SignedStep
  <2> QED BY <2>2, <2>3, <2>4
<1>10. CASE DecompressV1(n, s)
  <2>1. /\ voucher[n] # None /\ s = voucher[n].owner /\ token[n] = None
        /\ leaf' = leaf /\ voucher'[n] = None
    BY <1>10 DEF DecompressV1, TypeOK
  <2>2. OneForm'
    BY <1>2, <1>3, <2>1 DEF OneForm
  <2>3. GoneStep
    BY <1>2, <1>3, <2>1 DEF GoneStep, Gone
  <2>4. SignedStep
    BY <1>3, <2>1 DEF SignedStep
  <2> QED BY <2>2, <2>3, <2>4
<1> QED BY <1>1, <1>5, <1>6, <1>7, <1>8, <1>9, <1>10

LEMMA FormStep ==
  FormInv /\ [Next]_vars => FormInv' /\ [GoneStep /\ SignedStep]_vars
<1> SUFFICES ASSUME FormInv, [Next]_vars PROVE FormInv' /\ [GoneStep /\ SignedStep]_vars
  OBVIOUS
<1>1. TypeOK'
  BY StepTyped DEF FormInv
<1>2. CASE UNCHANGED vars
  <2>1. UNCHANGED leafVars /\ \A n \in Nonces : Minted(n)' <=> Minted(n)
    BY <1>2 DEF vars, leafVars, Minted
  <2> QED BY <1>1, <2>1, LeavesAlone DEF FormInv
<1>3. CASE Next
  <2>1. OneForm' /\ GoneStep /\ SignedStep
    BY <1>3, RequestsForm, MintForm, VerificationsForm, MovesForm DEF Next
  <2> QED BY <1>1, <2>1 DEF FormInv
<1> QED BY <1>2, <1>3

LEMMA FormInvariant == Spec => []FormInv
<1>1. Init => FormInv
  BY InitTyped DEF Init, FormInv, OneForm
<1> QED BY <1>1, FormStep, PTL DEF Spec

(* A compressed NFT is never at once a leaf, a voucher or a token, whatever  *)
(* the size of the tree and whoever acts.                                   *)
THEOREM OneFormOnly == Spec => []OneForm
<1>1. FormInv => OneForm
  BY DEF FormInv
<1> QED BY <1>1, FormInvariant, PTL

(* A burnt or decompressed NFT never comes back into the tree.              *)
THEOREM GoneStaysGone == Spec => GoneForGood
<1>1. FormInv /\ [Next]_vars =>
        [\A n \in Nonces : /\ Gone(n) => Gone(n)'
                           /\ token[n] # None => token'[n] = token[n]]_vars
  BY FormStep DEF GoneStep
<1> QED BY <1>1, FormInvariant, PTL DEF Spec, GoneForGood

(* Nobody's leaf or voucher moves, and nobody becomes a verified creator,   *)
(* without a signature.                                                     *)
THEOREM OwnersAndCreatorsSign == Spec => ChangesSigned
<1>1. FormInv /\ [Next]_vars => [SignedStep]_vars
  BY FormStep
<1>2. Spec => [][SignedStep]_vars
  BY <1>1, FormInvariant, PTL DEF Spec
<1> QED BY <1>2 DEF ChangesSigned, SignedStep
-----------------------------------------------------------------------------
(***************************************************************************)
(* The approvals.                                                          *)
(***************************************************************************)
ApprovedIn(requests) ==
  [a \in Authorities |-> IF requests[a] = None THEN 0 ELSE requests[a].num_mints_approved]

(* The property, and that there is no request before there is a tree.       *)
ApprovalInv ==
  /\ TypeOK /\ ApprovalsHonoured
  /\ tree = None => \A a \in Authorities : request[a] = None

LEMMA CapacityNat == TotalMintCapacity \in Nat
<1> DEFINE S == 1 .. MaxDepth
<1>1. IsFiniteSet(S) /\ Cardinality(S) = MaxDepth
  <2>1. MaxDepth \in Nat
    BY BubblegumAssumption
  <2>2. IsFiniteSet(S) /\ Cardinality(S) = IF 1 > MaxDepth THEN 0 ELSE MaxDepth - 1 + 1
    BY <2>1, FS_Interval
  <2> QED BY <2>1, <2>2
<1> HIDE DEF S
<1>2. IsFiniteSet(SUBSET S) /\ Cardinality(SUBSET S) = 2 ^ MaxDepth
  BY <1>1, FS_SUBSET
<1>3. Cardinality(SUBSET S) \in Nat
  BY <1>2, FS_CardinalityType
<1> QED BY <1>2, <1>3 DEF TotalMintCapacity

LEMMA AuthoritiesFinite == IsFiniteSet(Authorities)
<1>1. IsFiniteSet(Wallets) /\ TreeAuthority \notin Wallets
  BY BubblegumAssumption
<1>2. IsFiniteSet(Wallets \cup {TreeAuthority})
  BY <1>1, FS_AddElement
<1> QED BY <1>2

LEMMA ApprovedTyped ==
  ASSUME NEW requests \in [Authorities -> MintRequest \cup {None}]
  PROVE  ApprovedIn(requests) \in [Authorities -> Nat]
<1>1. ASSUME NEW a \in Authorities
      PROVE  (IF requests[a] = None THEN 0 ELSE requests[a].num_mints_approved) \in Nat
  BY DEF MintRequest
<1> QED BY <1>1 DEF ApprovedIn

LEMMA OutstandingIs == Outstanding = SumFunction(ApprovedIn(request))
BY DEF Outstanding, ApprovedIn

LEMMA OutstandingNext == Outstanding' = SumFunction(ApprovedIn(request'))
BY DEF Outstanding, ApprovedIn

LEMMA OutstandingNat ==
  ASSUME TypeOK
  PROVE  Outstanding \in Nat
<1> DEFINE f == ApprovedIn(request)
<1>1. f \in [Authorities -> Nat]
  BY ApprovedTyped DEF TypeOK
<1> HIDE DEF f
<1>2. SumFunctionOnSet(f, Authorities) \in Nat
  BY <1>1, AuthoritiesFinite, SumNat
<1> QED BY <1>1, <1>2, OutstandingIs DEF SumFunction, f

(* One request changed: the sum changes by as much.                         *)
LEMMA OneChanged ==
  ASSUME TypeOK, NEW a \in Authorities, NEW r \in MintRequest \cup {None},
         request' = [request EXCEPT ![a] = r]
  PROVE  Outstanding' = Outstanding - ApprovedIn(request)[a]
                        + (IF r = None THEN 0 ELSE r.num_mints_approved)
<1> DEFINE f == ApprovedIn(request)
           v == IF r = None THEN 0 ELSE r.num_mints_approved
<1>1. f \in [Authorities -> Nat] /\ v \in Nat
  BY ApprovedTyped DEF TypeOK, MintRequest
<1>2. ApprovedIn(request') = [f EXCEPT ![a] = v]
  BY DEF ApprovedIn, TypeOK
<1> HIDE DEF f, v
<1>3. f \in [Authorities -> Int] /\ v \in Int
  BY <1>1
<1>4. SumFunction([f EXCEPT ![a] = v]) = SumFunction(f) - f[a] + v
  BY <1>3, AuthoritiesFinite, SumUpdate
<1> QED BY <1>2, <1>4, OutstandingIs, OutstandingNext DEF f, v

(* One request counts no more than all. *)
LEMMA OneOfAll ==
  ASSUME TypeOK, NEW a \in Authorities
  PROVE  /\ ApprovedIn(request)[a] \in Nat /\ ApprovedIn(request)[a] <= Outstanding
<1> DEFINE f == ApprovedIn(request)
           rest == Authorities \ {a}
<1>1. f \in [Authorities -> Nat]
  BY ApprovedTyped DEF TypeOK
<1> HIDE DEF f
<1>2. SumFunctionOnSet(f, Authorities) = f[a] + SumFunctionOnSet(f, rest)
  BY <1>1, AuthoritiesFinite, SumSplit
<1>3. SumFunctionOnSet(f, rest) \in Nat
  <2>1. IsFiniteSet(rest) /\ \A x \in rest : f[x] \in Nat
    BY <1>1, AuthoritiesFinite, FS_Subset
  <2> HIDE DEF rest
  <2> QED BY <2>1, SumNat
<1>4. SumFunction(f) = SumFunctionOnSet(f, Authorities) /\ f[a] \in Nat
  BY <1>1 DEF SumFunction
<1> HIDE DEF rest
<1>5. f[a] \in Nat /\ f[a] <= SumFunction(f)
  BY <1>2, <1>3, <1>4
<1> QED BY <1>5, OutstandingIs DEF f

LEMMA NothingOutstanding ==
  ASSUME \A a \in Authorities : request[a] = None
  PROVE  Outstanding = 0
<1> DEFINE f == ApprovedIn(request)
           g == [a \in {} |-> 0]
<1>1. DOMAIN f = Authorities /\ \A a \in Authorities : f[a] = 0
  BY DEF ApprovedIn
<1> HIDE DEF f
<1>2. 0 * SumFunctionOnSet(f, Authorities) = 0
  <2>1. SumFunctionOnSet(f, Authorities) \in Int
    BY <1>1, AuthoritiesFinite, SumInt
  <2> QED BY <2>1
<1>3. SumFunctionOnSet(f, Authorities) \in Nat
  BY <1>1, AuthoritiesFinite, SumNat
<1>4. 1 * SumFunctionOnSet(f, Authorities) <= 0 * SumFunctionOnSet(f, Authorities)
  BY <1>1, AuthoritiesFinite, SumScaled
<1>5. SumFunctionOnSet(f, Authorities) = 0
  BY <1>2, <1>3, <1>4
<1> QED BY <1>1, <1>5, OutstandingIs DEF SumFunction, f

(***************************************************************************)
(* The steps.                                                              *)
(***************************************************************************)
LEMMA CreateTreeHonours ==
  ASSUME ApprovalInv, NEW s \in Signers, CreateTree(s)
  PROVE  ApprovalsHonoured' /\ tree' # None
<1>1. /\ tree' # None /\ tree'.num_mints_approved = 0 /\ tree'.num_minted = 0
      /\ tree = None /\ request' = request
  <2>1. tree' = [creator |-> s, delegate |-> s, num_mints_approved |-> 0, num_minted |-> 0]
    BY DEF CreateTree
  <2>2. tree' \in TreeConfig
    BY <2>1, BubblegumAssumption DEF TreeConfig
  <2> QED BY <2>1, <2>2, Absent DEF CreateTree
<1>2. Outstanding' = Outstanding
  BY <1>1, OutstandingIs, OutstandingNext
<1>3. Outstanding = 0
  BY <1>1, NothingOutstanding DEF ApprovalInv
<1> QED BY <1>1, <1>2, <1>3, CapacityNat DEF ApprovalsHonoured

(* A step that keeps the counts of the tree and what each request has.      *)
LEMMA SameApprovals ==
  ASSUME ApprovalInv, tree # None, tree'.num_mints_approved = tree.num_mints_approved,
         tree'.num_minted = tree.num_minted, Outstanding' = Outstanding
  PROVE  ApprovalsHonoured'
BY DEF ApprovalInv, ApprovalsHonoured

LEMMA SetDelegateHonours ==
  ASSUME ApprovalInv, NEW s \in Signers, NEW new \in Receivers, SetTreeDelegate(s, new)
  PROVE  ApprovalsHonoured' /\ tree' # None
<1>1. tree # None /\ tree \in TreeConfig /\ tree' = [tree EXCEPT !.delegate = new]
  BY DEF SetTreeDelegate, ApprovalInv, TypeOK
<1>2. /\ tree'.num_mints_approved = tree.num_mints_approved
      /\ tree'.num_minted = tree.num_minted /\ tree' # None
  <2>1. tree' \in TreeConfig
    BY <1>1, BubblegumAssumption DEF TreeConfig
  <2> QED BY <1>1, <2>1, Absent DEF TreeConfig
<1>3. Outstanding' = Outstanding
  BY OutstandingIs, OutstandingNext DEF SetTreeDelegate
<1> QED BY <1>1, <1>2, <1>3, SameApprovals

LEMMA RequestHonours ==
  ASSUME ApprovalInv, NEW a \in Authorities, NEW n \in Capacities, SetMintRequest(a, n)
  PROVE  ApprovalsHonoured' /\ tree' # None
<1> DEFINE had == ApprovedIn(request)[a]
           r == [num_mints_requested |-> n, num_mints_approved |-> had]
<1>1. TypeOK /\ tree # None /\ tree' = tree
  BY DEF SetMintRequest, ApprovalInv
<1>2. request' = [request EXCEPT ![a] = r]
  <2>1. request' = [request EXCEPT ![a] =
          [ num_mints_requested |-> n,
            num_mints_approved |-> IF request[a] = None THEN 0 ELSE request[a].num_mints_approved ]]
    BY DEF SetMintRequest
  <2> QED BY <2>1 DEF ApprovedIn
<1>3. had \in Nat /\ n \in Nat
  BY <1>1, OneOfAll, BubblegumAssumption
<1> HIDE DEF had
<1>4. r \in MintRequest /\ r.num_mints_approved = had
  BY <1>3 DEF MintRequest
<1> HIDE DEF r
<1>5. r # None /\ r \in MintRequest \cup {None}
  BY <1>4, Absent
<1>6. Outstanding' = Outstanding - had + had
  <2>1. Outstanding' = Outstanding - ApprovedIn(request)[a]
                        + (IF r = None THEN 0 ELSE r.num_mints_approved)
    BY <1>1, <1>2, <1>5, OneChanged
  <2> QED BY <1>4, <1>5, <2>1 DEF had
<1>7. Outstanding' = Outstanding
  BY <1>1, <1>3, <1>6, OutstandingNat
<1> QED BY <1>1, <1>7, SameApprovals

(* What is left when what is minted and approved is taken off. *)
LEMMA RoomLeft ==
  ASSUME TypeOK, tree # None, NEW n \in Nat, ContainsMintCapacity(n), n > 0
  PROVE  tree.num_mints_approved + n <= TotalMintCapacity
<1>1. tree.num_minted \in Nat /\ tree.num_mints_approved \in Nat
  BY DEF TypeOK, TreeConfig
<1> QED BY <1>1, CapacityNat DEF ContainsMintCapacity, SaturatingSub

LEMMA ApproveHonours ==
  ASSUME ApprovalInv, NEW s \in Signers, NEW a \in Authorities, NEW n \in Capacities,
         ApproveMintAuthorityRequest(s, a, n)
  PROVE  ApprovalsHonoured' /\ tree' # None
<1> DEFINE r == [request[a] EXCEPT !.num_mints_requested = @ - n, !.num_mints_approved = @ + n]
<1>1. /\ TypeOK /\ tree # None /\ tree \in TreeConfig /\ n \in Nat /\ ContainsMintCapacity(n)
      /\ request[a] # None /\ request[a] \in MintRequest
      /\ n <= request[a].num_mints_requested
      /\ tree' = [tree EXCEPT !.num_mints_approved = @ + n]
      /\ request' = [request EXCEPT ![a].num_mints_requested = @ - n,
                                    ![a].num_mints_approved = @ + n]
  BY BubblegumAssumption DEF ApproveMintAuthorityRequest, ApprovalInv, TypeOK
<1>2. request' = [request EXCEPT ![a] = r]
  BY <1>1 DEF TypeOK
<1>3. r \in MintRequest /\ r.num_mints_approved = request[a].num_mints_approved + n
  <2> DEFINE asked == request[a].num_mints_requested - n
             had == request[a].num_mints_approved + n
  <2>1. asked \in Nat /\ had \in Nat
    BY <1>1 DEF MintRequest
  <2> HIDE DEF asked, had
  <2>2. LET q == [request[a] EXCEPT !.num_mints_requested = asked, !.num_mints_approved = had]
        IN  q \in MintRequest /\ q.num_mints_approved = had
    BY <1>1, <2>1 DEF MintRequest
  <2> QED BY <2>2 DEF asked, had
<1> HIDE DEF r
<1>4. r # None /\ r \in MintRequest \cup {None}
  BY <1>3, Absent
<1>5. ApprovedIn(request)[a] = request[a].num_mints_approved
  BY <1>1 DEF ApprovedIn
<1>6. Outstanding' = Outstanding - ApprovedIn(request)[a] + r.num_mints_approved
  <2>1. Outstanding' = Outstanding - ApprovedIn(request)[a]
                        + (IF r = None THEN 0 ELSE r.num_mints_approved)
    BY <1>1, <1>2, <1>4, OneChanged
  <2> QED BY <1>4, <2>1
<1>7. Outstanding \in Nat /\ request[a].num_mints_approved \in Nat
  BY <1>1, OutstandingNat DEF MintRequest
<1>8. Outstanding' = Outstanding + n
  BY <1>1, <1>3, <1>5, <1>6, <1>7
<1>9. /\ tree'.num_mints_approved = tree.num_mints_approved + n
      /\ tree'.num_minted = tree.num_minted
      /\ tree.num_mints_approved \in Nat /\ tree.num_minted \in Nat
      /\ tree' # None
  <2>1. tree' \in TreeConfig
    BY <1>1 DEF TreeConfig
  <2> QED BY <1>1, <2>1, Absent DEF TreeConfig
<1>10. tree.num_mints_approved = tree.num_minted + Outstanding
       /\ tree.num_mints_approved <= TotalMintCapacity
  BY <1>1 DEF ApprovalInv, ApprovalsHonoured
<1>11. tree.num_mints_approved + n <= TotalMintCapacity
  <2>1. CASE n > 0
    BY <1>1, <2>1, RoomLeft
  <2>2. CASE n = 0
    BY <1>9, <1>10, <2>2
  <2> QED BY <1>1, <2>1, <2>2
<1> QED BY <1>1, <1>7, <1>8, <1>9, <1>10, <1>11 DEF ApprovalsHonoured

LEMMA CloseHonours ==
  ASSUME ApprovalInv, NEW s \in Signers, CloseMintRequest(s)
  PROVE  ApprovalsHonoured' /\ tree' # None
<1> DEFINE n == request[s].num_mints_approved
<1>0. s \in Authorities
  BY BubblegumAssumption
<1>1. /\ TypeOK /\ tree # None /\ tree \in TreeConfig
      /\ s \in Authorities /\ request[s] # None /\ request[s] \in MintRequest
      /\ tree' = [tree EXCEPT !.num_mints_approved =
                    SaturatingSub(tree.num_mints_approved, n)]
      /\ request' = [request EXCEPT ![s] = None]
  BY <1>0 DEF CloseMintRequest, ApprovalInv, TypeOK
<1>2. ApprovedIn(request)[s] = n
  BY <1>1 DEF ApprovedIn
<1>3. n \in Nat /\ n <= Outstanding /\ Outstanding \in Nat
  BY <1>1, <1>2, OneOfAll, OutstandingNat
<1>4. Outstanding' = Outstanding - ApprovedIn(request)[s] + 0
  <2>1. Outstanding' = Outstanding - ApprovedIn(request)[s]
                        + (IF None = None THEN 0 ELSE None.num_mints_approved)
    BY <1>1, OneChanged
  <2> QED BY <2>1
<1> HIDE DEF n
<1>5. /\ tree'.num_mints_approved = SaturatingSub(tree.num_mints_approved, n)
      /\ tree'.num_minted = tree.num_minted
      /\ tree.num_mints_approved \in Nat /\ tree.num_minted \in Nat
      /\ tree' # None
  <2>1. SaturatingSub(tree.num_mints_approved, n) \in Nat
    BY <1>1, <1>3, DecreaseTyped DEF TreeConfig
  <2>2. tree' \in TreeConfig
    BY <1>1, <2>1 DEF TreeConfig
  <2> QED BY <1>1, <2>2, Absent DEF TreeConfig
<1>6. tree.num_mints_approved = tree.num_minted + Outstanding
      /\ tree.num_mints_approved <= TotalMintCapacity
  BY <1>1 DEF ApprovalInv, ApprovalsHonoured
<1>7. SaturatingSub(tree.num_mints_approved, n) = tree.num_mints_approved - n
  BY <1>3, <1>5, <1>6 DEF SaturatingSub
<1>8. /\ tree'.num_mints_approved = tree'.num_minted + Outstanding'
      /\ tree'.num_mints_approved <= TotalMintCapacity
  BY <1>2, <1>3, <1>4, <1>5, <1>6, <1>7, CapacityNat
<1> QED BY <1>5, <1>8 DEF ApprovalsHonoured

LEMMA MintHonours ==
  ASSUME ApprovalInv, NEW a \in Authorities, NEW signers \in SUBSET Signers,
         NEW owner \in Receivers, NEW delegate \in Receivers, NEW data \in MintChoices,
         MintV1(a, signers, owner, delegate, data)
  PROVE  ApprovalsHonoured' /\ tree' # None
<1> DEFINE r == AfterMint(request[a])
           left == [request[a] EXCEPT !.num_mints_approved = @ - 1]
<1>1. /\ TypeOK /\ tree # None /\ tree \in TreeConfig
      /\ request[a] # None /\ request[a] \in MintRequest
      /\ request[a].num_mints_approved > 0
      /\ tree' = [tree EXCEPT !.num_minted = @ + 1]
      /\ request' = [request EXCEPT ![a] = r]
  BY DEF MintV1, ApprovalInv, TypeOK
<1>2. request[a].num_mints_approved \in Nat
  BY <1>1 DEF MintRequest
<1>3. left \in MintRequest /\ left.num_mints_approved = request[a].num_mints_approved - 1
  <2>1. request[a].num_mints_approved - 1 \in Nat
    BY <1>1, <1>2
  <2> DEFINE x == request[a].num_mints_approved - 1
  <2> HIDE DEF x
  <2>2. [request[a] EXCEPT !.num_mints_approved = x] \in MintRequest
        /\ [request[a] EXCEPT !.num_mints_approved = x].num_mints_approved = x
    BY <1>1, <2>1 DEF MintRequest, x
  <2> QED BY <2>2 DEF x
<1>4. r = IF left.num_mints_approved = 0 /\ left.num_mints_requested = 0 THEN None ELSE left
  BY DEF AfterMint
<1> HIDE DEF r, left
<1>5. left # None
  BY <1>3, Absent
<1>6. r \in MintRequest \cup {None}
      /\ (IF r = None THEN 0 ELSE r.num_mints_approved) = request[a].num_mints_approved - 1
  BY <1>3, <1>4, <1>5
<1>7. ApprovedIn(request)[a] = request[a].num_mints_approved
  BY <1>1 DEF ApprovedIn
<1>8. Outstanding' = Outstanding - ApprovedIn(request)[a]
                     + (IF r = None THEN 0 ELSE r.num_mints_approved)
  BY <1>1, <1>6, OneChanged
<1>9. Outstanding' = Outstanding - 1
  <2>1. Outstanding \in Nat
    BY <1>1, OutstandingNat
  <2> QED BY <1>2, <1>6, <1>7, <1>8, <2>1
<1>10. /\ tree'.num_mints_approved = tree.num_mints_approved
       /\ tree'.num_minted = tree.num_minted + 1
       /\ tree.num_mints_approved \in Nat /\ tree.num_minted \in Nat
       /\ tree' # None
  <2>1. tree' \in TreeConfig
    BY <1>1 DEF TreeConfig
  <2> QED BY <1>1, <2>1, Absent DEF TreeConfig
<1>11. tree.num_mints_approved = tree.num_minted + Outstanding
       /\ tree.num_mints_approved <= TotalMintCapacity
  BY <1>1 DEF ApprovalInv, ApprovalsHonoured
<1>12. Outstanding \in Nat
  BY <1>1, OutstandingNat
<1> QED BY <1>9, <1>10, <1>11, <1>12 DEF ApprovalsHonoured

LEMMA ApprovalStep == ApprovalInv /\ [Next]_vars => ApprovalInv'
<1> SUFFICES ASSUME ApprovalInv, [Next]_vars PROVE ApprovalInv'
  OBVIOUS
<1>1. TypeOK'
  BY StepTyped DEF ApprovalInv
<1> DEFINE Kept == /\ ApprovalsHonoured'
                   /\ tree' # None \/ UNCHANGED <<tree, request>>
<1>2. ASSUME NEW s \in Signers, CreateTree(s) PROVE Kept
  BY <1>2, CreateTreeHonours
<1>3. ASSUME NEW s \in Signers, NEW new \in Receivers, SetTreeDelegate(s, new) PROVE Kept
  BY <1>3, SetDelegateHonours
<1>4. ASSUME NEW s \in Signers, MintRequests(s) PROVE Kept
  <2>1. ASSUME NEW n \in Capacities, RequestMintAuthority(s, n) PROVE Kept
    <3>1. s \in Authorities
      BY BubblegumAssumption
    <3> QED BY <2>1, <3>1, RequestHonours DEF RequestMintAuthority
  <2>2. ASSUME NEW n \in Capacities, CreateDefaultMintRequest(s, n) PROVE Kept
    BY <2>2, RequestHonours DEF CreateDefaultMintRequest
  <2>3. ASSUME NEW a \in Authorities, NEW n \in Capacities, ApproveMintAuthorityRequest(s, a, n)
        PROVE  Kept
    BY <2>3, ApproveHonours
  <2>4. CASE CloseMintRequest(s)
    BY <2>4, CloseHonours
  <2> QED BY <1>4, <2>1, <2>2, <2>3, <2>4 DEF MintRequests
<1>5. ASSUME NEW a \in Authorities, NEW signers \in SUBSET Signers, NEW owner \in Receivers,
             NEW delegate \in Receivers, NEW data \in MintChoices,
             MintV1(a, signers, owner, delegate, data)
      PROVE  Kept
  BY <1>5, MintHonours
<1>6. ASSUME UNCHANGED <<tree, request>> PROVE Kept
  <2>1. Outstanding' = Outstanding
    BY <1>6, OutstandingIs, OutstandingNext
  <2> QED BY <1>6, <2>1 DEF ApprovalInv, ApprovalsHonoured
<1>7. ASSUME NEW s \in Signers, Verifications(s) \/ Moves(s) PROVE Kept
  <2>1. UNCHANGED <<tree, request>>
    BY <1>7 DEF Verifications, VerifyCreatorTo, VerifyCollectionTo, SetAndVerifyCollection,
                Moves, Transfer, Delegate, Burn, Redeem, CancelRedeem, DecompressV1
  <2> QED BY <1>6, <2>1
<1>8. Kept
  <2>1. CASE UNCHANGED vars
    <3>1. UNCHANGED <<tree, request>>
      BY <2>1 DEF vars
    <3> QED BY <1>6, <3>1
  <2>2. CASE Next
    BY <2>2, <1>2, <1>3, <1>4, <1>5, <1>7 DEF Next
  <2> QED BY <2>1, <2>2
<1> QED BY <1>1, <1>8 DEF ApprovalInv

LEMMA InitApproval == Init => ApprovalInv
BY InitTyped DEF Init, ApprovalInv, ApprovalsHonoured

(* Whatever is asked for, approved, closed and minted in between, for any    *)
(* wallets and depth of the tree: the tree counts what is minted and what   *)
(* is still approved, and both together fit into it.                        *)
THEOREM ApprovalsCounted == Spec => []ApprovalsHonoured
<1>1. ApprovalInv => ApprovalsHonoured
  BY DEF ApprovalInv
<1> QED BY <1>1, InitApproval, ApprovalStep, PTL DEF Spec
=============================================================================
