----------------------------- MODULE DropProofs -----------------------------
(***************************************************************************)
(* Proofs about the programs that hand out NFTs: Gumdrop, TokenEntangler   *)
(* and NftPacks, which Drops puts side by side, and the candy machine that *)
(* gumdrops are taken from.                                                *)
(*                                                                         *)
(* Gumdrop: for any trees, claimants and numbers of drops published one    *)
(* after the other under one base key.  GumdropInv adds to the properties  *)
(* what they rest on: the account of a claim counts at least what its      *)
(* index handed out of any one resource, a proof repeats a published leaf, *)
(* and what is handed out under a prefix comes from a leaf of the kind     *)
(* that prefix serves.                                                     *)
(*                                                                         *)
(* NftPacks: for any numbers of cards, masters, wallets and vouchers.      *)
(* PackInv says what of the cards and their masters the program holds;     *)
(* StockInv, on top of it, weighs the list that cards are drawn from       *)
(* against the cards' accounts, the draws not yet claimed and the change   *)
(* to the list that waits for its clean-up.                                *)
(***************************************************************************)
EXTENDS Drops, CandyMachine, Sums, FiniteSetTheorems, TLAPS


\* The account counts what its index handed out.
CountsAtLeast ==
  /\ \A i \in Indexes, r \in Resources :
       handed[CLAIM_COUNT][i][r] > 0 =>
         claims[CLAIM_COUNT][i] # NoAccount /\ handed[CLAIM_COUNT][i][r] <= claims[CLAIM_COUNT][i].count
  /\ \A i \in Indexes, r \in Resources :
       handed[CLAIM_STATUS][i][r] > 0 => claims[CLAIM_STATUS][i] # NoAccount

\* A proof repeats a published leaf.
ProofsPublished ==
  \A i \in Indexes :
    (claims[CLAIM_COUNT][i] # NoAccount /\ claims[CLAIM_COUNT][i].kind = "proof") =>
      \E e \in PublishedLeaves : /\ e.index = i
                                 /\ e.resource = claims[CLAIM_COUNT][i].resource
                                 /\ e.amount = claims[CLAIM_COUNT][i].amount

\* The leaves each prefix serves: plain leaves of a mint, and the others.
OfStatus(e) == e.nonce = NoNonce /\ e.resource \in Mints
OfCount(e) == e.nonce # NoNonce \/ e.resource \in Candies
KindsServed ==
  /\ \A i \in Indexes, r \in Resources : handed[CLAIM_STATUS][i][r] > 0 =>
       \E e \in PublishedLeaves : e.index = i /\ OfStatus(e)
  /\ \A i \in Indexes, r \in Resources : handed[CLAIM_COUNT][i][r] > 0 =>
       \E e \in PublishedLeaves : e.index = i /\ OfCount(e)

GumdropInv ==
  /\ GumdropTypeOK
  /\ CountsAtLeast
  /\ ProofsPublished
  /\ KindsServed
  /\ ClaimedAtMost
  /\ ClaimantsVouchedFor

-----------------------------------------------------------------------------
LEMMA Distinct == /\ CLAIM_COUNT # CLAIM_STATUS /\ Prefixes = {CLAIM_COUNT, CLAIM_STATUS}
                  /\ NoAccount \notin ClaimStatus /\ NoAccount \notin ClaimCount /\ NoAccount \notin ClaimProof
                  /\ NoAccount \notin Distributors
  BY NoneAssumption DEF CLAIM_COUNT, CLAIM_STATUS, Prefixes

LEMMA KindsOfAccounts ==
  /\ \A x \in ClaimStatus : x.kind = "status"
  /\ \A x \in ClaimCount : x.kind = "count"
  /\ \A x \in ClaimProof : x.kind = "proof"
  BY DEF ClaimStatus, ClaimCount, ClaimProof

\* The leaves of a published distributor are leaves, and its temporal signer a key.
LEMMA PublishedAreLeaves ==
  ASSUME GumdropTypeOK PROVE /\ PublishedLeaves \subseteq Leaves
                      /\ \A d \in published : d \in MerkleDistributor
  BY DropsAssumption DEF GumdropTypeOK, PublishedLeaves, MerkleDistributor

\* A leaf that passes the proof is published.
LEMMA ProvenIsPublished ==
  ASSUME GumdropTypeOK, NEW e, MerkleProof(e)
  PROVE  /\ e \in PublishedLeaves /\ e \in Leaves /\ distributor \in published
         /\ e.index \in Indexes /\ e.secret \in Secrets /\ e.resource \in Resources /\ e.amount \in Nat
<1>1. distributor \in published /\ e \in distributor.root
  BY DEF GumdropTypeOK, MerkleProof
<1>2. e \in PublishedLeaves
  BY <1>1 DEF PublishedLeaves
<1>3. e \in Leaves
  BY <1>2, PublishedAreLeaves
<1>4. QED
  BY <1>1, <1>2, <1>3 DEF Leaves

\* Who may make an account for an index was vouched for.
LEMMA MayClaimVouched ==
  ASSUME GumdropTypeOK, NEW payer \in Claimants, NEW e, MerkleProof(e), MayClaim(payer, e.secret)
  PROVE  VouchedFor(payer, e.index)
<1>1. distributor \in published /\ e \in distributor.root /\ e.secret \in Secrets
  BY ProvenIsPublished DEF MerkleProof
<1>2. PICK t \in Temporal(payer, e.secret) : VerifyTemporal(t, e.secret)
  BY DEF MayClaim
<1>3. Holder[e.secret] = payer \/ distributor.temporal \in {NoTemporal, payer}
  <2>1. CASE t = payer
    BY <1>2, <2>1, HolderAssumption DEF VerifyTemporal
  <2>2. CASE t # payer
    BY <1>2, <2>2 DEF Temporal
  <2>3. QED
    BY <2>1, <2>2
<1>4. QED
  BY <1>1, <1>3 DEF VouchedFor

-----------------------------------------------------------------------------
LEMMA InitInv == GumdropInit => GumdropInv
<1> SUFFICES ASSUME GumdropInit PROVE GumdropInv
  OBVIOUS
<1>1. GumdropTypeOK
  BY Distinct, SupplyAssumption DEF GumdropInit, GumdropTypeOK
<1>2. CountsAtLeast /\ KindsServed /\ ClaimedAtMost
  BY Distinct DEF GumdropInit, CountsAtLeast, KindsServed, ClaimedAtMost
<1>3. ProofsPublished /\ ClaimantsVouchedFor
  BY Distinct DEF GumdropInit, ProofsPublished, ClaimantsVouchedFor
<1>4. QED
  BY <1>1, <1>2, <1>3 DEF GumdropInv

\* What a step keeps that leaves the accounts and what was handed out alone.
LEMMA Undisturbed ==
  ASSUME GumdropInv, GumdropTypeOK', claims' = claims, handed' = handed, published \subseteq published'
  PROVE  GumdropInv'
<1>1. PublishedLeaves \subseteq PublishedLeaves'
  BY DEF PublishedLeaves
<1>2. CountsAtLeast'
  BY DEF GumdropInv, CountsAtLeast
<1>3. ProofsPublished'
  BY <1>1 DEF GumdropInv, ProofsPublished
<1>4. KindsServed'
  BY <1>1 DEF GumdropInv, KindsServed
<1>5. ClaimedAtMost'
  BY <1>1 DEF GumdropInv, ClaimedAtMost
<1>6. ClaimantsVouchedFor'
  BY DEF GumdropInv, ClaimantsVouchedFor, VouchedFor
<1>7. QED
  BY <1>2, <1>3, <1>4, <1>5, <1>6 DEF GumdropInv

LEMMA DistributeStep == ASSUME GumdropInv, Distribute PROVE GumdropInv'
<1> USE DEF GumdropInv
<1>1. CASE \E d \in Distributors : NewDistributor(d)
  <2>1. PICK d \in Distributors : NewDistributor(d)
    BY <1>1
  <2>2. GumdropTypeOK'
    BY <2>1 DEF NewDistributor, GumdropTypeOK
  <2>3. QED
    BY <2>1, <2>2, Undisturbed DEF NewDistributor
<1>2. CASE \E m \in Mints : CloseDistributorTokenAccount(m)
  <2>1. PICK m \in Mints : CloseDistributorTokenAccount(m)
    BY <1>2
  <2>2. GumdropTypeOK'
    BY <2>1 DEF CloseDistributorTokenAccount, GumdropTypeOK
  <2>3. QED
    BY <2>1, <2>2, Undisturbed DEF CloseDistributorTokenAccount
<1>3. CASE \E handovers \in SUBSET Candies : CloseDistributor(handovers)
  <2>1. PICK handovers \in SUBSET Candies : CloseDistributor(handovers)
    BY <1>3
  <2>2. GumdropTypeOK'
    BY <2>1 DEF CloseDistributor, GumdropTypeOK
  <2>3. QED
    BY <2>1, <2>2, Undisturbed DEF CloseDistributor
<1>4. CASE RecoverUpdateAuthority
  <2>1. GumdropTypeOK'
    BY <1>4 DEF RecoverUpdateAuthority, GumdropTypeOK
  <2>2. QED
    BY <1>4, <2>1, Undisturbed DEF RecoverUpdateAuthority
<1>5. CASE \E m \in Mints : \E n \in 1 .. Supply[m] : Seed(m, n)
  <2>1. PICK m \in Mints : \E n \in 1 .. Supply[m] : Seed(m, n)
    BY <1>5
  <2>2. PICK n \in 1 .. Supply[m] : Seed(m, n)
    BY <2>1
  <2>3. GumdropTypeOK'
    BY <2>2, SupplyAssumption DEF Seed, GumdropTypeOK
  <2>4. QED
    BY <2>2, <2>3, Undisturbed DEF Seed
<1>6. CASE \E c \in Candies : GiveMachine(c)
  <2>1. PICK c \in Candies : GiveMachine(c)
    BY <1>6
  <2>2. GumdropTypeOK'
    BY <2>1 DEF GiveMachine, GumdropTypeOK
  <2>3. QED
    BY <2>1, <2>2, Undisturbed DEF GiveMachine
<1>7. QED
  BY <1>1, <1>2, <1>3, <1>4, <1>5, <1>6 DEF Distribute

-----------------------------------------------------------------------------
(* Claims, published' = published in all of them. *)

LEMMA SamePublished ==
  ASSUME published' = published
  PROVE  /\ PublishedLeaves' = PublishedLeaves
         /\ \A w, i : VouchedFor(w, i)' <=> VouchedFor(w, i)
BY DEF PublishedLeaves, VouchedFor

\* One unit counted against a leaf of the root in force.
LEMMA CountStep ==
  ASSUME GumdropInv, NEW payer \in Claimants, NEW e, MerkleProof(e), OfCount(e), CountClaim(payer, e),
         published' = published, GumdropTypeOK'
  PROVE  GumdropInv'
<1> DEFINE i0 == e.index
           r0 == e.resource
<1>1. /\ e \in PublishedLeaves /\ i0 \in Indexes /\ r0 \in Resources /\ e.amount \in Nat
  BY ProvenIsPublished DEF GumdropInv
<1>2. /\ handed \in [Prefixes -> [Indexes -> [Resources -> Nat]]]
      /\ handed' \in [Prefixes -> [Indexes -> [Resources -> Nat]]]
      /\ claims \in [Prefixes -> [Indexes -> ClaimStatus \cup ClaimCount \cup ClaimProof \cup {NoAccount}]]
  BY DEF GumdropInv, GumdropTypeOK
<1>3. /\ handed'[CLAIM_STATUS] = handed[CLAIM_STATUS]
      /\ \A i \in Indexes, r \in Resources :
           handed'[CLAIM_COUNT][i][r] = IF i = i0 /\ r = r0 THEN handed[CLAIM_COUNT][i][r] + 1
                                        ELSE handed[CLAIM_COUNT][i][r]
  BY <1>1, <1>2, Distinct DEF CountClaim
<1>4. /\ claims'[CLAIM_STATUS] = claims[CLAIM_STATUS]
      /\ \A i \in Indexes : i # i0 => claims'[CLAIM_COUNT][i] = claims[CLAIM_COUNT][i]
      /\ claims'[CLAIM_COUNT][i0] = [kind |-> "count", count |-> Counted(i0) + 1, claimant |-> payer]
  BY <1>1, <1>2, Distinct DEF CountClaim
<1>5. Counted(i0) \in Nat /\ \A r \in Resources : handed[CLAIM_COUNT][i0][r] <= Counted(i0)
  <2>1. CASE claims[CLAIM_COUNT][i0] = NoAccount
    <3>1. \A r \in Resources : handed[CLAIM_COUNT][i0][r] \in Nat
      BY <1>1, <1>2, Distinct
    <3>2. \A r \in Resources : ~(handed[CLAIM_COUNT][i0][r] > 0)
      BY <2>1, <1>1 DEF GumdropInv, CountsAtLeast
    <3>3. QED
      BY <2>1, <3>1, <3>2 DEF Counted
  <2>2. CASE claims[CLAIM_COUNT][i0] # NoAccount
    <3>1. claims[CLAIM_COUNT][i0].kind = "count"
      BY <2>2 DEF CountClaim, GetOrCreateClaimCount
    <3>2. claims[CLAIM_COUNT][i0] \in ClaimCount
      <4>1. claims[CLAIM_COUNT][i0] \in ClaimStatus \cup ClaimCount \cup ClaimProof \cup {NoAccount}
        BY <1>1, <1>2, Distinct
      <4>2. QED
        BY <4>1, <2>2, <3>1, KindsOfAccounts
    <3>3. claims[CLAIM_COUNT][i0].count \in Nat
      BY <3>2 DEF ClaimCount
    <3>4. \A r \in Resources : handed[CLAIM_COUNT][i0][r] \in Nat
      BY <1>1, <1>2, Distinct
    <3>5. \A r \in Resources : handed[CLAIM_COUNT][i0][r] > 0 =>
            handed[CLAIM_COUNT][i0][r] <= claims[CLAIM_COUNT][i0].count
      BY <1>1 DEF GumdropInv, CountsAtLeast
    <3>6. QED
      BY <2>2, <3>3, <3>4, <3>5 DEF Counted
  <2>3. QED
    BY <2>1, <2>2
<1>6. claims'[CLAIM_COUNT][i0] \in ClaimCount
  BY <1>4, <1>5 DEF ClaimCount
<1>7. CountsAtLeast'
  <2>1. ASSUME NEW i \in Indexes, NEW r \in Resources, handed'[CLAIM_COUNT][i][r] > 0
        PROVE  claims'[CLAIM_COUNT][i] # NoAccount /\ handed'[CLAIM_COUNT][i][r] <= claims'[CLAIM_COUNT][i].count
    <3>1. CASE i = i0
      <4>1. claims'[CLAIM_COUNT][i] # NoAccount
        BY <3>1, <1>6, Distinct
      <4>2. claims'[CLAIM_COUNT][i].count = Counted(i0) + 1
        BY <3>1, <1>4
      <4>3. handed[CLAIM_COUNT][i][r] \in Nat /\ handed[CLAIM_COUNT][i][r] <= Counted(i0)
        BY <3>1, <1>2, <1>5, Distinct
      <4>4. handed'[CLAIM_COUNT][i][r] <= handed[CLAIM_COUNT][i][r] + 1
        BY <1>3, <4>3
      <4>5. QED
        BY <4>1, <4>2, <4>3, <4>4, <1>5, <1>3
    <3>2. CASE i # i0
      BY <2>1, <3>2, <1>3, <1>4 DEF GumdropInv, CountsAtLeast
    <3>3. QED
      BY <3>1, <3>2
  <2>2. QED
    BY <2>1, <1>3, <1>4 DEF GumdropInv, CountsAtLeast
<1>8. ProofsPublished'
  BY <1>4, SamePublished DEF GumdropInv, ProofsPublished
<1>9. KindsServed'
  <2>1. ASSUME NEW i \in Indexes, NEW r \in Resources, handed'[CLAIM_COUNT][i][r] > 0
        PROVE  \E f \in PublishedLeaves : f.index = i /\ OfCount(f)
    <3>1. CASE i = i0
      BY <3>1, <1>1
    <3>2. CASE i # i0
      BY <2>1, <3>2, <1>3 DEF GumdropInv, KindsServed
    <3>3. QED
      BY <3>1, <3>2
  <2>2. QED
    BY <2>1, <1>3, SamePublished DEF GumdropInv, KindsServed
<1>10. ClaimedAtMost'
  <2>1. ASSUME NEW i \in Indexes, NEW r \in Resources, handed'[CLAIM_COUNT][i][r] > 0
        PROVE  \E f \in PublishedLeaves :
                 f.index = i /\ f.resource = r /\ handed'[CLAIM_COUNT][i][r] <= f.amount
    <3>1. CASE i = i0 /\ r = r0
      <4>1. handed'[CLAIM_COUNT][i][r] = handed[CLAIM_COUNT][i0][r0] + 1
        BY <3>1, <1>3
      <4>2. handed[CLAIM_COUNT][i0][r0] \in Nat /\ handed[CLAIM_COUNT][i0][r0] <= Counted(i0)
        BY <1>1, <1>2, <1>5, Distinct
      <4>3. Counted(i0) < e.amount
        BY DEF CountClaim
      <4>4. handed'[CLAIM_COUNT][i][r] <= e.amount
        BY <4>1, <4>2, <4>3, <1>1, <1>5
      <4>5. QED
        BY <4>4, <3>1, <1>1
    <3>2. CASE ~(i = i0 /\ r = r0)
      BY <2>1, <3>2, <1>3, Distinct DEF GumdropInv, ClaimedAtMost
    <3>3. QED
      BY <3>1, <3>2
  <2>2. QED
    BY <2>1, <1>3, SamePublished, Distinct DEF GumdropInv, ClaimedAtMost
<1>11. ClaimantsVouchedFor'
  <2>1. VouchedFor(payer, i0)
    <3>1. CASE claims[CLAIM_COUNT][i0] = NoAccount
      BY <3>1, MayClaimVouched DEF GumdropInv, CountClaim, GetOrCreateClaimCount
    <3>2. CASE claims[CLAIM_COUNT][i0] # NoAccount
      BY <3>2, <1>1, Distinct DEF GumdropInv, CountClaim, GetOrCreateClaimCount, ClaimantsVouchedFor
    <3>3. QED
      BY <3>1, <3>2
  <2>2. claims'[CLAIM_COUNT][i0].claimant = payer
    BY <1>4
  <2>3. QED
    BY <2>1, <2>2, <1>4, SamePublished, Distinct DEF GumdropInv, ClaimantsVouchedFor
<1>12. QED
  BY <1>7, <1>8, <1>9, <1>10, <1>11 DEF GumdropInv

\* One more unit of what a proof was made for.
LEMMA ProvenStep ==
  ASSUME GumdropInv, NEW payer \in Claimants, NEW i0 \in Indexes, ClaimCandyProven(payer, i0), GumdropTypeOK'
  PROVE  GumdropInv'
<1> DEFINE proof == claims[CLAIM_COUNT][i0]
           r0 == proof.resource
<1>1. /\ handed \in [Prefixes -> [Indexes -> [Resources -> Nat]]]
      /\ claims \in [Prefixes -> [Indexes -> ClaimStatus \cup ClaimCount \cup ClaimProof \cup {NoAccount}]]
  BY DEF GumdropInv, GumdropTypeOK
<1>2. proof \in ClaimProof
  <2>1. proof \in ClaimStatus \cup ClaimCount \cup ClaimProof \cup {NoAccount}
    BY <1>1, Distinct
  <2>2. QED
    BY <2>1, KindsOfAccounts DEF ClaimCandyProven
<1>3. r0 \in Resources /\ r0 \in Candies /\ proof.count \in Nat /\ proof.amount \in Nat
  BY <1>2 DEF ClaimProof, ClaimCandyProven
<1>4. /\ handed'[CLAIM_STATUS] = handed[CLAIM_STATUS]
      /\ \A i \in Indexes, r \in Resources :
           handed'[CLAIM_COUNT][i][r] = IF i = i0 /\ r = r0 THEN handed[CLAIM_COUNT][i][r] + 1
                                        ELSE handed[CLAIM_COUNT][i][r]
  BY <1>1, <1>3, Distinct DEF ClaimCandyProven
<1>5. /\ claims'[CLAIM_STATUS] = claims[CLAIM_STATUS]
      /\ \A i \in Indexes : i # i0 => claims'[CLAIM_COUNT][i] = claims[CLAIM_COUNT][i]
      /\ claims'[CLAIM_COUNT][i0] = [proof EXCEPT !.count = @ + 1]
  BY <1>1, Distinct DEF ClaimCandyProven
<1>6. /\ claims'[CLAIM_COUNT][i0] \in ClaimProof
      /\ claims'[CLAIM_COUNT][i0].count = proof.count + 1
      /\ claims'[CLAIM_COUNT][i0].amount = proof.amount
      /\ claims'[CLAIM_COUNT][i0].resource = r0
      /\ claims'[CLAIM_COUNT][i0].claimant = proof.claimant
  BY <1>5, <1>2 DEF ClaimProof
<1>7. published' = published
  BY DEF ClaimCandyProven
<1>8. \A r \in Resources :
        handed[CLAIM_COUNT][i0][r] \in Nat /\ handed[CLAIM_COUNT][i0][r] <= proof.count
  <2>1. \A r \in Resources : handed[CLAIM_COUNT][i0][r] \in Nat
    BY <1>1, Distinct
  <2>2. \A r \in Resources : handed[CLAIM_COUNT][i0][r] > 0 => handed[CLAIM_COUNT][i0][r] <= proof.count
    BY DEF GumdropInv, CountsAtLeast
  <2>3. QED
    BY <2>1, <2>2, <1>3
<1>9. PICK e \in PublishedLeaves : e.index = i0 /\ e.resource = r0 /\ e.amount = proof.amount
  BY <1>2, Distinct, KindsOfAccounts DEF GumdropInv, ProofsPublished
<1>10. CountsAtLeast'
  <2>1. ASSUME NEW i \in Indexes, NEW r \in Resources, handed'[CLAIM_COUNT][i][r] > 0
        PROVE  claims'[CLAIM_COUNT][i] # NoAccount /\ handed'[CLAIM_COUNT][i][r] <= claims'[CLAIM_COUNT][i].count
    <3>1. CASE i = i0
      <4>1. claims'[CLAIM_COUNT][i] # NoAccount
        BY <3>1, <1>6, Distinct
      <4>2. handed'[CLAIM_COUNT][i][r] <= proof.count + 1
        BY <3>1, <1>3, <1>4, <1>8
      <4>3. QED
        BY <4>1, <4>2, <3>1, <1>6
    <3>2. CASE i # i0
      BY <2>1, <3>2, <1>4, <1>5 DEF GumdropInv, CountsAtLeast
    <3>3. QED
      BY <3>1, <3>2
  <2>2. QED
    BY <2>1, <1>4, <1>5 DEF GumdropInv, CountsAtLeast
<1>11. ProofsPublished'
  <2>1. ASSUME NEW i \in Indexes, claims'[CLAIM_COUNT][i] # NoAccount, claims'[CLAIM_COUNT][i].kind = "proof"
        PROVE  \E f \in PublishedLeaves : /\ f.index = i
                                          /\ f.resource = claims'[CLAIM_COUNT][i].resource
                                          /\ f.amount = claims'[CLAIM_COUNT][i].amount
    <3>1. CASE i = i0
      BY <3>1, <1>6, <1>9
    <3>2. CASE i # i0
      BY <2>1, <3>2, <1>5 DEF GumdropInv, ProofsPublished
    <3>3. QED
      BY <3>1, <3>2
  <2>2. QED
    BY <2>1, <1>7, SamePublished DEF ProofsPublished
<1>12. KindsServed'
  <2>1. ASSUME NEW i \in Indexes, NEW r \in Resources, handed'[CLAIM_COUNT][i][r] > 0
        PROVE  \E f \in PublishedLeaves : f.index = i /\ OfCount(f)
    <3>1. CASE i = i0
      BY <3>1, <1>9, <1>3 DEF OfCount
    <3>2. CASE i # i0
      BY <2>1, <3>2, <1>4 DEF GumdropInv, KindsServed
    <3>3. QED
      BY <3>1, <3>2
  <2>2. QED
    BY <2>1, <1>4, <1>7, SamePublished DEF GumdropInv, KindsServed
<1>13. ClaimedAtMost'
  <2>1. ASSUME NEW i \in Indexes, NEW r \in Resources, handed'[CLAIM_COUNT][i][r] > 0
        PROVE  \E f \in PublishedLeaves :
                 f.index = i /\ f.resource = r /\ handed'[CLAIM_COUNT][i][r] <= f.amount
    <3>1. CASE i = i0 /\ r = r0
      <4>1. handed'[CLAIM_COUNT][i][r] = handed[CLAIM_COUNT][i0][r0] + 1
        BY <3>1, <1>4
      <4>2. proof.count < proof.amount
        BY DEF ClaimCandyProven
      <4>3. handed'[CLAIM_COUNT][i][r] <= proof.amount
        BY <4>1, <4>2, <1>3, <1>8
      <4>4. QED
        BY <4>3, <3>1, <1>9
    <3>2. CASE ~(i = i0 /\ r = r0)
      BY <2>1, <3>2, <1>4, Distinct DEF GumdropInv, ClaimedAtMost
    <3>3. QED
      BY <3>1, <3>2
  <2>2. QED
    BY <2>1, <1>4, <1>7, SamePublished, Distinct DEF GumdropInv, ClaimedAtMost
<1>14. ClaimantsVouchedFor'
  <2>1. VouchedFor(proof.claimant, i0)
    BY <1>2, Distinct DEF GumdropInv, ClaimantsVouchedFor
  <2>2. ASSUME NEW p \in Prefixes, NEW i \in Indexes, claims'[p][i] # NoAccount
        PROVE  VouchedFor(claims'[p][i].claimant, i)
    <3>1. CASE p = CLAIM_COUNT /\ i = i0
      BY <3>1, <2>1, <1>6
    <3>2. CASE ~(p = CLAIM_COUNT /\ i = i0)
      BY <2>2, <3>2, <1>5, Distinct DEF GumdropInv, ClaimantsVouchedFor
    <3>3. QED
      BY <3>1, <3>2
  <2>3. QED
    BY <2>2, <1>7, SamePublished DEF ClaimantsVouchedFor
<1>15. QED
  BY <1>10, <1>11, <1>12, <1>13, <1>14 DEF GumdropInv

\* A new account of a claim, nothing handed out.
LEMMA ProveStep ==
  ASSUME GumdropInv, NEW prefix \in Prefixes, NEW payer \in Claimants, NEW e, ProveClaim(prefix, payer, e), GumdropTypeOK'
  PROVE  GumdropInv'
<1> DEFINE i0 == e.index
<1>1. /\ e \in PublishedLeaves /\ i0 \in Indexes /\ VouchedFor(payer, i0)
  BY ProvenIsPublished, MayClaimVouched DEF GumdropInv, ProveClaim
<1>2. claims \in [Prefixes -> [Indexes -> ClaimStatus \cup ClaimCount \cup ClaimProof \cup {NoAccount}]]
  BY DEF GumdropInv, GumdropTypeOK
<1>3. /\ claims[prefix][i0] = NoAccount
      /\ handed' = handed /\ published' = published
  BY DEF ProveClaim
<1>4. \A p \in Prefixes, i \in Indexes :
        claims'[p][i] = IF p = prefix /\ i = i0
                        THEN [kind |-> "proof", amount |-> e.amount, count |-> 0, claimant |-> payer,
                              resource |-> e.resource]
                        ELSE claims[p][i]
  BY <1>1, <1>2 DEF ProveClaim
<1>5. claims'[prefix][i0] \in ClaimProof
  <2>1. e.amount \in Nat /\ e.resource \in Resources
    BY ProvenIsPublished DEF GumdropInv, ProveClaim
  <2>2. QED
    BY <2>1, <1>1, <1>4 DEF ClaimProof
<1>6. CountsAtLeast'
  BY <1>1, <1>3, <1>4, Distinct DEF GumdropInv, CountsAtLeast
<1>7. ProofsPublished'
  <2>1. ASSUME NEW i \in Indexes, claims'[CLAIM_COUNT][i] # NoAccount, claims'[CLAIM_COUNT][i].kind = "proof"
        PROVE  \E f \in PublishedLeaves : /\ f.index = i
                                          /\ f.resource = claims'[CLAIM_COUNT][i].resource
                                          /\ f.amount = claims'[CLAIM_COUNT][i].amount
    <3> USE Distinct
    <3>1. CASE prefix = CLAIM_COUNT /\ i = i0
      BY <3>1, <1>1, <1>4, Distinct
    <3>2. CASE ~(prefix = CLAIM_COUNT /\ i = i0)
      BY <2>1, <3>2, <1>4, Distinct DEF GumdropInv, ProofsPublished
    <3>3. QED
      BY <3>1, <3>2
  <2>2. QED
    BY <2>1, <1>3, SamePublished DEF ProofsPublished
<1>8. KindsServed' /\ ClaimedAtMost'
  BY <1>3, SamePublished DEF GumdropInv, KindsServed, ClaimedAtMost
<1>9. ClaimantsVouchedFor'
  <2>1. ASSUME NEW p \in Prefixes, NEW i \in Indexes, claims'[p][i] # NoAccount
        PROVE  VouchedFor(claims'[p][i].claimant, i)
    <3>1. CASE p = prefix /\ i = i0
      BY <3>1, <1>1, <1>4
    <3>2. CASE ~(p = prefix /\ i = i0)
      BY <2>1, <3>2, <1>4 DEF GumdropInv, ClaimantsVouchedFor
    <3>3. QED
      BY <3>1, <3>2
  <2>2. QED
    BY <2>1, <1>3, SamePublished DEF ClaimantsVouchedFor
<1>10. QED
  BY <1>6, <1>7, <1>8, <1>9 DEF GumdropInv

\* Tokens handed out all at once.
LEMMA ClaimStep ==
  ASSUME GumdropInv, NEW payer \in Claimants, NEW e, Claim(payer, e), GumdropTypeOK'
  PROVE  GumdropInv'
<1> DEFINE i0 == e.index
           r0 == e.resource
<1>1. /\ e \in PublishedLeaves /\ i0 \in Indexes /\ VouchedFor(payer, i0)
      /\ e.amount \in Nat /\ r0 \in Resources /\ OfStatus(e)
  BY ProvenIsPublished, MayClaimVouched DEF GumdropInv, Claim, OfStatus
<1>2. /\ claims \in [Prefixes -> [Indexes -> ClaimStatus \cup ClaimCount \cup ClaimProof \cup {NoAccount}]]
      /\ handed \in [Prefixes -> [Indexes -> [Resources -> Nat]]]
  BY DEF GumdropInv, GumdropTypeOK
<1>3. /\ claims[CLAIM_STATUS][i0] = NoAccount /\ published' = published
      /\ claims'[CLAIM_COUNT] = claims[CLAIM_COUNT]
      /\ handed'[CLAIM_COUNT] = handed[CLAIM_COUNT]
      /\ \A i \in Indexes :
           claims'[CLAIM_STATUS][i] = IF i = i0 THEN [kind |-> "status", amount |-> e.amount, claimant |-> payer]
                                      ELSE claims[CLAIM_STATUS][i]
      /\ \A i \in Indexes, r \in Resources :
           handed'[CLAIM_STATUS][i][r] = IF i = i0 /\ r = r0 THEN handed[CLAIM_STATUS][i][r] + e.amount
                                         ELSE handed[CLAIM_STATUS][i][r]
  BY <1>1, <1>2, Distinct DEF Claim
<1>4. claims'[CLAIM_STATUS][i0] \in ClaimStatus
  BY <1>1, <1>3 DEF ClaimStatus
<1>5. \A r \in Resources : handed[CLAIM_STATUS][i0][r] = 0
  <2>1. \A r \in Resources : handed[CLAIM_STATUS][i0][r] \in Nat
    BY <1>1, <1>2, Distinct
  <2>2. \A r \in Resources : ~(handed[CLAIM_STATUS][i0][r] > 0)
    BY <1>1, <1>3 DEF GumdropInv, CountsAtLeast
  <2>3. QED
    BY <2>1, <2>2
<1>6. CountsAtLeast'
  <2>1. ASSUME NEW i \in Indexes, NEW r \in Resources, handed'[CLAIM_STATUS][i][r] > 0
        PROVE  claims'[CLAIM_STATUS][i] # NoAccount
    <3>1. CASE i = i0
      BY <3>1, <1>4, Distinct
    <3>2. CASE i # i0
      BY <2>1, <3>2, <1>3 DEF GumdropInv, CountsAtLeast
    <3>3. QED
      BY <3>1, <3>2
  <2>2. QED
    BY <2>1, <1>3 DEF GumdropInv, CountsAtLeast
<1>7. ProofsPublished'
  BY <1>3, SamePublished DEF GumdropInv, ProofsPublished
<1>8. KindsServed'
  <2>1. ASSUME NEW i \in Indexes, NEW r \in Resources, handed'[CLAIM_STATUS][i][r] > 0
        PROVE  \E f \in PublishedLeaves : f.index = i /\ OfStatus(f)
    <3>1. CASE i = i0
      BY <3>1, <1>1
    <3>2. CASE i # i0
      BY <2>1, <3>2, <1>3 DEF GumdropInv, KindsServed
    <3>3. QED
      BY <3>1, <3>2
  <2>2. QED
    BY <2>1, <1>3, SamePublished DEF GumdropInv, KindsServed
<1>9. ClaimedAtMost'
  <2>1. ASSUME NEW i \in Indexes, NEW r \in Resources, handed'[CLAIM_STATUS][i][r] > 0
        PROVE  \E f \in PublishedLeaves :
                 f.index = i /\ f.resource = r /\ handed'[CLAIM_STATUS][i][r] <= f.amount
    <3>1. CASE i = i0 /\ r = r0
      BY <3>1, <1>1, <1>3, <1>5
    <3>2. CASE ~(i = i0 /\ r = r0)
      BY <2>1, <3>2, <1>3, Distinct DEF GumdropInv, ClaimedAtMost
    <3>3. QED
      BY <3>1, <3>2
  <2>2. QED
    BY <2>1, <1>3, SamePublished, Distinct DEF GumdropInv, ClaimedAtMost
<1>10. ClaimantsVouchedFor'
  <2>1. ASSUME NEW p \in Prefixes, NEW i \in Indexes, claims'[p][i] # NoAccount
        PROVE  VouchedFor(claims'[p][i].claimant, i)
    <3>1. CASE p = CLAIM_STATUS /\ i = i0
      BY <3>1, <1>1, <1>3
    <3>2. CASE ~(p = CLAIM_STATUS /\ i = i0)
      BY <2>1, <3>2, <1>3, Distinct DEF GumdropInv, ClaimantsVouchedFor
    <3>3. QED
      BY <3>1, <3>2
  <2>2. QED
    BY <2>1, <1>3, SamePublished DEF ClaimantsVouchedFor
<1>11. QED
  BY <1>6, <1>7, <1>8, <1>9, <1>10 DEF GumdropInv

-----------------------------------------------------------------------------
LEMMA TypeClaim ==
  ASSUME GumdropInv, NEW payer \in Claimants, ClaimOf(payer)
  PROVE  GumdropTypeOK'
<1> USE DEF GumdropInv
<1> DEFINE Accounts == ClaimStatus \cup ClaimCount \cup ClaimProof \cup {NoAccount}
<1>1. ASSUME NEW e \in PublishedLeaves, NEW prefix \in Prefixes, ProveClaim(prefix, payer, e)
      PROVE  GumdropTypeOK'
  <2>1. e.index \in Indexes /\ e.amount \in Nat /\ e.resource \in Resources
    BY <1>1, PublishedAreLeaves DEF Leaves
  <2>2. [kind |-> "proof", amount |-> e.amount, count |-> 0, claimant |-> payer,
         resource |-> e.resource] \in ClaimProof
    BY <2>1 DEF ClaimProof
  <2>3. QED
    BY <1>1, <2>1, <2>2, Distinct, KindsOfAccounts DEF ProveClaim, GumdropTypeOK
<1>2. ASSUME NEW e \in PublishedLeaves, Claim(payer, e)
      PROVE  GumdropTypeOK'
  <2>1. e.index \in Indexes /\ e.amount \in Nat /\ e.resource \in Resources
    BY PublishedAreLeaves DEF Leaves
  <2>2. [kind |-> "status", amount |-> e.amount, claimant |-> payer] \in ClaimStatus
    BY <2>1 DEF ClaimStatus
  <2>3. QED
    BY <1>2, <2>1, <2>2, Distinct, KindsOfAccounts DEF Claim, GumdropTypeOK
<1>3. ASSUME NEW e \in PublishedLeaves, CountClaim(payer, e)
      PROVE  /\ claims' \in [Prefixes -> [Indexes -> Accounts]]
             /\ \A i \in Indexes : /\ claims'[CLAIM_COUNT][i] \notin ClaimStatus
                                   /\ claims'[CLAIM_STATUS][i] \notin ClaimCount
             /\ handed' \in [Prefixes -> [Indexes -> [Resources -> Nat]]]
  <2>1. e.index \in Indexes /\ e.amount \in Nat /\ e.resource \in Resources
    BY PublishedAreLeaves DEF Leaves
  <2>2. Counted(e.index) \in Nat
    <3>1. claims[CLAIM_COUNT][e.index] \in Accounts /\ claims[CLAIM_COUNT][e.index] \notin ClaimStatus
      BY <2>1, Distinct DEF GumdropTypeOK
    <3>2. CASE claims[CLAIM_COUNT][e.index] = NoAccount
      BY <3>2 DEF Counted
    <3>3. CASE claims[CLAIM_COUNT][e.index] \in ClaimCount
      BY <3>3, Distinct DEF Counted, ClaimCount
    <3>4. CASE claims[CLAIM_COUNT][e.index] \in ClaimProof
      BY <3>4, Distinct DEF Counted, ClaimProof
    <3>5. QED
      BY <3>1, <3>2, <3>3, <3>4
  <2>3. [kind |-> "count", count |-> Counted(e.index) + 1, claimant |-> payer] \in ClaimCount
    BY <2>2 DEF ClaimCount
  <2>4. QED
    BY <1>3, <2>1, <2>3, Distinct, KindsOfAccounts DEF CountClaim, GumdropTypeOK
<1>4. ASSUME NEW e \in PublishedLeaves, ClaimCandy(payer, e)
      PROVE  GumdropTypeOK'
  <2>1. CountClaim(payer, e) /\ e.resource \in Candies
    BY <1>4 DEF ClaimCandy
  <2>2. left' \in [Candies -> Nat]
    BY <1>4, <2>1 DEF ClaimCandy, IssueMintNft, GumdropTypeOK
  <2>3. QED
    BY <1>3, <1>4, <2>1, <2>2 DEF ClaimCandy, GumdropTypeOK
<1>5. ASSUME NEW e \in PublishedLeaves, NEW to_wallet \in BOOLEAN, ClaimEdition(payer, e, to_wallet)
      PROVE  GumdropTypeOK'
  <2>1. CountClaim(payer, e) /\ e.resource \in Mints /\ e.nonce # NoNonce
    BY <1>5 DEF ClaimEdition
  <2>2. e.nonce \in Nonces
    BY <2>1, PublishedAreLeaves DEF Leaves
  <2>3. printed' \in SUBSET (Mints \X Nonces) /\ stranded' \in Nat
    BY <1>5, <2>1, <2>2 DEF ClaimEdition, GumdropTypeOK
  <2>4. QED
    BY <1>3, <1>5, <2>1, <2>3 DEF ClaimEdition, GumdropTypeOK
<1>6. ASSUME NEW i \in Indexes, ClaimCandyProven(payer, i)
      PROVE  GumdropTypeOK'
  <2>1. claims[CLAIM_COUNT][i] \in Accounts
    BY Distinct DEF GumdropTypeOK
  <2>2. claims[CLAIM_COUNT][i] \in ClaimProof
    BY <1>6, <2>1, KindsOfAccounts DEF ClaimCandyProven
  <2>3. [claims[CLAIM_COUNT][i] EXCEPT !.count = @ + 1] \in ClaimProof
    BY <2>2 DEF ClaimProof
  <2>4. /\ claims' \in [Prefixes -> [Indexes -> Accounts]]
        /\ \A j \in Indexes : /\ claims'[CLAIM_COUNT][j] \notin ClaimStatus
                              /\ claims'[CLAIM_STATUS][j] \notin ClaimCount
    BY <1>6, <2>3, Distinct, KindsOfAccounts DEF ClaimCandyProven, GumdropTypeOK
  <2>5. handed' \in [Prefixes -> [Indexes -> [Resources -> Nat]]] /\ left' \in [Candies -> Nat]
    BY <1>6, <2>2, Distinct DEF ClaimCandyProven, IssueMintNft, GumdropTypeOK, ClaimProof
  <2>6. QED
    BY <1>6, <2>4, <2>5 DEF ClaimCandyProven, GumdropTypeOK
<1>7. QED
  BY <1>1, <1>2, <1>4, <1>5, <1>6 DEF ClaimOf

LEMMA ClaimOfStep ==
  ASSUME GumdropInv, NEW payer \in Claimants, ClaimOf(payer)
  PROVE  GumdropInv'
<1>1. GumdropTypeOK'
  BY TypeClaim
<1>2. ASSUME NEW e, ClaimCandy(payer, e) PROVE GumdropInv'
  BY <1>1, <1>2, CountStep DEF ClaimCandy, OfCount
<1>3. ASSUME NEW e, NEW to_wallet, ClaimEdition(payer, e, to_wallet) PROVE GumdropInv'
  BY <1>1, <1>3, CountStep DEF ClaimEdition, OfCount
<1>4. QED
  BY <1>1, <1>2, <1>3, ProveStep, ClaimStep, ProvenStep DEF ClaimOf

LEMMA StepInv == GumdropInv /\ [GumdropNext]_gumdropVars => GumdropInv'
<1> SUFFICES ASSUME GumdropInv, [GumdropNext]_gumdropVars PROVE GumdropInv'
  OBVIOUS
<1>1. CASE UNCHANGED gumdropVars
  <2>1. GumdropTypeOK'
    BY <1>1 DEF GumdropInv, GumdropTypeOK, gumdropVars
  <2>2. QED
    BY <1>1, <2>1, Undisturbed DEF gumdropVars
<1>2. CASE GumdropNext
  BY <1>2, DistributeStep, ClaimOfStep DEF GumdropNext
<1>3. QED
  BY <1>1, <1>2

-----------------------------------------------------------------------------
\* Distributor, claims and tokens keep their form (lib.rs:1330-1390).
THEOREM TypeCorrect == GumdropSpec => []GumdropTypeOK
<1>1. GumdropInv => GumdropTypeOK
  BY DEF GumdropInv
<1>2. QED
  BY <1>1, InitInv, StepInv, PTL DEF GumdropSpec

\* No index hands out more of a resource than a published leaf of it allows
\* (claim, claim_candy, claim_edition, claim_candy_proven).
THEOREM ClaimsBounded == GumdropSpec => []ClaimedAtMost
<1>1. GumdropInv => ClaimedAtMost
  BY DEF GumdropInv
<1>2. QED
  BY <1>1, InitInv, StepInv, PTL DEF GumdropSpec

\* Both endpoints never serve one index of one tree (prove_claim's comment).
THEOREM EndpointsExclusive == GumdropSpec => []OneEndpoint
<1>1. GumdropInv => OneEndpoint
  <2> SUFFICES ASSUME GumdropInv, NEW i \in Indexes, NEW r \in Resources, NEW s \in Resources,
                      handed[CLAIM_COUNT][i][r] > 0, handed[CLAIM_STATUS][i][s] > 0
               PROVE  \E c, d \in published : c.root # d.root
    BY DEF OneEndpoint
  <2>1. PICK e \in PublishedLeaves : e.index = i /\ OfCount(e)
    BY DEF GumdropInv, KindsServed
  <2>2. PICK f \in PublishedLeaves : f.index = i /\ OfStatus(f)
    BY DEF GumdropInv, KindsServed
  <2>3. PICK c \in published : e \in c.root
    BY DEF PublishedLeaves
  <2>4. PICK d \in published : f \in d.root
    BY DEF PublishedLeaves
  <2>5. e # f
    BY <2>1, <2>2, KindsAssumption DEF OfCount, OfStatus
  <2>6. c \in Distributors
    BY <2>3 DEF GumdropInv, GumdropTypeOK
  <2>7. c.root # d.root
    BY <2>1, <2>2, <2>3, <2>4, <2>5, <2>6, DropsAssumption
  <2>8. QED
    BY <2>3, <2>4, <2>7
<1>2. QED
  BY <1>1, InitInv, StepInv, PTL DEF GumdropSpec

\* Nobody claims at an index without having been vouched for (verify_temporal).
THEOREM ClaimantsAreVouchedFor == GumdropSpec => []ClaimantsVouchedFor
<1>1. GumdropInv => ClaimantsVouchedFor
  BY DEF GumdropInv
<1>2. QED
  BY <1>1, InitInv, StepInv, PTL DEF GumdropSpec

-----------------------------------------------------------------------------
(***************************************************************************)
(* The candy machine, for any wallets, currencies, settings and number of  *)
(* NFTs: the count of frozen NFTs and their number differ by no more than  *)
(* the tokens from elsewhere that were thawed, the funds of the freeze     *)
(* stay while more than that are frozen, no line is minted twice, and the  *)
(* search for a line finds the nearest one left.                           *)
(***************************************************************************)


(* What the freeze reads of the machine and of the clock. *)
MachineTyped ==
  /\ now \in Nat
  /\ data \in DataChoices \cup {None}
  /\ phase = "Open" => data # None
  /\ token_mint \in Currencies
  /\ escrow \in [Currencies -> Nat]

(* The NFTs sold are a sequence, as long as the number that was redeemed.   *)
Sold ==
  /\ \E R : nfts \in Seq(R) /\ \A r \in R : "frozen" \in DOMAIN r
  /\ items_redeemed = Len(nfts)

(* Mints are frozen only while there is an account to count them in.        *)
FreezeAccount ==
  /\ freeze \in FreezePDA \cup {None}
  /\ "freeze" \in flags => freeze # None

FreezeInv ==
  /\ MachineTyped /\ Sold /\ FreezeAccount
  /\ others_thawed \in Nat /\ IsFiniteSet(Frozen) /\ FrozenCounted

-----------------------------------------------------------------------------
LEMMA SeqMonotone ==
  ASSUME NEW R, NEW S, R \subseteq S, NEW s \in Seq(R)
  PROVE  s \in Seq(S)
<1>1. Len(s) \in Nat /\ s \in [1 .. Len(s) -> R]
  OBVIOUS
<1>2. s \in [1 .. Len(s) -> S]
  BY <1>1
<1> QED BY <1>1, <1>2

(* A step that leaves the NFTs alone leaves the frozen ones.                *)
LEMMA SameFrozen ==
  ASSUME UNCHANGED nfts
  PROVE  Frozen' = Frozen
BY DEF Frozen

(* The account counts no more than is frozen. *)
LEMMA CountOfFrozen ==
  ASSUME FreezeInv
  PROVE  /\ Cardinality(Frozen) \in Nat /\ others_thawed \in Nat /\ Count \in Nat
         /\ Count <= Cardinality(Frozen) /\ Cardinality(Frozen) <= Count + others_thawed
         /\ freeze # None => freeze \in FreezePDA /\ freeze.frozen_count = Count
<1>1. Cardinality(Frozen) \in Nat
  BY FS_CardinalityType DEF FreezeInv
<1>2. freeze \in FreezePDA => freeze.frozen_count \in Nat
  BY DEF FreezePDA
<1> QED BY <1>1, <1>2 DEF FreezeInv, FrozenCounted, FreezeAccount, Count

(* Nothing is frozen before the first mint. *)
LEMMA NothingSold ==
  ASSUME FreezeInv, items_redeemed = 0
  PROVE  Frozen = {}
<1>1. PICK R : nfts \in Seq(R)
  BY DEF FreezeInv, Sold
<1>2. Len(nfts) = 0
  BY DEF FreezeInv, Sold
<1>3. DOMAIN nfts = {}
  BY <1>1, <1>2
<1> QED BY <1>3 DEF Frozen

LEMMA InitFreeze == Init => FreezeInv
<1> SUFFICES ASSUME Init PROVE FreezeInv
  OBVIOUS
<1>1. Frozen = {}
  BY DEF Init, Frozen
<1>2. IsFiniteSet(Frozen) /\ Cardinality(Frozen) = 0
  BY <1>1, FS_EmptySet
<1>3. nfts \in Seq({}) /\ Len(nfts) = 0
  BY DEF Init
<1>5. Sold
  <2>1. \E R : nfts \in Seq(R) /\ \A r \in R : "frozen" \in DOMAIN r
    <3> WITNESS {}
    <3> QED BY <1>3
  <2>2. items_redeemed = Len(nfts)
    BY <1>3 DEF Init
  <2> QED BY <2>1, <2>2 DEF Sold
<1>4. MachineTyped
  BY CandyAssumption DEF Init, MachineTyped, Currencies
<1> QED BY <1>2, <1>4, <1>5 DEF Init, FreezeInv, FreezeAccount, FrozenCounted, Count

(* What a mint costs is an amount. *)
LEMMA PriceNat ==
  ASSUME MachineTyped, phase = "Open", NEW p \in Wallets
  PROVE  PriceFor(p) \in Nat
<1>1. data \in CandyMachineData
  BY CandyAssumption DEF MachineTyped
<1>2. data.price \in Nat /\ data.whitelist_mint_settings \in WhitelistMintSettings \cup {None}
  BY <1>1 DEF CandyMachineData
<1>3. ASSUME data.whitelist_mint_settings # None
      PROVE  data.whitelist_mint_settings.discount_price \in Nat \cup {None}
  BY <1>2, <1>3 DEF WhitelistMintSettings
<1> QED BY <1>2, <1>3 DEF PriceFor, UsesTicket

-----------------------------------------------------------------------------
(***************************************************************************)
(* Instructions that neither mint nor thaw.                                *)
(***************************************************************************)
(* What the invariant needs of them: no NFT changes, and the account keeps  *)
(* its count, or comes and goes with too few frozen to be counted.          *)
LEMMA KeepsCount ==
  ASSUME FreezeInv, MachineTyped', UNCHANGED <<nfts, items_redeemed, others_thawed>>,
         FreezeAccount',
         \/ Count' = Count
         \/ Cardinality(Frozen) <= others_thawed /\ Count' = 0
  PROVE  FreezeInv'
<1>1. Frozen' = Frozen
  BY SameFrozen
<1>2. Sold'
  BY DEF FreezeInv, Sold
<1>4. FrozenCounted'
  BY <1>1, CountOfFrozen DEF FrozenCounted
<1> QED BY <1>1, <1>2, <1>4 DEF FreezeInv

LEMMA MachineStep ==
  ASSUME FreezeInv,
         \/ \E s \in Authorities, d \in DataChoices, c \in Currencies, room \in BOOLEAN :
              Initialize(s, d, c, room)
         \/ \E d \in DataChoices, c \in Currencies : Update(d, c)
         \/ \E new \in Authorities : UpdateAuthority(new)
         \/ SetCollection
         \/ RemoveCollection
         \/ \E p \in Wallets, tx \in Transaction : TaxedMint(p, tx)
         \/ Withdraw
         \/ Tick
  PROVE  FreezeInv'
<1>1. /\ UNCHANGED <<nfts, items_redeemed, others_thawed, freeze, escrow>>
      /\ "freeze" \in flags' <=> "freeze" \in flags
  BY DEF Initialize, Update, UpdateAuthority, SetCollection, RemoveCollection, TaxedMint,
         Withdraw, Tick, machineVars, payVars
<1>2. FreezeAccount'
  BY <1>1 DEF FreezeInv, FreezeAccount
<1>3. None \notin DataChoices
  BY CandyAssumption
<1>4. MachineTyped'
  BY <1>1, <1>3 DEF FreezeInv, MachineTyped, Initialize, Update, UpdateAuthority, SetCollection,
         RemoveCollection, TaxedMint, Withdraw, Tick, machineVars, payVars
<1>5. Count' = Count
  BY <1>1 DEF Count
<1> QED BY <1>1, <1>2, <1>4, <1>5, KeepsCount

LEMMA SetFreezeStep ==
  ASSUME FreezeInv, NEW t \in FreezeTimes, SetFreeze(t)
  PROVE  FreezeInv'
<1>1. freeze' \in FreezePDA /\ freeze' # None /\ freeze'.frozen_count = 0
  <2>1. freeze' = [allow_thaw |-> FALSE, frozen_count |-> 0, mint_start |-> None, freeze_time |-> t]
    BY DEF SetFreeze
  <2>2. freeze' \in FreezePDA
    BY <2>1, CandyAssumption DEF FreezePDA
  <2> QED BY <2>1, <2>2, CandyAssumption
<1>2. MachineTyped' /\ FreezeAccount'
  BY <1>1 DEF SetFreeze, FreezeInv, MachineTyped, FreezeAccount, payVars
<1>3. Cardinality(Frozen) <= others_thawed
  BY NothingSold, FS_EmptySet, CountOfFrozen DEF SetFreeze
<1>4. UNCHANGED <<nfts, items_redeemed, others_thawed>>
  BY DEF SetFreeze
<1>5. Count' = 0
  BY <1>1 DEF Count
<1> QED BY <1>2, <1>3, <1>4, <1>5, KeepsCount

LEMMA RemoveFreezeStep ==
  ASSUME FreezeInv, RemoveFreeze
  PROVE  FreezeInv'
<1>1. freeze \in FreezePDA
  BY DEF RemoveFreeze, FreezeInv, FreezeAccount
<1>2. MachineTyped' /\ UNCHANGED <<nfts, items_redeemed, others_thawed>> /\ "freeze" \notin flags'
  BY DEF RemoveFreeze, FreezeInv, MachineTyped, payVars
<1>3. CASE items_redeemed = 0
  <2>1. Cardinality(Frozen) <= others_thawed
    BY <1>3, NothingSold, FS_EmptySet, CountOfFrozen
  <2>2. freeze' = None /\ Count' = 0
    BY <1>3 DEF RemoveFreeze, Count
  <2> QED BY <1>2, <2>1, <2>2, KeepsCount DEF FreezeAccount
<1>4. CASE items_redeemed # 0
  <2>1. freeze' = [freeze EXCEPT !.allow_thaw = TRUE]
    BY <1>4 DEF RemoveFreeze
  <2>2. freeze' \in FreezePDA /\ freeze'.frozen_count = freeze.frozen_count
    BY <1>1, <2>1 DEF FreezePDA
  <2>3. freeze # None /\ freeze' # None
    BY <1>1, <2>2, CandyAssumption
  <2>4. Count' = Count
    BY <2>2, <2>3 DEF Count
  <2> QED BY <1>2, <2>2, <2>4, KeepsCount DEF FreezeAccount
<1> QED BY <1>3, <1>4

(* The account is closed when it counts nothing. *)
LEMMA UnlockOnlyThawed ==
  ASSUME FreezeInv, UnlockFunds
  PROVE  Cardinality(Frozen) <= others_thawed
BY CountOfFrozen DEF UnlockFunds, MayUnlock

LEMMA UnlockStep ==
  ASSUME FreezeInv, UnlockFunds
  PROVE  FreezeInv'
<1>1. UNCHANGED <<nfts, items_redeemed, others_thawed, now, data, phase, token_mint>>
      /\ freeze' = None /\ "freeze" \notin flags'
  BY DEF UnlockFunds
<1>2. escrow' \in [Currencies -> Nat]
  BY DEF UnlockFunds, FreezeInv, MachineTyped
<1>3. MachineTyped' /\ FreezeAccount'
  BY <1>1, <1>2 DEF FreezeInv, MachineTyped, FreezeAccount
<1>4. Count' = 0
  BY <1>1 DEF Count
<1> QED BY <1>1, <1>3, <1>4, UnlockOnlyThawed, KeepsCount

-----------------------------------------------------------------------------
(***************************************************************************)
(* Thawing and minting.                                                    *)
(***************************************************************************)
(* thaw_nft takes one off the count while there is one. *)
LEMMA ThawCounts ==
  ASSUME FreezeInv, CanThaw, freeze' = [freeze EXCEPT !.frozen_count = CountAfterThaw]
  PROVE  /\ freeze' \in FreezePDA /\ freeze' # None
         /\ Count' = IF Count > 0 THEN Count - 1 ELSE 0
<1>1. freeze # None /\ freeze \in FreezePDA
  BY DEF CanThaw, FreezeInv, FreezeAccount
<1>2. freeze.frozen_count \in Nat /\ Count = freeze.frozen_count
  BY <1>1 DEF FreezePDA, Count
<1>3. CountAfterThaw \in Nat /\ CountAfterThaw = IF Count > 0 THEN Count - 1 ELSE 0
  BY <1>2 DEF CountAfterThaw
<1>4. freeze' \in FreezePDA /\ freeze'.frozen_count = CountAfterThaw
  BY <1>1, <1>3 DEF FreezePDA
<1>5. freeze' # None
  BY <1>4, CandyAssumption
<1> QED BY <1>3, <1>4, <1>5 DEF Count

LEMMA ThawStep ==
  ASSUME FreezeInv, NEW i \in DOMAIN nfts, Thaw(i)
  PROVE  FreezeInv'
<1>1. PICK R : nfts \in Seq(R) /\ \A r \in R : "frozen" \in DOMAIN r
  BY DEF FreezeInv, Sold
<1> DEFINE thawed == [nfts[i] EXCEPT !.frozen = FALSE]
           S == R \cup {thawed}
<1>2. DOMAIN nfts = 1 .. Len(nfts) /\ "frozen" \in DOMAIN nfts[i]
  BY <1>1
<1>3. nfts' = [nfts EXCEPT ![i] = thawed]
  BY DEF Thaw
<1>4. "frozen" \in DOMAIN thawed /\ thawed.frozen = FALSE
  BY <1>2
<1>5. \A r \in S : "frozen" \in DOMAIN r
  BY <1>1, <1>4
<1>6. thawed \in S /\ nfts \in Seq(S)
  BY <1>1, SeqMonotone
<1> HIDE DEF thawed, S
<1>17. nfts' \in Seq(S) /\ Len(nfts') = Len(nfts)
  BY <1>2, <1>3, <1>6
<1>18. /\ DOMAIN nfts' = DOMAIN nfts
       /\ ~nfts'[i].frozen
       /\ \A j \in DOMAIN nfts \ {i} : nfts'[j] = nfts[j]
  BY <1>2, <1>3, <1>4
<1>19. Frozen' = Frozen \ {i}
  BY <1>18 DEF Frozen
<1>7. i \in Frozen
  BY DEF Thaw, Frozen
<1>8. IsFiniteSet(Frozen') /\ Cardinality(Frozen') = Cardinality(Frozen) - 1
  BY <1>19, <1>7, FS_RemoveElement DEF FreezeInv
<1>9. /\ UNCHANGED <<now, machineVars, items_redeemed, others_thawed, escrow>>
      /\ freeze' \in FreezePDA /\ freeze' # None
      /\ Count' = IF Count > 0 THEN Count - 1 ELSE 0
  BY ThawCounts DEF Thaw, payVars
<1>10. Cardinality(Frozen) # 0
  BY <1>7, FS_EmptySet DEF FreezeInv
<1>14. MachineTyped' /\ FreezeAccount'
  BY <1>9 DEF FreezeInv, MachineTyped, FreezeAccount, machineVars
<1>15. Sold'
  BY <1>5, <1>17, <1>9 DEF FreezeInv, Sold
<1>16. FrozenCounted'
  BY <1>8, <1>9, <1>10, CountOfFrozen DEF FrozenCounted
<1> QED BY <1>8, <1>9, <1>14, <1>15, <1>16 DEF FreezeInv

(* A token from elsewhere takes one off the count and nothing off the NFTs. *)
LEMMA ThawOtherStep ==
  ASSUME FreezeInv, ThawOther
  PROVE  FreezeInv'
<1>1. /\ UNCHANGED <<now, machineVars, items_redeemed, nfts, escrow>>
      /\ others_thawed' = others_thawed + 1
      /\ freeze' \in FreezePDA /\ freeze' # None
      /\ Count' = IF Count > 0 THEN Count - 1 ELSE 0
  BY ThawCounts DEF ThawOther, payVars
<1>2. Frozen' = Frozen
  BY <1>1, SameFrozen
<1>3. MachineTyped' /\ FreezeAccount' /\ Sold'
  BY <1>1 DEF FreezeInv, MachineTyped, FreezeAccount, Sold, machineVars
<1>4. FrozenCounted'
  BY <1>1, <1>2, CountOfFrozen DEF FrozenCounted
<1>5. others_thawed' \in Nat
  BY <1>1, CountOfFrozen
<1> QED BY <1>2, <1>3, <1>4, <1>5 DEF FreezeInv

(* A mint that is frozen finds the account and adds itself to the count.    *)
LEMMA MintStep ==
  ASSUME FreezeInv, NEW p \in Wallets, NEW tx \in Transaction, NEW start,
         NEW frozen \in MintsFrozen, Mint(p, tx, start, frozen)
  PROVE  FreezeInv' /\ \A c \in Currencies : escrow'[c] >= escrow[c]
<1> DEFINE line == IF data.hidden_settings THEN items_redeemed ELSE FoundLine(start)
           nft == [line |-> line, numbered |-> data.hidden_settings, frozen |-> frozen]
<1>1. /\ phase = "Open" /\ PayMint(p, PriceFor(p), frozen)
      /\ items_redeemed' = items_redeemed + 1 /\ nfts' = Append(nfts, nft)
      /\ CountFrozen(frozen) /\ UNCHANGED <<now, machineVars, others_thawed>>
  BY DEF Mint
<1>2. frozen \in BOOLEAN /\ (frozen => "freeze" \in flags)
  BY DEF MintsFrozen
<1>3. PICK R : nfts \in Seq(R) /\ \A r \in R : "frozen" \in DOMAIN r
  BY DEF FreezeInv, Sold
<1> DEFINE S == R \cup {nft}
<1>4. \A r \in S : "frozen" \in DOMAIN r
  BY <1>3
<1>8. nft.frozen = frozen
  OBVIOUS
<1>5. nft \in S /\ nfts \in Seq(S)
  BY <1>3, SeqMonotone
<1> HIDE DEF S, nft
<1>6. /\ nfts' \in Seq(S) /\ Len(nfts') = Len(nfts) + 1
      /\ DOMAIN nfts = 1 .. Len(nfts) /\ DOMAIN nfts' = 1 .. Len(nfts) + 1 /\ Len(nfts) \in Nat
      /\ \A j \in DOMAIN nfts : nfts'[j] = nfts[j]
      /\ nfts'[Len(nfts) + 1] = nft
  BY <1>1, <1>5
<1>7. Sold'
  BY <1>1, <1>4, <1>6 DEF FreezeInv, Sold
<1>9. Frozen' = IF frozen THEN Frozen \cup {Len(nfts) + 1} ELSE Frozen
  BY <1>6, <1>8 DEF Frozen
<1>10. Len(nfts) + 1 \notin Frozen
  BY <1>6 DEF Frozen
<1>11. /\ IsFiniteSet(Frozen')
       /\ Cardinality(Frozen') = Cardinality(Frozen) + (IF frozen THEN 1 ELSE 0)
  <2>1. CASE frozen
    BY <2>1, <1>9, <1>10, FS_AddElement DEF FreezeInv
  <2>2. CASE ~frozen
    BY <2>2, <1>9, CountOfFrozen DEF FreezeInv
  <2> QED BY <2>1, <2>2
<1>12. PriceFor(p) \in Nat
  BY <1>1, PriceNat DEF FreezeInv
<1>13. escrow' \in [Currencies -> Nat] /\ \A c \in Currencies : escrow'[c] >= escrow[c]
  <2>1. token_mint \in Currencies /\ escrow \in [Currencies -> Nat]
    BY DEF FreezeInv, MachineTyped
  <2>2. \/ escrow' = [escrow EXCEPT ![token_mint] = @ + PriceFor(p)]
        \/ escrow' = escrow
    BY <1>1 DEF PayMint
  <2> HIDE DEF Currencies
  <2> QED BY <1>12, <2>1, <2>2
<1>14. MachineTyped'
  BY <1>1, <1>13 DEF FreezeInv, MachineTyped, machineVars
<1>15. FreezeAccount' /\ FrozenCounted'
  <2>1. CASE frozen
    <3>1. freeze # None /\ freeze \in FreezePDA /\ freeze.frozen_count = Count /\ Count \in Nat
      BY <1>2, <2>1, CountOfFrozen DEF FreezeInv, FreezeAccount
    <3>2. freeze' = [freeze EXCEPT !.frozen_count = @ + 1,
                                   !.mint_start = IF @ = None THEN now ELSE @]
      BY <1>1, <2>1 DEF CountFrozen
    <3>3. freeze' \in FreezePDA /\ freeze'.frozen_count = freeze.frozen_count + 1
      <4> DEFINE start_time == IF freeze.mint_start = None THEN now ELSE freeze.mint_start
      <4>1. start_time \in Nat \cup {None} /\ freeze.frozen_count + 1 \in Nat
        BY <3>1 DEF FreezePDA, FreezeInv, MachineTyped
      <4>2. freeze' = [freeze EXCEPT !.frozen_count = freeze.frozen_count + 1, !.mint_start = start_time]
        BY <3>2
      <4> HIDE DEF start_time
      <4> QED BY <3>1, <4>1, <4>2 DEF FreezePDA
    <3>4. freeze' # None
      BY <3>3, CandyAssumption
    <3>5. Count' = Count + 1
      BY <3>1, <3>3, <3>4 DEF Count
    <3>6. Cardinality(Frozen') = Cardinality(Frozen) + 1
      BY <1>11, <2>1
    <3>7. FrozenCounted'
      BY <1>1, <3>5, <3>6, CountOfFrozen DEF FrozenCounted
    <3> QED BY <3>3, <3>4, <3>7 DEF FreezeAccount
  <2>2. CASE ~frozen
    <3>1. freeze' = freeze /\ flags' = flags
      BY <1>1, <2>2 DEF CountFrozen, machineVars
    <3>2. Frozen' = Frozen
      BY <1>9, <2>2
    <3> QED BY <1>1, <3>1, <3>2 DEF FreezeInv, FreezeAccount, FrozenCounted, Count
  <2> QED BY <2>1, <2>2
<1>16. others_thawed' \in Nat
  BY <1>1, CountOfFrozen
<1> QED BY <1>7, <1>11, <1>13, <1>14, <1>15, <1>16 DEF FreezeInv

-----------------------------------------------------------------------------
LEMMA FreezeStep == FreezeInv /\ [Next]_vars => FreezeInv'
<1> SUFFICES ASSUME FreezeInv, [Next]_vars PROVE FreezeInv'
  OBVIOUS
<1>1. ASSUME NEW t \in FreezeTimes, SetFreeze(t) PROVE FreezeInv'
  BY <1>1, SetFreezeStep
<1>2. CASE RemoveFreeze
  BY <1>2, RemoveFreezeStep
<1>3. CASE UnlockFunds
  BY <1>3, UnlockStep
<1>4. ASSUME NEW i \in DOMAIN nfts, Thaw(i) PROVE FreezeInv'
  BY <1>4, ThawStep
<1>5. ASSUME NEW p \in Wallets, NEW tx \in Transaction, NEW start \in Starts,
             NEW frozen \in MintsFrozen, Mint(p, tx, start, frozen)
      PROVE  FreezeInv'
  BY <1>5, MintStep
<1>6. CASE UNCHANGED vars
  BY <1>6 DEF vars, machineVars, payVars, FreezeInv, MachineTyped, Sold, FreezeAccount,
              FrozenCounted, Frozen, Count
<1>7. CASE ThawOther
  BY <1>7, ThawOtherStep
<1> QED BY <1>1, <1>2, <1>3, <1>4, <1>5, <1>6, <1>7, MachineStep DEF Next

LEMMA FreezeInvariant == Spec => []FreezeInv
BY InitFreeze, FreezeStep, PTL DEF Spec

(* frozen_count never exceeds the number of frozen NFTs and falls short of   *)
(* it by at most the tokens from elsewhere that thaw_nft has thawed, however *)
(* mints, thaws, unlocks and changes of the settings follow each other.     *)
THEOREM CountIsTrue == Spec => []FrozenCounted
<1>1. FreezeInv => FrozenCounted
  BY DEF FreezeInv
<1> QED BY <1>1, FreezeInvariant, PTL

(* No instruction takes money out of the freeze account while more NFTs are *)
(* frozen than tokens from elsewhere were thawed.                           *)
THEOREM FundsHeld == Spec => EscrowHeldWhileFrozen
<1>1. ASSUME FreezeInv, Next, NEW c \in Currencies, escrow'[c] < escrow[c]
      PROVE  Cardinality(Frozen) <= others_thawed
  <2>1. CASE UnlockFunds
    BY <1>1, <2>1, UnlockOnlyThawed
  <2>2. ASSUME NEW p \in Wallets, NEW tx \in Transaction, NEW start \in Starts,
               NEW frozen \in MintsFrozen, Mint(p, tx, start, frozen)
        PROVE  FALSE
    <3>1. escrow'[c] >= escrow[c]
      BY <1>1, <2>2, MintStep
    <3>2. FreezeInv'
      BY <1>1, <2>2, MintStep
    <3>3. escrow[c] \in Nat /\ escrow'[c] \in Nat
      BY <1>1, <3>2 DEF FreezeInv, MachineTyped
    <3> QED BY <1>1, <3>1, <3>3
  <2>3. escrow[c] \in Nat
    BY <1>1 DEF FreezeInv, MachineTyped
  <2>4. ASSUME UNCHANGED escrow PROVE FALSE
    BY <1>1, <2>3, <2>4
  <2> QED BY <1>1, <2>1, <2>2, <2>4 DEF Next, Initialize, Update, UpdateAuthority,
             SetCollection, RemoveCollection, SetFreeze, RemoveFreeze, Thaw, ThawOther, TaxedMint,
             Withdraw, Tick, payVars
<1>2. FreezeInv /\ [Next]_vars =>
        [(\E c \in Currencies : escrow'[c] < escrow[c]) => Cardinality(Frozen) <= others_thawed]_vars
  BY <1>1
<1> QED BY <1>2, FreezeInvariant, PTL DEF Spec, EscrowHeldWhileFrozen
-----------------------------------------------------------------------------
(***************************************************************************)
(* The search for a line that is not minted.                               *)
(***************************************************************************)
LEMMA DivMod ==
  ASSUME NEW i \in Int, NEW b \in Int, b > 0
  PROVE  (i \div b) * b = i - (i % b) /\ i % b \in 0 .. b - 1
<1>1. i - b * (i \div b) = i % b
  BY SMTT(30)
<1>2. i % b \in 0 .. b - 1 /\ i \div b \in Int
  OBVIOUS
<1>3. (i \div b) * b = b * (i \div b)
  BY <1>2
<1>4. b * (i \div b) \in Int
  BY <1>2
<1> QED BY <1>1, <1>2, <1>3, <1>4

(* A full byte: the lines from its first to its last are minted.           *)
LEMMA FullByte ==
  ASSUME NEW i \in Nat, ByteFull(i)
  PROVE  \A j \in Int : i - (i % ByteSize) <= j /\ j < i + (ByteSize - (i % ByteSize)) => j \in taken
<1> DEFINE r == i % ByteSize
           p == (i \div ByteSize) * ByteSize
<1>1. ByteSize \in Int /\ ByteSize > 0
  BY CandyAssumption
<1>2. p = i - r /\ r \in 0 .. ByteSize - 1
  BY <1>1, DivMod
<1>3. \A k \in 0 .. ByteSize - 1 : p + k \in taken
  BY DEF ByteFull
<1> HIDE DEF r, p
<1>4. ASSUME NEW j \in Int, i - r <= j, j < i + (ByteSize - r) PROVE j \in taken
  <2>1. j - p \in 0 .. ByteSize - 1 /\ p + (j - p) = j
    BY <1>1, <1>2, <1>4
  <2> QED BY <1>3, <2>1
<1> QED BY <1>4 DEF r

(* What the two searches find, as functions of the place they start from.  *)
FreeAbove(n, i) == {j \in Int : i <= j /\ j < n /\ j \notin taken}
FreeBelow(i) == {j \in Int : 0 <= j /\ j <= i /\ j \notin taken}
FirstAbove(n, i) == IF FreeAbove(n, i) = {} THEN Nowhere ELSE Min(FreeAbove(n, i))
LastBelow(i) == IF FreeBelow(i) = {} THEN Nowhere ELSE Max(FreeBelow(i))

LEMMA MinIs ==
  ASSUME NEW S \in SUBSET Int, NEW x \in S, \A y \in S : x <= y
  PROVE  Min(S) = x
<1>1. Min(S) \in S /\ \A y \in S : Min(S) <= y
  BY DEF Min
<1> HIDE DEF Min
<1>2. Min(S) \in Int /\ x \in Int
  BY <1>1
<1> QED BY <1>1, <1>2

LEMMA MaxIs ==
  ASSUME NEW S \in SUBSET Int, NEW x \in S, \A y \in S : x >= y
  PROVE  Max(S) = x
<1>1. Max(S) \in S /\ \A y \in S : Max(S) >= y
  BY DEF Max
<1> HIDE DEF Max
<1>2. Max(S) \in Int /\ x \in Int
  BY <1>1
<1> QED BY <1>1, <1>2

(* One step of the search upwards, with the answers for later places in f.  *)
UpStep(n, f, i) ==
  IF i >= n THEN Nowhere
  ELSE IF ByteFull(i) THEN f[i + (ByteSize - (i % ByteSize))]
  ELSE IF i \in taken THEN f[i + 1]
  ELSE i
Ups(n, f) == f = [i \in 0 .. n + ByteSize |-> UpStep(n, f, i)]

DownStep(f, i) ==
  IF ByteFull(i)
  THEN IF i < ByteSize THEN Nowhere ELSE f[i - ((i % ByteSize) + 1)]
  ELSE IF i \in taken THEN (IF i = 0 THEN Nowhere ELSE f[i - 1])
  ELSE i
Downs(n, f) == f = [i \in 0 .. n |-> DownStep(f, i)]

LEMMA SearchUpIs ==
  ASSUME NEW n, NEW s
  PROVE  SearchUp(n, s) = (CHOOSE up : Ups(n, up))[s]
BY DEF SearchUp, Ups, UpStep

LEMMA SearchDownIs ==
  ASSUME NEW n, NEW s
  PROVE  SearchDown(n, s) = (CHOOSE down : Downs(n, down))[s]
BY DEF SearchDown, Downs, DownStep

(* Skipping minted lines does not change what is found.                    *)
LEMMA SkipUp ==
  ASSUME NEW n \in Nat, NEW i \in Nat, NEW k \in Int, i <= k,
         \A j \in Int : i <= j /\ j < k => j \in taken
  PROVE  FirstAbove(n, k) = FirstAbove(n, i)
<1>1. FreeAbove(n, k) = FreeAbove(n, i)
  BY DEF FreeAbove
<1> QED BY <1>1 DEF FirstAbove

LEMMA SkipDown ==
  ASSUME NEW i \in Nat, NEW k \in Int, k <= i,
         \A j \in Int : k < j /\ j <= i => j \in taken
  PROVE  LastBelow(k) = LastBelow(i)
<1>1. FreeBelow(k) = FreeBelow(i)
  BY DEF FreeBelow
<1> QED BY <1>1 DEF LastBelow

(* The step is right when the later answers are.                           *)
LEMMA UpStepRight ==
  ASSUME NEW n \in Nat, NEW f, NEW i \in 0 .. n + ByteSize,
         \A j \in 0 .. n + ByteSize : i < j => f[j] = FirstAbove(n, j)
  PROVE  UpStep(n, f, i) = FirstAbove(n, i)
<1>1. ByteSize \in Int /\ ByteSize > 0 /\ i \in Nat
  BY CandyAssumption
<1>2. i % ByteSize \in 0 .. ByteSize - 1
  BY <1>1, DivMod
<1>3. CASE i >= n
  <2>1. FreeAbove(n, i) = {}
    BY <1>1, <1>3 DEF FreeAbove
  <2> QED BY <1>3, <2>1 DEF UpStep, FirstAbove
<1>4. CASE i < n /\ ByteFull(i)
  <2> DEFINE k == i + (ByteSize - (i % ByteSize))
  <2>1. k \in 0 .. n + ByteSize /\ i < k /\ k \in Int
    BY <1>1, <1>2, <1>4
  <2>2. \A j \in Int : i <= j /\ j < k => j \in taken
    BY <1>1, <1>2, <1>4, FullByte
  <2>3. UpStep(n, f, i) = f[k]
    BY <1>1, <1>4 DEF UpStep
  <2> HIDE DEF k
  <2>4. FirstAbove(n, k) = FirstAbove(n, i)
    BY <1>1, <2>1, <2>2, SkipUp
  <2> QED BY <2>1, <2>3, <2>4
<1>5. CASE i < n /\ ~ByteFull(i) /\ i \in taken
  <2>1. i + 1 \in 0 .. n + ByteSize /\ i < i + 1 /\ i + 1 \in Int
    BY <1>1, <1>5
  <2>2. \A j \in Int : i <= j /\ j < i + 1 => j \in taken
    BY <1>1, <1>5
  <2>3. UpStep(n, f, i) = f[i + 1]
    BY <1>1, <1>5 DEF UpStep
  <2>4. FirstAbove(n, i + 1) = FirstAbove(n, i)
    BY <1>1, <2>1, <2>2, SkipUp
  <2> QED BY <2>1, <2>3, <2>4
<1>6. CASE i < n /\ ~ByteFull(i) /\ i \notin taken
  <2>1. i \in FreeAbove(n, i) /\ \A j \in FreeAbove(n, i) : i <= j
    BY <1>1, <1>6 DEF FreeAbove
  <2>2. FreeAbove(n, i) \in SUBSET Int
    BY DEF FreeAbove
  <2>3. FirstAbove(n, i) = i
    BY <2>1, <2>2, MinIs DEF FirstAbove
  <2> QED BY <1>1, <1>6, <2>3 DEF UpStep
<1> QED BY <1>1, <1>3, <1>4, <1>5, <1>6

LEMMA DownStepRight ==
  ASSUME NEW n \in Nat, NEW f, NEW i \in 0 .. n, \A j \in 0 .. n : j < i => f[j] = LastBelow(j)
  PROVE  DownStep(f, i) = LastBelow(i)
<1>1. ByteSize \in Int /\ ByteSize > 0 /\ i \in Nat
  BY CandyAssumption
<1>2. i % ByteSize \in 0 .. ByteSize - 1
  BY <1>1, DivMod
<1>3. CASE ByteFull(i)
  <2> DEFINE k == i - ((i % ByteSize) + 1)
  <2>1. \A j \in Int : k < j /\ j <= i => j \in taken
    BY <1>1, <1>2, <1>3, FullByte
  <2>2. CASE i < ByteSize
    <3>1. i % ByteSize = i
      <4>1. i \div ByteSize = 0
        BY <1>1, <2>2
      <4> QED BY <1>1, <4>1, DivMod
    <3>2. FreeBelow(i) = {}
      BY <1>1, <2>1, <3>1 DEF FreeBelow
    <3> QED BY <1>3, <2>2, <3>2 DEF DownStep, LastBelow
  <2>3. CASE i >= ByteSize
    <3>1. k \in 0 .. n /\ k < i /\ k \in Int
      BY <1>1, <1>2, <2>3
    <3>2. DownStep(f, i) = f[k]
      BY <1>1, <1>3, <2>3 DEF DownStep
    <3> HIDE DEF k
    <3>3. LastBelow(k) = LastBelow(i)
      BY <1>1, <2>1, <3>1, SkipDown
    <3> QED BY <3>1, <3>2, <3>3
  <2> QED BY <1>1, <2>2, <2>3
<1>4. CASE ~ByteFull(i) /\ i \in taken
  <2>1. CASE i = 0
    <3>1. FreeBelow(i) = {}
      BY <1>4, <2>1 DEF FreeBelow
    <3> QED BY <1>4, <2>1, <3>1 DEF DownStep, LastBelow
  <2>2. CASE i # 0
    <3>1. i - 1 \in 0 .. n /\ i - 1 < i /\ i - 1 \in Int
      BY <1>1, <2>2
    <3>2. \A j \in Int : i - 1 < j /\ j <= i => j \in taken
      BY <1>1, <1>4
    <3>3. DownStep(f, i) = f[i - 1]
      BY <1>4, <2>2 DEF DownStep
    <3>4. LastBelow(i - 1) = LastBelow(i)
      BY <1>1, <3>1, <3>2, SkipDown
    <3> QED BY <3>1, <3>3, <3>4
  <2> QED BY <2>1, <2>2
<1>5. CASE ~ByteFull(i) /\ i \notin taken
  <2>1. i \in FreeBelow(i) /\ \A j \in FreeBelow(i) : i >= j
    BY <1>1, <1>5 DEF FreeBelow
  <2>2. FreeBelow(i) \in SUBSET Int
    BY DEF FreeBelow
  <2>3. LastBelow(i) = i
    BY <2>1, <2>2, MaxIs DEF LastBelow
  <2> QED BY <1>5, <2>3 DEF DownStep
<1> QED BY <1>3, <1>4, <1>5

LEMMA UpFinds ==
  ASSUME NEW n \in Nat, NEW s \in 0 .. n + ByteSize
  PROVE  SearchUp(n, s) = FirstAbove(n, s)
<1> DEFINE D == 0 .. n + ByteSize
           f == [i \in D |-> FirstAbove(n, i)]
           g == CHOOSE up : Ups(n, up)
<1>1. ByteSize \in Nat
  BY CandyAssumption
<1>2. Ups(n, f)
  <2>1. ASSUME NEW i \in D PROVE UpStep(n, f, i) = FirstAbove(n, i)
    <3>1. \A j \in D : i < j => f[j] = FirstAbove(n, j)
      OBVIOUS
    <3> HIDE DEF f
    <3> QED BY <3>1, UpStepRight
  <2> QED BY <2>1 DEF Ups
<1>3. Ups(n, g)
  <2>1. \E up : Ups(n, up)
    BY <1>2
  <2> QED BY <2>1
<1> HIDE DEF f, g
<1> DEFINE Bad == {i \in D : g[i] # FirstAbove(n, i)}
           S == {k \in Nat : n + ByteSize - k \in Bad}
<1>4. Bad = {}
  <2> SUFFICES ASSUME Bad # {} PROVE FALSE
    OBVIOUS
  <2>1. PICK b \in D : b \in Bad
    OBVIOUS
  <2>2. n + ByteSize - b \in Nat /\ n + ByteSize - (n + ByteSize - b) = b
    BY <1>1
  <2>3. n + ByteSize - b \in S
    BY <2>1, <2>2
  <2>4. PICK k \in S : \A l \in S : k <= l
    BY <2>3, SmallestNat
  <2> DEFINE i == n + ByteSize - k
  <2>5. i \in Bad /\ i \in D
    BY <2>4
  <2>6. ASSUME NEW j \in D, i < j PROVE g[j] = FirstAbove(n, j)
    <3>1. n + ByteSize - j \in Nat /\ n + ByteSize - j < k /\ n + ByteSize - (n + ByteSize - j) = j
      BY <1>1, <2>4, <2>6
    <3>2. n + ByteSize - j \notin S
      BY <2>4, <3>1
    <3> QED BY <3>1, <3>2
  <2> HIDE DEF i
  <2>7. g[i] = UpStep(n, g, i)
    BY <1>3, <2>5 DEF Ups
  <2>8. UpStep(n, g, i) = FirstAbove(n, i)
    BY <2>5, <2>6, UpStepRight
  <2> QED BY <2>5, <2>7, <2>8
<1>5. g[s] = FirstAbove(n, s)
  BY <1>4
<1> QED BY <1>5, SearchUpIs DEF g

LEMMA DownFinds ==
  ASSUME NEW n \in Nat, NEW s \in 0 .. n
  PROVE  SearchDown(n, s) = LastBelow(s)
<1> DEFINE D == 0 .. n
           f == [i \in D |-> LastBelow(i)]
           g == CHOOSE down : Downs(n, down)
<1>1. Downs(n, f)
  <2>1. ASSUME NEW i \in D PROVE DownStep(f, i) = LastBelow(i)
    <3>1. \A j \in D : j < i => f[j] = LastBelow(j)
      OBVIOUS
    <3> HIDE DEF f
    <3> QED BY <3>1, DownStepRight
  <2> QED BY <2>1 DEF Downs
<1>2. Downs(n, g)
  <2>1. \E down : Downs(n, down)
    BY <1>1
  <2> QED BY <2>1
<1> HIDE DEF f, g
<1> DEFINE Bad == {i \in D : g[i] # LastBelow(i)}
<1>3. Bad = {}
  <2> SUFFICES ASSUME Bad # {} PROVE FALSE
    OBVIOUS
  <2>1. Bad \in SUBSET Nat
    OBVIOUS
  <2>2. PICK i \in Bad : \A j \in Bad : i <= j
    BY <2>1, SmallestNat
  <2>3. \A j \in D : j < i => g[j] = LastBelow(j)
    BY <2>2
  <2>4. g[i] = DownStep(g, i)
    BY <1>2, <2>2 DEF Downs
  <2>5. DownStep(g, i) = LastBelow(i)
    BY <2>2, <2>3, DownStepRight
  <2> QED BY <2>2, <2>4, <2>5
<1>4. g[s] = LastBelow(s)
  BY <1>3
<1> QED BY <1>4, SearchDownIs DEF g

LEMMA GreatestBelow ==
  ASSUME NEW S \in SUBSET Int, S # {}, NEW n \in Nat, \A j \in S : j <= n
  PROVE  \E x \in S : \A y \in S : x >= y
<1> DEFINE T == {k \in Nat : n - k \in S}
<1>1. PICK y \in S : TRUE
  OBVIOUS
<1>2. n - y \in T
  BY <1>1
<1>3. PICK k \in T : \A l \in T : k <= l
  BY <1>2, SmallestNat
<1>4. ASSUME NEW z \in S PROVE n - k >= z
  <2>1. n - z \in Nat /\ n - (n - z) = z
    BY <1>4
  <2>2. n - z \in T
    BY <1>4, <2>1
  <2>3. k <= n - z /\ k \in Nat
    BY <1>3, <2>2
  <2> QED BY <1>4, <2>3
<1>5. n - k \in S
  BY <1>3
<1> QED BY <1>4, <1>5

(* The lines that are there, with a settings record that allows a mint.     *)
LEMMA ItemsThere ==
  ASSUME MachineTyped, phase = "Open"
  PROVE  data.items_available \in Nat /\ data.hidden_settings \in BOOLEAN
         /\ Starts = 0 .. data.items_available - 1
<1>1. data \in CandyMachineData /\ data # None
  BY CandyAssumption DEF MachineTyped
<1>2. data.items_available \in Nat
  BY <1>1 DEF CandyMachineData
<1>3. data.hidden_settings \in BOOLEAN
  BY <1>1 DEF CandyMachineData
<1>4. Starts = 0 .. data.items_available - 1
  BY <1>1 DEF Starts
<1> QED BY <1>2, <1>3, <1>4

LEMMA FoundAbove ==
  ASSUME MachineTyped, phase = "Open", NEW start \in Starts,
         FreeAbove(data.items_available, start) # {}
  PROVE  /\ FoundLine(start) = Min(FreeAbove(data.items_available, start))
         /\ FoundLine(start) \in FreeAbove(data.items_available, start)
<1> DEFINE n == data.items_available
           above == FreeAbove(n, start)
<1>1. n \in Nat /\ start \in Nat /\ start \in 0 .. n + ByteSize
  BY ItemsThere, CandyAssumption
<1>2. SearchUp(n, start) = Min(above)
  BY <1>1, UpFinds DEF FirstAbove
<1>3. above \in SUBSET Nat
  BY <1>1 DEF FreeAbove
<1>4. PICK x \in above : \A y \in above : x <= y
  BY <1>3, SmallestNat
<1>5. above \in SUBSET Int
  BY <1>3
<1>6. Min(above) = x
  BY <1>4, <1>5, MinIs
<1>7. x # Nowhere
  BY <1>3, <1>4 DEF Nowhere
<1> QED BY <1>2, <1>4, <1>6, <1>7 DEF FoundLine

LEMMA FoundBelow ==
  ASSUME MachineTyped, phase = "Open", NEW start \in Starts,
         FreeAbove(data.items_available, start) = {}
  PROVE  FoundLine(start) = LastBelow(start)
<1> DEFINE n == data.items_available
<1>1. n \in Nat /\ start \in Nat /\ start \in 0 .. n + ByteSize /\ start \in 0 .. n
  BY ItemsThere, CandyAssumption
<1>2. SearchUp(n, start) = Nowhere
  BY <1>1, UpFinds DEF FirstAbove
<1>3. SearchDown(n, start) = LastBelow(start)
  BY <1>1, DownFinds
<1> QED BY <1>2, <1>3 DEF FoundLine

(* What is found has not been minted. *)
LEMMA FoundIsFree ==
  ASSUME MachineTyped, phase = "Open", NEW start \in Starts, FoundLine(start) # Nowhere
  PROVE  FoundLine(start) \in Nat /\ FoundLine(start) \notin taken
<1>1. start \in Nat
  BY ItemsThere
<1>2. CASE FreeAbove(data.items_available, start) # {}
  <2>1. FoundLine(start) \in FreeAbove(data.items_available, start)
    BY <1>2, FoundAbove
  <2> QED BY <1>1, <2>1 DEF FreeAbove
<1>3. CASE FreeAbove(data.items_available, start) = {}
  <2> DEFINE S == FreeBelow(start)
  <2>1. FoundLine(start) = LastBelow(start)
    BY <1>3, FoundBelow
  <2>2. S # {} /\ FoundLine(start) = Max(S)
    BY <2>1 DEF LastBelow
  <2>3. S \in SUBSET Int /\ \A j \in S : j <= start
    BY DEF FreeBelow
  <2>4. PICK x \in S : \A y \in S : x >= y
    BY <1>1, <2>2, <2>3, GreatestBelow
  <2>5. Max(S) = x
    BY <2>3, <2>4, MaxIs
  <2>6. x \in Nat /\ x \notin taken
    BY <2>4 DEF FreeBelow
  <2> QED BY <2>2, <2>5, <2>6
<1> QED BY <1>2, <1>3

-----------------------------------------------------------------------------
(* Lines and numbers.                                                      *)
Lines ==
  /\ nfts \in Seq(NFT)
  /\ taken \in SUBSET Nat /\ IsFiniteSet(taken) /\ Cardinality(taken) <= items_redeemed
  /\ \A i \in DOMAIN nfts : nfts[i].numbered => nfts[i].line = i - 1
  /\ \A i \in DOMAIN nfts : ~nfts[i].numbered => nfts[i].line \in taken
  /\ LineMintedOnce

LineInv == FreezeInv /\ Lines

LEMMA SameLines ==
  ASSUME Lines, UNCHANGED <<nfts, taken, items_redeemed>>
  PROVE  Lines'
BY DEF Lines, LineMintedOnce

LEMMA ThawLines ==
  ASSUME LineInv, NEW i \in DOMAIN nfts, Thaw(i)
  PROVE  Lines'
<1>1. nfts' = [nfts EXCEPT ![i].frozen = FALSE] /\ UNCHANGED <<taken, items_redeemed>>
  BY DEF Thaw
<1>2. nfts \in Seq(NFT) /\ DOMAIN nfts = 1 .. Len(nfts) /\ nfts[i] \in NFT
  BY DEF LineInv, Lines
<1> DEFINE thawed == [nfts[i] EXCEPT !.frozen = FALSE]
<1>3. thawed \in NFT /\ thawed.line = nfts[i].line /\ thawed.numbered = nfts[i].numbered
  BY <1>2 DEF NFT
<1>4. nfts' = [nfts EXCEPT ![i] = thawed]
  BY <1>1
<1> HIDE DEF thawed
<1>5. nfts' \in Seq(NFT) /\ DOMAIN nfts' = DOMAIN nfts
  BY <1>2, <1>3, <1>4
<1>6. \A j \in DOMAIN nfts : nfts'[j].line = nfts[j].line /\ nfts'[j].numbered = nfts[j].numbered
  BY <1>2, <1>3, <1>4
<1>7. LineMintedOnce'
  BY <1>5, <1>6 DEF LineInv, Lines, LineMintedOnce
<1> QED BY <1>1, <1>5, <1>6, <1>7 DEF LineInv, Lines

LEMMA MintLines ==
  ASSUME LineInv, NEW p \in Wallets, NEW tx \in Transaction, NEW start \in Starts,
         NEW frozen \in MintsFrozen, Mint(p, tx, start, frozen)
  PROVE  Lines'
<1> DEFINE hidden == data.hidden_settings
           line == IF hidden THEN items_redeemed ELSE FoundLine(start)
           nft == [line |-> line, numbered |-> hidden, frozen |-> frozen]
<1>1. /\ phase = "Open" /\ items_redeemed' = items_redeemed + 1 /\ nfts' = Append(nfts, nft)
      /\ taken' = IF hidden THEN taken ELSE taken \cup {line}
      /\ ~hidden => line # Nowhere
  BY DEF Mint, MarkedLine
<1>2. hidden \in BOOLEAN
  BY <1>1, ItemsThere DEF LineInv, FreezeInv
<1>3. nfts \in Seq(NFT) /\ items_redeemed = Len(nfts) /\ items_redeemed \in Nat
  BY DEF LineInv, Lines, FreezeInv, Sold
<1>4. ~hidden => line \in Nat /\ line \notin taken
  BY <1>1, FoundIsFree DEF LineInv, FreezeInv
<1>5. line \in Nat
  BY <1>3, <1>4
<1>6. hidden => line = Len(nfts)
  BY <1>3
<1>7. frozen \in BOOLEAN
  BY DEF MintsFrozen
<1> HIDE DEF line
<1>8. nft \in NFT /\ nft.line = line /\ nft.numbered = hidden
  BY <1>2, <1>5, <1>7 DEF NFT
<1> HIDE DEF nft, hidden
<1>9. /\ nfts' \in Seq(NFT) /\ DOMAIN nfts = 1 .. Len(nfts) /\ DOMAIN nfts' = 1 .. Len(nfts) + 1
      /\ \A j \in DOMAIN nfts : nfts'[j] = nfts[j]
      /\ nfts'[Len(nfts) + 1] = nft
  BY <1>1, <1>3, <1>8
<1> DEFINE new == Len(nfts) + 1
<1>10. DOMAIN nfts' = DOMAIN nfts \cup {new} /\ new \notin DOMAIN nfts /\ new - 1 = Len(nfts)
  BY <1>3, <1>9
<1>11. taken' \in SUBSET Nat /\ IsFiniteSet(taken') /\ Cardinality(taken') <= items_redeemed'
  <2>1. taken \in SUBSET Nat /\ IsFiniteSet(taken) /\ Cardinality(taken) <= items_redeemed
    BY DEF LineInv, Lines
  <2>2. Cardinality(taken) \in Nat
    BY <2>1, FS_CardinalityType
  <2>3. CASE hidden
    BY <1>1, <1>3, <2>1, <2>2, <2>3
  <2>4. CASE ~hidden
    <3>1. taken' = taken \cup {line} /\ line \notin taken
      BY <1>1, <1>4, <2>4
    <3>2. IsFiniteSet(taken') /\ Cardinality(taken') = Cardinality(taken) + 1
      BY <2>1, <3>1, FS_AddElement
    <3> QED BY <1>1, <1>3, <1>5, <2>1, <2>2, <3>1, <3>2
  <2> QED BY <2>3, <2>4
<1> HIDE DEF new
<1>12. taken \subseteq taken'
  BY <1>1
<1>13. \A i \in DOMAIN nfts' : nfts'[i].numbered => nfts'[i].line = i - 1
  BY <1>6, <1>8, <1>9, <1>10 DEF LineInv, Lines, new
<1>14. \A i \in DOMAIN nfts' : ~nfts'[i].numbered => nfts'[i].line \in taken'
  <2>1. ~hidden => line \in taken'
    BY <1>1
  <2> QED BY <1>8, <1>9, <1>10, <1>12, <2>1 DEF LineInv, Lines, new
<1>15. ASSUME NEW i \in DOMAIN nfts, nfts[i].numbered = hidden PROVE nfts[i].line # line
  <2>1. CASE hidden
    <3>1. nfts[i].numbered => nfts[i].line = i - 1
      BY DEF LineInv, Lines
    <3>2. nfts[i].line = i - 1
      BY <1>15, <2>1, <3>1
    <3>3. i \in 1 .. Len(nfts) /\ line = Len(nfts)
      BY <1>6, <1>9, <2>1
    <3> QED BY <1>3, <3>2, <3>3
  <2>2. CASE ~hidden
    BY <1>4, <1>15, <2>2 DEF LineInv, Lines
  <2> QED BY <2>1, <2>2
<1>16. LineMintedOnce'
  <2> SUFFICES ASSUME NEW i \in DOMAIN nfts', NEW j \in DOMAIN nfts',
                      nfts'[i].line = nfts'[j].line, nfts'[i].numbered = nfts'[j].numbered
               PROVE  i = j
    BY DEF LineMintedOnce
  <2>1. CASE i = new /\ j = new
    BY <2>1
  <2>2. CASE i = new /\ j \in DOMAIN nfts
    BY <1>8, <1>9, <1>15, <2>2 DEF new
  <2>3. CASE j = new /\ i \in DOMAIN nfts
    BY <1>8, <1>9, <1>15, <2>3 DEF new
  <2>4. CASE i \in DOMAIN nfts /\ j \in DOMAIN nfts
    BY <1>9, <2>4 DEF LineInv, Lines, LineMintedOnce
  <2> QED BY <1>10, <2>1, <2>2, <2>3, <2>4
<1> QED BY <1>9, <1>11, <1>13, <1>14, <1>16 DEF Lines

LEMMA LineStep == LineInv /\ [Next]_vars => LineInv'
<1> SUFFICES ASSUME LineInv, [Next]_vars PROVE Lines'
  BY FreezeStep DEF LineInv
<1>1. ASSUME NEW i \in DOMAIN nfts, Thaw(i) PROVE Lines'
  BY <1>1, ThawLines
<1>2. ASSUME NEW p \in Wallets, NEW tx \in Transaction, NEW start \in Starts,
             NEW frozen \in MintsFrozen, Mint(p, tx, start, frozen)
      PROVE  Lines'
  BY <1>2, MintLines
<1>3. CASE UNCHANGED <<nfts, taken, items_redeemed>>
  BY <1>3, SameLines DEF LineInv
<1>4. CASE \/ \E s \in Authorities, d \in DataChoices, c \in Currencies, room \in BOOLEAN :
                Initialize(s, d, c, room)
           \/ \E d \in DataChoices, c \in Currencies : Update(d, c)
           \/ \E new \in Authorities : UpdateAuthority(new)
           \/ SetCollection \/ RemoveCollection
           \/ \E t \in FreezeTimes : SetFreeze(t)
           \/ RemoveFreeze \/ UnlockFunds \/ ThawOther
           \/ \E p \in Wallets, tx \in Transaction : TaxedMint(p, tx)
           \/ Withdraw \/ Tick
  <2>1. UNCHANGED <<nfts, taken, items_redeemed>>
    BY <1>4 DEF Initialize, Update, UpdateAuthority, SetCollection, RemoveCollection, SetFreeze,
                RemoveFreeze, UnlockFunds, ThawOther, TaxedMint, Withdraw, Tick
  <2> QED BY <1>3, <2>1
<1>5. CASE UNCHANGED vars
  BY <1>3, <1>5 DEF vars
<1> QED BY <1>1, <1>2, <1>4, <1>5 DEF Next

LEMMA InitLines == Init => LineInv
<1> SUFFICES ASSUME Init PROVE Lines
  BY InitFreeze DEF LineInv
<1>1. nfts = << >> /\ taken = {} /\ items_redeemed = 0
  BY DEF Init
<1>2. nfts \in Seq(NFT) /\ DOMAIN nfts = {}
  BY <1>1
<1>3. IsFiniteSet(taken) /\ Cardinality(taken) = 0
  BY <1>1, FS_EmptySet
<1> QED BY <1>1, <1>2, <1>3 DEF Lines, LineMintedOnce

LEMMA LinesInvariant == Spec => []LineInv
BY InitLines, LineStep, PTL DEF Spec

(* No config line and no number of a hidden machine is minted twice, from    *)
(* wherever the searches start, however full the mask is, and whatever the  *)
(* settings become.                                                        *)
THEOREM LinesAreMintedOnce == Spec => []LineMintedOnce
<1>1. LineInv => LineMintedOnce
  BY DEF LineInv, Lines
<1> QED BY <1>1, LinesInvariant, PTL

(* A machine that is not sold out has a line left.                         *)
LEMMA LineLeft ==
  ASSUME LineInv, phase = "Open", items_redeemed < data.items_available
  PROVE  FreeLines # {}
<1> DEFINE n == data.items_available
<1>1. n \in Nat
  BY ItemsThere DEF LineInv, FreezeInv
<1>2. IsFiniteSet(taken) /\ Cardinality(taken) <= items_redeemed
  BY DEF LineInv, Lines
<1>3. IsFiniteSet(0 .. n - 1) /\ Cardinality(0 .. n - 1) = n
  <2> DEFINE last == n - 1
  <2>1. last \in Int /\ IF 0 > last THEN 0 = n ELSE last - 0 + 1 = n
    BY <1>1
  <2> HIDE DEF last
  <2>2. IsFiniteSet(0 .. last) /\ Cardinality(0 .. last) = IF 0 > last THEN 0 ELSE last - 0 + 1
    BY <2>1, FS_Interval
  <2> QED BY <2>1, <2>2 DEF last
<1>4. items_redeemed \in Nat
  BY DEF LineInv, Lines, FreezeInv, Sold
<1>5. CASE FreeLines = {}
  <2>1. 0 .. n - 1 \subseteq taken
    BY <1>5 DEF FreeLines
  <2>2. n <= Cardinality(taken) /\ Cardinality(taken) \in Nat
    BY <1>2, <1>3, <2>1, FS_Subset, FS_CardinalityType
  <2> QED BY <1>1, <1>2, <1>4, <2>2
<1> QED BY <1>5

(* While there are lines left the search finds one, the next above or else   *)
(* the next below: the bytes it skips hide nothing.                        *)
THEOREM NoLineIsMissed == Spec => []SearchFindsNearest
<1>1. LineInv => SearchFindsNearest
  <2> SUFFICES ASSUME LineInv, phase = "Open", items_redeemed < data.items_available, NEW start \in Starts
               PROVE  LET above == {i \in FreeLines : i >= start}
                      IN  FoundLine(start) = IF above # {} THEN Min(above) ELSE Max(FreeLines)
    BY DEF SearchFindsNearest
  <2> DEFINE n == data.items_available
             above == {i \in FreeLines : i >= start}
  <2>1. n \in Nat /\ start \in Nat /\ start < n /\ MachineTyped
    BY ItemsThere DEF LineInv, FreezeInv
  <2>2. FreeAbove(n, start) = above
    BY <2>1 DEF FreeAbove, FreeLines
  <2>3. CASE above # {}
    BY <2>2, <2>3, <2>1, FoundAbove
  <2>4. CASE above = {}
    <3>1. FreeBelow(start) = FreeLines
      BY <2>1, <2>4 DEF FreeBelow, FreeLines
    <3>2. FoundLine(start) = LastBelow(start)
      BY <2>1, <2>2, <2>4, FoundBelow
    <3> QED BY <2>4, <3>1, <3>2, LineLeft DEF LastBelow
  <2> QED BY <2>3, <2>4
<1> QED BY <1>1, LinesInvariant, PTL

-----------------------------------------------------------------------------
(* TokenEntangler: the supply of a mint is what all places hold of it, so   *)
(* that a place that holds all of it is the only one; a swap puts the whole *)
(* of one mint of a pair in before it takes the whole of the other out.     *)

(* Pairs, balances and supplies keep their form. *)
EntanglerTyped ==
  /\ DOMAIN pairs = E!Pairs
  /\ balance \in [Entanglable -> [E!Places -> Nat]]
  /\ e_supply \in [Entanglable -> Nat]

(* The supply of a mint is what all places hold of it together.             *)
Ledger == \A m \in Entanglable : SumFunction(balance[m]) = e_supply[m]

(* A mint is not entangled with itself.                                     *)
Apart == \A p \in E!Pairs : pairs[p] # NoAccount => p[1] # p[2]

EntanglerInv == EntanglerTyped /\ Ledger /\ Apart /\ NeverBothOut

LEMMA EntanglerPlaces ==
  /\ IsFiniteSet(E!Places) /\ Claimants \cap E!Pairs = {}
  /\ Claimants \subseteq E!Places /\ E!Pairs \subseteq E!Places
  /\ \A p \in E!Pairs : p[1] \in Entanglable /\ p[2] \in Entanglable /\ p = <<p[1], p[2]>>
<1>1. IsFiniteSet(Claimants) /\ IsFiniteSet(Entanglable) /\ Claimants \cap E!Pairs = {}
  BY EntanglerAssumption DEF E!EntanglerAssumption
<1>2. IsFiniteSet(E!Pairs)
  BY <1>1, FS_Product DEF E!Pairs
<1>3. IsFiniteSet(E!Places)
  BY <1>1, <1>2, FS_Union DEF E!Places
<1> QED BY <1>1, <1>3 DEF E!Places, E!Pairs

(* What a move of tokens does, and that it makes and loses none. *)
LEMMA MoveOfTokens ==
  ASSUME NEW b \in [Entanglable -> [E!Places -> Nat]], NEW m \in Entanglable,
         NEW from \in E!Places, NEW to \in E!Places, from # to, NEW n \in Nat, n <= b[m][from],
         NEW c, c = E!Moved(b, m, from, to, n)
  PROVE  /\ c \in [Entanglable -> [E!Places -> Nat]]
         /\ \A k \in Entanglable \ {m} : c[k] = b[k]
         /\ c[m][from] = b[m][from] - n /\ c[m][to] = b[m][to] + n
         /\ \A x \in E!Places \ {from, to} : c[m][x] = b[m][x]
         /\ SumFunction(c[m]) = SumFunction(b[m])
<1> DEFINE f == b[m]
           g == [f EXCEPT ![from] = f[from] - n, ![to] = f[to] + n]
<1>1. c = [b EXCEPT ![m] = g]
  BY DEF E!Moved
<1>2. f \in [E!Places -> Nat] /\ n <= f[from]
  OBVIOUS
<1>0. IsFiniteSet(E!Places)
  BY EntanglerPlaces
<1> HIDE DEF f
<1>3. /\ g \in [E!Places -> Nat] /\ g[from] = f[from] - n /\ g[to] = f[to] + n
      /\ \A x \in E!Places \ {from, to} : g[x] = f[x]
  BY <1>2
<1>4. SumFunction(g) = SumFunction(f)
  <2> HIDE DEF g
  <2> QED BY <1>0, <1>2, <1>3, SumMoved, SMTT(30)
<1> HIDE DEF g
<1>5. c[m] = g /\ c \in [Entanglable -> [E!Places -> Nat]] /\ \A k \in Entanglable \ {m} : c[k] = b[k]
  BY <1>1, <1>3
<1> QED BY <1>3, <1>4, <1>5 DEF f

(* Where all there is of a mint lies, nothing of it lies elsewhere. *)
LEMMA OnePlace ==
  ASSUME EntanglerTyped, Ledger, NEW k \in Entanglable,
         NEW x \in E!Places, NEW y \in E!Places, x # y, balance[k][x] >= e_supply[k]
  PROVE  balance[k][x] = e_supply[k] /\ balance[k][y] = 0
<1> DEFINE f == balance[k]
<1>1. f \in [E!Places -> Nat] /\ SumFunction(f) = e_supply[k] /\ e_supply[k] \in Nat
  BY DEF EntanglerTyped, Ledger
<1> HIDE DEF f
<1>2. f[x] + f[y] <= e_supply[k]
  BY <1>1, EntanglerPlaces, SumOfTwo
<1>3. f[x] \in Nat /\ f[y] \in Nat /\ f[x] >= e_supply[k]
  BY <1>1 DEF f
<1>4. f[x] = e_supply[k] /\ f[y] = 0
  BY <1>1, <1>2, <1>3
<1> QED BY <1>4 DEF f

LEMMA EntanglerInvInit == E!Init => EntanglerInv
<1> SUFFICES ASSUME E!Init PROVE EntanglerInv
  OBVIOUS
<1> USE DEF E!Init
<1>0. Units \in [Entanglable -> Nat]
  BY EntanglerAssumption DEF E!EntanglerAssumption
<1>1. EntanglerTyped
  BY <1>0 DEF EntanglerTyped
<1>2. Ledger
  <2> SUFFICES ASSUME NEW m \in Entanglable PROVE SumFunction(balance[m]) = e_supply[m]
    BY DEF Ledger
  <2> DEFINE o == FirstOwner[m]
             u == Units[m]
             zero == [x \in E!Places |-> 0]
  <2>1. o \in E!Places /\ u \in Nat /\ e_supply[m] = u
    BY <1>0, EntanglerAssumption, EntanglerPlaces DEF E!EntanglerAssumption
  <2>2. balance[m] = [zero EXCEPT ![o] = u]
    BY <2>1
  <2>3. SumFunction(zero) = 0
    <3>1. \A x \in E!Places : zero[x] \in Int /\ zero[x] \in Int /\ 1 * zero[x] <= 0 * zero[x]
      OBVIOUS
    <3>2. DOMAIN zero = E!Places /\ \A x \in E!Places : zero[x] \in Nat
      OBVIOUS
    <3> HIDE DEF zero
    <3>3. 1 * SumFunctionOnSet(zero, E!Places) <= 0 * SumFunctionOnSet(zero, E!Places)
      BY <3>1, EntanglerPlaces, SumScaled
    <3>4. SumFunctionOnSet(zero, E!Places) \in Nat
      BY <3>2, EntanglerPlaces, SumNat
    <3> QED BY <3>2, <3>3, <3>4 DEF SumFunction
  <2>4. zero \in [E!Places -> Int] /\ zero[o] = 0
    BY <2>1
  <2> HIDE DEF zero, o, u
  <2>5. SumFunction([zero EXCEPT ![o] = u]) = SumFunction(zero) - zero[o] + u
    <3>1. IsFiniteSet(E!Places) /\ u \in Int
      BY <2>1, EntanglerPlaces
    <3> QED BY <2>1, <2>4, <3>1, SumUpdate
  <2>6. SumFunction(balance[m]) = u
    BY <2>1, <2>2, <2>3, <2>4, <2>5
  <2> QED BY <2>1, <2>6
<1>3. Apart /\ NeverBothOut
  BY DEF Apart, NeverBothOut, E!NeverBothOut
<1> QED BY <1>1, <1>2, <1>3 DEF EntanglerInv

(* Changing one balance of a mint changes its total as much. *)
WithBalance(b, m, w, n) == [b EXCEPT ![m][w] = n]

LEMMA BalanceSet ==
  ASSUME NEW b \in [Entanglable -> [E!Places -> Nat]], NEW m \in Entanglable,
         NEW w \in E!Places, NEW n \in Nat,
         NEW c, c = WithBalance(b, m, w, n),
         NEW t \in Nat, t = SumFunction(b[m]), NEW d \in Int, n = b[m][w] + d
  PROVE  /\ c \in [Entanglable -> [E!Places -> Nat]]
         /\ \A k \in Entanglable \ {m} : c[k] = b[k]
         /\ SumFunction(c[m]) = t + d
<1> DEFINE f == b[m]
           g == [f EXCEPT ![w] = n]
<1>1. c = [b EXCEPT ![m] = g]
  BY DEF WithBalance
<1>2. f \in [E!Places -> Nat] /\ f \in [E!Places -> Int] /\ IsFiniteSet(E!Places) /\ n \in Int
  BY EntanglerPlaces
<1> HIDE DEF f
<1>3. g \in [E!Places -> Nat]
  BY <1>2
<1>4. SumFunction(g) = SumFunction(f) - f[w] + n
  BY <1>2, SumUpdate
<1> HIDE DEF g
<1>5. c[m] = g /\ c \in [Entanglable -> [E!Places -> Nat]] /\ \A k \in Entanglable \ {m} : c[k] = b[k]
  BY <1>1, <1>3
<1>6. SumFunction(g) = t + d
  BY <1>2, <1>4 DEF f
<1> QED BY <1>5, <1>6

(* What a pair keeps in escrow stays there in a step that makes no pair. *)
LEMMA StaysInEscrow ==
  ASSUME EntanglerInv, NEW q \in E!Pairs, pairs[q] # NoAccount,
         e_supply[q[1]] > 0, e_supply[q[2]] > 0, {q[1], q[2]} \cap Reprintable = {},
         \A k \in {q[1], q[2]} : balance[k][q] = e_supply[k] => balance'[k][q] = e_supply'[k]
  PROVE  \E k \in {q[1], q[2]} : balance'[k][q] = e_supply'[k]
BY DEF EntanglerInv, NeverBothOut, E!NeverBothOut

(* The new pair gets the second token; no other pair had it. *)
LEMMA CreatePreserves ==
  ASSUME EntanglerInv, NEW w \in Claimants, NEW a \in Entanglable, NEW b \in Entanglable,
         NEW price, NEW every, NEW updater,
         E!CreateEntangledPair(w, a, b, price, every, updater)
  PROVE  EntanglerInv'
<1> DEFINE p == <<a, b>>
<1>1. /\ p \in E!Pairs /\ a # b /\ p[1] = a /\ p[2] = b
      /\ balance[b][w] >= e_supply[b] /\ e_supply' = e_supply
  BY DEF E!CreateEntangledPair, E!Pairs
<1>2. w \in E!Places /\ p \in E!Places /\ w # p
  BY <1>1, EntanglerPlaces
<1>3. balance' = E!Moved(balance, b, w, p, e_supply[b])
  BY <1>1 DEF E!CreateEntangledPair
<1>4. DOMAIN pairs' = E!Pairs /\ \A q \in E!Pairs \ {p} : pairs'[q] = pairs[q]
  BY DEF E!CreateEntangledPair, EntanglerInv, EntanglerTyped
<1> HIDE DEF p
<1>5. balance \in [Entanglable -> [E!Places -> Nat]] /\ e_supply \in [Entanglable -> Nat]
  BY DEF EntanglerInv, EntanglerTyped
<1>6. /\ balance' \in [Entanglable -> [E!Places -> Nat]]
      /\ \A k \in Entanglable \ {b} : balance'[k] = balance[k]
      /\ balance'[b][p] = balance[b][p] + e_supply[b]
      /\ SumFunction(balance'[b]) = SumFunction(balance[b])
  <2>1. e_supply[b] \in Nat /\ e_supply[b] <= balance[b][w]
    BY <1>1, <1>2, <1>5
  <2> QED BY <1>2, <1>3, <1>5, <2>1, MoveOfTokens
<1>7. EntanglerTyped' /\ Ledger' /\ Apart'
  <2>1. Apart'
    BY <1>1, <1>4 DEF EntanglerInv, Apart
  <2>2. Ledger'
    BY <1>1, <1>6 DEF EntanglerInv, Ledger
  <2> QED BY <1>1, <1>4, <1>6, <2>1, <2>2 DEF EntanglerInv, EntanglerTyped
<1>8. \A q \in E!Pairs : balance[b][q] = 0
  BY <1>1, <1>2, EntanglerPlaces, OnePlace DEF EntanglerInv
<1>9. ASSUME NEW q \in E!Pairs, pairs'[q] # NoAccount, e_supply[q[1]] > 0, e_supply[q[2]] > 0,
             {q[1], q[2]} \cap Reprintable = {}
      PROVE  \E k \in {q[1], q[2]} : balance'[k][q] = e_supply'[k]
  <2>1. CASE q = p
    BY <1>1, <1>5, <1>6, <1>8, <2>1
  <2>2. CASE q # p
    <3>1. pairs[q] # NoAccount
      BY <1>4, <1>9, <2>2
    <3>2. \A k \in {q[1], q[2]} : balance[k][q] = e_supply[k] => balance'[k][q] = e_supply'[k]
      BY <1>1, <1>6, <1>8, <1>9, EntanglerPlaces
    <3> QED BY <1>9, <3>1, <3>2, StaysInEscrow
  <2> QED BY <2>1, <2>2
<1> QED BY <1>1, <1>7, <1>9 DEF EntanglerInv, NeverBothOut, E!NeverBothOut

(* The mint that comes in was nowhere else, the one that goes out was only  *)
(* here.                                                                    *)
LEMMA SwapPreserves ==
  ASSUME EntanglerInv, NEW w \in Claimants, NEW p \in E!Pairs, NEW m \in Entanglable,
         E!Swap(w, p, m)
  PROVE  EntanglerInv'
<1> DEFINE r == E!Other(p, m)
           c == E!Moved(balance, m, w, p, e_supply[m])
<1>1. /\ r \in Entanglable /\ r # m /\ {p[1], p[2]} = {m, r} /\ pairs[p] # NoAccount
      /\ balance[m][w] = e_supply[m] /\ balance[r][p] >= e_supply[r]
      /\ balance' = E!Moved(c, r, p, w, e_supply[r]) /\ e_supply' = e_supply
  BY EntanglerPlaces DEF E!Swap, E!Other, EntanglerInv, Apart
<1>2. w \in E!Places /\ p \in E!Places /\ w # p
  BY EntanglerPlaces
<1>3. DOMAIN pairs' = E!Pairs /\ \A q \in E!Pairs \ {p} : pairs'[q] = pairs[q]
  BY DEF E!Swap, EntanglerInv, EntanglerTyped
<1>4. /\ balance \in [Entanglable -> [E!Places -> Nat]]
      /\ e_supply[m] \in Nat /\ e_supply[r] \in Nat
      /\ balance[m][w] \in Nat /\ balance[r][p] \in Nat
  BY <1>1, <1>2 DEF EntanglerInv, EntanglerTyped
<1>5. e_supply[m] <= balance[m][w]
  BY <1>1, <1>4
<1> HIDE DEF r, c
<1>6. /\ c \in [Entanglable -> [E!Places -> Nat]]
      /\ \A k \in Entanglable \ {m} : c[k] = balance[k]
      /\ c[m][p] = balance[m][p] + e_supply[m]
      /\ SumFunction(c[m]) = SumFunction(balance[m])
  BY <1>2, <1>4, <1>5, MoveOfTokens DEF c
<1>7. e_supply[r] <= c[r][p]
  BY <1>1, <1>6
<1>8. /\ balance' \in [Entanglable -> [E!Places -> Nat]]
      /\ \A k \in Entanglable \ {r} : balance'[k] = c[k]
      /\ SumFunction(balance'[r]) = SumFunction(c[r])
  BY <1>1, <1>2, <1>4, <1>6, <1>7, MoveOfTokens
<1>9. EntanglerTyped' /\ Ledger' /\ Apart'
  <2>1. Apart'
    BY <1>1, <1>3 DEF EntanglerInv, Apart
  <2>2. Ledger'
    BY <1>1, <1>6, <1>8 DEF EntanglerInv, Ledger
  <2> QED BY <1>1, <1>3, <1>8, <2>1, <2>2 DEF EntanglerInv, EntanglerTyped
<1>10. ASSUME NEW q \in E!Pairs, pairs'[q] # NoAccount, e_supply[q[1]] > 0, e_supply[q[2]] > 0,
              {q[1], q[2]} \cap Reprintable = {}
       PROVE  \E k \in {q[1], q[2]} : balance'[k][q] = e_supply'[k]
  <2>1. CASE q = p
    <3>1. balance'[m][p] = c[m][p]
      BY <1>1, <1>8
    <3>2. balance[m][p] = 0
      BY <1>1, <1>2, <1>4, OnePlace DEF EntanglerInv
    <3>3. balance'[m][p] = e_supply'[m]
      BY <1>1, <1>4, <1>6, <3>1, <3>2
    <3> QED BY <1>1, <2>1, <3>3
  <2>2. CASE q # p
    <3>1. pairs[q] # NoAccount
      BY <1>3, <1>10, <2>2
    <3>2. q \in E!Places /\ q # w /\ q[1] \in Entanglable /\ q[2] \in Entanglable
      BY EntanglerPlaces
    <3>3. ASSUME NEW k \in {q[1], q[2]}, balance[k][q] = e_supply[k] PROVE balance'[k][q] = e_supply'[k]
      <4>1. e_supply[k] > 0 /\ k \in Entanglable /\ balance[k][q] > 0
        BY <1>10, <3>2, <3>3
      <4>2. k # m
        <5>1. CASE k = m
          BY <1>1, <1>2, <1>4, <3>2, <4>1, <5>1, OnePlace DEF EntanglerInv
        <5> QED BY <5>1
      <4>3. k # r
        <5>1. CASE k = r
          BY <1>1, <1>2, <2>2, <3>2, <4>1, <5>1, OnePlace DEF EntanglerInv
        <5> QED BY <5>1
      <4> QED BY <1>1, <1>6, <1>8, <3>3, <4>1, <4>2, <4>3
    <3> QED BY <1>10, <3>1, <3>3, StaysInEscrow
  <2> QED BY <2>1, <2>2
<1> QED BY <1>1, <1>9, <1>10 DEF EntanglerInv, NeverBothOut, E!NeverBothOut

(* What the holders do with their tokens: of a mint that is whole in escrow *)
(* they have nothing.                                                       *)
LEMMA TokensPreserve ==
  ASSUME EntanglerInv, NEW w \in Claimants, E!Tokens(w)
  PROVE  EntanglerInv'
<1>1. PICK m \in Entanglable : \/ E!BurnToken(w, m) \/ E!MintToken(w, m)
                              \/ \E to \in E!Places : E!Transfer(w, m, to)
  BY DEF E!Tokens
<1>2. w \in E!Places /\ w \notin E!Pairs
  BY EntanglerPlaces
<1>3. /\ balance \in [Entanglable -> [E!Places -> Nat]] /\ e_supply \in [Entanglable -> Nat]
      /\ balance[m][w] \in Nat /\ e_supply[m] \in Nat /\ SumFunction(balance[m]) = e_supply[m]
  BY <1>2 DEF EntanglerInv, EntanglerTyped, Ledger
<1>4. ASSUME NEW d \in {-1, 1}, balance[m][w] + d \in Nat, e_supply[m] + d \in Nat,
             balance' = [balance EXCEPT ![m][w] = balance[m][w] + d],
             e_supply' = [e_supply EXCEPT ![m] = e_supply[m] + d],
             d = 1 => m \in Reprintable, pairs' = pairs
      PROVE  EntanglerInv'
  <2>1. PICK n \in Nat : n = balance[m][w] + d
    BY <1>4
  <2>2. balance' = WithBalance(balance, m, w, n)
    BY <1>4, <2>1 DEF WithBalance
  <2>3. /\ balance' \in [Entanglable -> [E!Places -> Nat]]
        /\ \A k \in Entanglable \ {m} : balance'[k] = balance[k]
        /\ SumFunction(balance'[m]) = e_supply[m] + d
    <3>1. d \in Int
      OBVIOUS
    <3>2. /\ w \in E!Places /\ balance \in [Entanglable -> [E!Places -> Nat]]
          /\ e_supply[m] \in Nat /\ e_supply[m] = SumFunction(balance[m])
      BY <1>2, <1>3
    <3>3. [balance[m] EXCEPT ![w] = n] \in [E!Places -> Nat]
      BY <2>1, <3>2
    <3>4. /\ balance' \in [Entanglable -> [E!Places -> Nat]]
          /\ \A k \in Entanglable \ {m} : balance'[k] = balance[k]
      BY <2>2, <3>2, <3>3 DEF WithBalance
    <3>5. SumFunction(balance'[m]) = e_supply[m] + d
      BY <2>1, <2>2, <3>1, <3>2, BalanceSet
    <3> QED BY <3>4, <3>5
  <2>5. /\ e_supply' \in [Entanglable -> Nat] /\ e_supply'[m] = e_supply[m] + d
        /\ \A k \in Entanglable \ {m} : e_supply'[k] = e_supply[k]
    BY <1>3, <1>4
  <2>6. EntanglerTyped' /\ Ledger' /\ Apart'
    <3>1. Ledger'
      BY <2>3, <2>5 DEF EntanglerInv, Ledger
    <3> QED BY <1>4, <2>3, <2>5, <3>1 DEF EntanglerInv, EntanglerTyped, Apart
  <2>7. ASSUME NEW q \in E!Pairs, pairs'[q] # NoAccount, e_supply'[q[1]] > 0, e_supply'[q[2]] > 0,
               {q[1], q[2]} \cap Reprintable = {}
        PROVE  \E k \in {q[1], q[2]} : balance'[k][q] = e_supply'[k]
    <3>1. q \in E!Places /\ q # w /\ q[1] \in Entanglable /\ q[2] \in Entanglable
      BY <1>2, EntanglerPlaces
    <3>2. ASSUME m \in {q[1], q[2]} PROVE d = -1 /\ balance[m][w] > 0
      BY <1>3, <1>4, <2>7, <3>2
    <3>3. e_supply[q[1]] > 0 /\ e_supply[q[2]] > 0
      BY <1>3, <2>5, <2>7, <3>1, <3>2
    <3>4. ASSUME NEW k \in {q[1], q[2]}, balance[k][q] = e_supply[k] PROVE balance'[k][q] = e_supply'[k]
      <4>1. CASE k = m
        BY <1>2, <1>3, <3>1, <3>2, <3>4, <4>1, OnePlace DEF EntanglerInv
      <4>2. CASE k # m
        BY <2>3, <2>5, <3>1, <3>4, <4>2
      <4> QED BY <4>1, <4>2
    <3> QED BY <1>4, <2>7, <3>3, <3>4, StaysInEscrow
  <2> QED BY <2>6, <2>7 DEF EntanglerInv, NeverBothOut, E!NeverBothOut
<1>5. ASSUME NEW to \in E!Places, E!Transfer(w, m, to) PROVE EntanglerInv'
  <2>1. /\ to # w /\ 1 <= balance[m][w] /\ balance' = E!Moved(balance, m, w, to, 1)
        /\ pairs' = pairs /\ e_supply' = e_supply
    BY <1>3, <1>5 DEF E!Transfer
  <2>2. /\ balance' \in [Entanglable -> [E!Places -> Nat]]
        /\ \A k \in Entanglable \ {m} : balance'[k] = balance[k]
        /\ SumFunction(balance'[m]) = SumFunction(balance[m])
    BY <1>2, <1>3, <2>1, MoveOfTokens
  <2>3. EntanglerTyped' /\ Ledger' /\ Apart'
    <3>1. Ledger'
      BY <2>1, <2>2 DEF EntanglerInv, Ledger
    <3> QED BY <2>1, <2>2, <3>1 DEF EntanglerInv, EntanglerTyped, Apart
  <2>4. ASSUME NEW q \in E!Pairs, pairs[q] # NoAccount, e_supply[q[1]] > 0, e_supply[q[2]] > 0,
               {q[1], q[2]} \cap Reprintable = {}
        PROVE  \E k \in {q[1], q[2]} : balance'[k][q] = e_supply'[k]
    <3>1. q \in E!Places /\ q # w /\ q[1] \in Entanglable /\ q[2] \in Entanglable
      BY <1>2, EntanglerPlaces
    <3>2. ASSUME NEW k \in {q[1], q[2]}, balance[k][q] = e_supply[k] PROVE balance'[k][q] = e_supply'[k]
      <4>1. CASE k = m
        BY <1>2, <1>3, <2>1, <3>1, <3>2, <4>1, OnePlace DEF EntanglerInv
      <4>2. CASE k # m
        BY <2>1, <2>2, <3>1, <3>2, <4>2
      <4> QED BY <4>1, <4>2
    <3> QED BY <2>4, <3>2, StaysInEscrow
  <2> QED BY <2>1, <2>3, <2>4 DEF EntanglerInv, NeverBothOut, E!NeverBothOut
<1>6. CASE E!BurnToken(w, m)
  <2>1. /\ balance' = [balance EXCEPT ![m][w] = balance[m][w] - 1]
        /\ e_supply' = [e_supply EXCEPT ![m] = e_supply[m] - 1]
        /\ pairs' = pairs /\ balance[m][w] > 0
    BY <1>6 DEF E!BurnToken
  <2>2. e_supply[m] >= balance[m][w]
    <3> DEFINE f == balance[m]
    <3>1. f \in [E!Places -> Nat]
      BY <1>3
    <3> HIDE DEF f
    <3>2. SumFunctionOnSet(f, E!Places) = f[w] + SumFunctionOnSet(f, E!Places \ {w})
      BY <1>2, <3>1, EntanglerPlaces, SumSplit
    <3>3. IsFiniteSet(E!Places \ {w}) /\ \A x \in E!Places \ {w} : f[x] \in Nat
      BY <3>1, EntanglerPlaces, FS_Subset
    <3>4. SumFunctionOnSet(f, E!Places \ {w}) \in Nat
      BY <3>3, SumNat
    <3>5. SumFunction(f) = SumFunctionOnSet(f, E!Places) /\ f[w] \in Nat
      BY <1>2, <3>1 DEF SumFunction
    <3>6. SumFunction(f) >= f[w]
      BY <3>2, <3>4, <3>5
    <3> QED BY <1>3, <3>6 DEF f
  <2>3. balance[m][w] + (-1) \in Nat /\ e_supply[m] + (-1) \in Nat
    BY <1>3, <2>1, <2>2
  <2>4. /\ balance' = [balance EXCEPT ![m][w] = balance[m][w] + (-1)]
        /\ e_supply' = [e_supply EXCEPT ![m] = e_supply[m] + (-1)]
    <3>1. balance[m][w] - 1 = balance[m][w] + (-1) /\ e_supply[m] - 1 = e_supply[m] + (-1)
      BY <1>3
    <3> QED BY <2>1, <3>1
  <2>5. -1 \in {-1, 1} /\ -1 # 1
    OBVIOUS
  <2> QED BY <1>4, <2>1, <2>3, <2>4, <2>5
<1>7. CASE E!MintToken(w, m)
  <2>1. balance[m][w] + 1 \in Nat /\ e_supply[m] + 1 \in Nat
    BY <1>3
  <2>2. /\ balance' = [balance EXCEPT ![m][w] = balance[m][w] + 1]
        /\ e_supply' = [e_supply EXCEPT ![m] = e_supply[m] + 1]
        /\ pairs' = pairs /\ m \in Reprintable
    BY <1>7 DEF E!MintToken
  <2> QED BY <1>4, <2>1, <2>2
<1> QED BY <1>1, <1>5, <1>6, <1>7

LEMMA EntanglerInvStep == EntanglerInv /\ [E!Next]_E!vars => EntanglerInv'
<1> SUFFICES ASSUME EntanglerInv, [E!Next]_E!vars PROVE EntanglerInv'
  OBVIOUS
<1>1. ASSUME balance' = balance, e_supply' = e_supply, DOMAIN pairs' = E!Pairs,
             \A p \in E!Pairs : pairs'[p] # NoAccount => pairs[p] # NoAccount
      PROVE  EntanglerInv'
  BY <1>1 DEF EntanglerInv, EntanglerTyped, Ledger, Apart, NeverBothOut, E!NeverBothOut
<1>2. CASE UNCHANGED E!vars
  BY <1>1, <1>2 DEF E!vars, EntanglerInv, EntanglerTyped
<1>3. ASSUME NEW w \in Claimants, E!Entangle(w) PROVE EntanglerInv'
  <2>1. ASSUME NEW p \in E!Pairs, NEW price, NEW every, NEW updater,
               E!UpdateEntangledPair(w, p, price, every, updater)
        PROVE  EntanglerInv'
    BY <1>1, <2>1 DEF E!UpdateEntangledPair, EntanglerInv, EntanglerTyped
  <2> QED BY <1>3, <2>1, CreatePreserves, SwapPreserves DEF E!Entangle
<1> QED BY <1>2, <1>3, TokensPreserve DEF E!Next

(* Of two entangled mints that nobody can mint and of which something is    *)
(* left, one is whole in the pair's escrow: a swap never lets both out,     *)
(* whatever pairs share a mint, whatever is burnt and whatever is sent to   *)
(* the escrows (swap, create_entangled_pair).                               *)
THEOREM OneStaysInEscrow == E!Spec => []NeverBothOut
<1>1. EntanglerInv => NeverBothOut
  BY DEF EntanglerInv
<1> QED BY <1>1, EntanglerInvInit, EntanglerInvStep, PTL DEF E!Spec
-----------------------------------------------------------------------------
(* NftPacks: cards come and go at the end of their numbering, each with a   *)
(* master that no other card has.                                           *)

(* The pack and its cards keep their form, and a master is held by a wallet *)
(* or by the program.                                                       *)
PackTyped ==
  /\ clock \in Nat /\ pack \in P!PackSet \cup {NoAccount}
  /\ card \in [P!CardNumbers -> P!PackCard \cup {NoAccount}]
  /\ holder \in [CardMasters -> Claimants \cup {Program}]

PackInv == PackTyped /\ MastersKept

LEMMA PackFacts ==
  /\ NoAccount \notin P!PackSet \cup P!PackCard /\ Program \notin Claimants
  /\ PackHeirs \subseteq Claimants /\ PackAdmins \subseteq Claimants
  /\ PackArguments \subseteq P!InitPackSetArgs
  /\ CardSupplies \subseteq Nat /\ CardWeights \subseteq Nat /\ MostCards \in Nat
BY PacksAssumption DEF P!PacksAssumption

LEMMA PackInvInit == P!Init => PackInv
<1> SUFFICES ASSUME P!Init PROVE PackInv
  OBVIOUS
<1>1. PackTyped
  BY PackFacts DEF P!Init, PackTyped
<1>2. MastersKept
  BY PackFacts DEF P!Init, MastersKept, P!MastersKept
<1> QED BY <1>1, <1>2 DEF PackInv

(* Steps that move no card: the pack keeps its count, each card its master. *)
LEMMA CardsStay ==
  ASSUME PackInv, pack # NoAccount,
         pack' \in P!PackSet, pack'.cards = pack.cards,
         card' \in [P!CardNumbers -> P!PackCard \cup {NoAccount}],
         \A c \in P!CardNumbers :
            /\ card[c] = NoAccount <=> card'[c] = NoAccount
            /\ card[c] # NoAccount => card'[c].master = card[c].master,
         holder' = holder, clock' \in Nat
  PROVE  PackInv'
<1>1. PackTyped'
  BY DEF PackInv, PackTyped
<1>2. pack' # NoAccount
  BY PackFacts
<1>3. MastersKept'
  BY <1>2 DEF PackInv, MastersKept, P!MastersKept
<1> QED BY <1>1, <1>3 DEF PackInv

(* One field of the pack is set. *)
LEMMA PackStays ==
  ASSUME PackInv, pack # NoAccount, pack' \in P!PackSet, pack'.cards = pack.cards,
         UNCHANGED <<card, holder, clock>>
  PROVE  PackInv'
<1>1. card' = card /\ holder' = holder /\ clock' \in Nat /\ card \in [P!CardNumbers -> P!PackCard \cup {NoAccount}]
  BY DEF PackInv, PackTyped
<1> QED BY <1>1, CardsStay

(* What a step leaves alone. *)
LEMMA PackUndisturbed == 
  ASSUME PackInv, UNCHANGED <<pack, card, holder>>, clock' \in Nat
  PROVE  PackInv'
BY DEF PackInv, PackTyped, MastersKept, P!MastersKept

LEMMA ExistingPack == ASSUME PackInv, P!Exists PROVE pack \in P!PackSet /\ pack # NoAccount
BY DEF PackInv, PackTyped, P!Exists

LEMMA PackEdited ==
  ASSUME NEW p \in P!PackSet, NEW i \in Nat, NEW weight \in Nat, NEW editions \in Nat
  PROVE  [p EXCEPT !.cards = i, !.total_weight = weight, !.total_editions = editions] \in P!PackSet
BY DEF P!PackSet

LEMMA InitPackPreserves ==
  ASSUME PackInv, NEW w \in Claimants, NEW args \in PackArguments, P!InitPack(w, args)
  PROVE  PackInv'
<1>1. PICK start : start = (IF args.start = NoAccount THEN clock ELSE args.start)
  OBVIOUS
<1>2. /\ pack = NoAccount /\ UNCHANGED <<clock, card, holder>>
      /\ pack' = [authority |-> w, state |-> "NotActivated", distribution |-> args.distribution,
                  mutable |-> args.mutable, allowed |-> args.allowed, start |-> start,
                  end |-> args.end, cards |-> 0, vouchers |-> 0,
                  total_weight |-> 0, total_editions |-> 0]
  BY <1>1 DEF P!InitPack, P!tokens
<1>3. args \in P!InitPackSetArgs
  BY PackFacts
<1>4. start \in Nat
  BY <1>1, <1>3 DEF P!InitPackSetArgs, PackInv, PackTyped
<1>5. pack' \in P!PackSet /\ pack'.cards = 0
  BY <1>2, <1>3, <1>4 DEF P!PackSet, P!InitPackSetArgs, P!PackSetStates
<1>6. PackTyped'
  BY <1>2, <1>5 DEF PackInv, PackTyped
<1>7. \A c \in P!CardNumbers : ~(c <= 0)
  BY PackFacts DEF P!CardNumbers
<1>8. MastersKept'
  BY <1>2, <1>5, <1>7, PackFacts DEF PackInv, MastersKept, P!MastersKept
<1> QED BY <1>6, <1>8 DEF PackInv

(* A new card takes the next number and a master that a wallet held. *)
LEMMA AddCardPreserves ==
  ASSUME PackInv, NEW w \in Claimants, NEW m \in CardMasters, NEW max_supply \in CardSupplies,
         NEW weight \in CardWeights, P!AddCardToPack(w, m, max_supply, weight)
  PROVE  PackInv'
<1>1. PICK i : i = pack.cards + 1
  OBVIOUS
<1>2. pack \in P!PackSet /\ pack # NoAccount /\ pack.cards \in Nat
  BY ExistingPack DEF P!AddCardToPack, P!Authority, P!PackSet
<1>3. /\ i <= MostCards /\ card[i] = NoAccount /\ holder[m] = w
      /\ card' = [card EXCEPT ![i] = [master |-> m, max_supply |-> max_supply, weight |-> weight]]
      /\ holder' = [holder EXCEPT ![m] = Program] /\ UNCHANGED clock
  BY <1>1 DEF P!AddCardToPack
<1>4. pack' = [pack EXCEPT !.cards = i, !.total_weight = pack.total_weight + weight,
                           !.total_editions = pack.total_editions + max_supply]
  BY <1>1 DEF P!AddCardToPack
<1>5. max_supply \in Nat /\ weight \in Nat /\ MostCards \in Nat
  BY PackFacts
<1>6. i \in P!CardNumbers
  BY <1>1, <1>2, <1>3, <1>5 DEF P!CardNumbers
<1>7. pack' \in P!PackSet /\ pack'.cards = i /\ pack' # NoAccount
  <2>1. /\ i \in Nat /\ pack.total_weight + weight \in Nat
        /\ pack.total_editions + max_supply \in Nat
    BY <1>1, <1>2, <1>5 DEF P!PackSet
  <2>2. pack'.cards = i
    BY <1>2, <1>4 DEF P!PackSet
  <2>3. pack' \in P!PackSet
    BY <1>2, <1>4, <2>1, PackEdited
  <2> QED BY <2>2, <2>3, PackFacts
<1>8. PICK new : new = [master |-> m, max_supply |-> max_supply, weight |-> weight]
  OBVIOUS
<1>9. new \in P!PackCard /\ new # NoAccount /\ new.master = m
  <2>1. new \in P!PackCard /\ new.master = m
    BY <1>5, <1>8 DEF P!PackCard
  <2> QED BY <2>1, PackFacts
<1>10. card' = [card EXCEPT ![i] = new]
  BY <1>3, <1>8
<1>11. PackTyped'
  BY <1>2, <1>3, <1>6, <1>7, <1>9, <1>10 DEF PackInv, PackTyped
<1>12. /\ card'[i] = new /\ \A c \in P!CardNumbers \ {i} : card'[c] = card[c]
       /\ holder'[m] = Program /\ \A x \in CardMasters \ {m} : holder'[x] = holder[x]
  BY <1>3, <1>6, <1>10 DEF PackInv, PackTyped
<1>13. /\ holder[m] # Program
       /\ \A c \in P!CardNumbers : card[c] # NoAccount => card[c].master # m
  BY <1>3, PackFacts DEF PackInv, MastersKept, P!MastersKept
<1>14. \A c \in P!CardNumbers : card'[c] # NoAccount <=> (pack' # NoAccount /\ c <= pack'.cards)
  <2>1. \A c \in P!CardNumbers \ {i} : c <= pack.cards <=> c <= i
    BY <1>1, <1>2, <1>5 DEF P!CardNumbers
  <2>2. \A c \in P!CardNumbers : card[c] # NoAccount <=> c <= pack.cards
    BY <1>2 DEF PackInv, MastersKept, P!MastersKept
  <2>3. i <= i
    BY <1>1, <1>2
  <2> QED BY <1>7, <1>9, <1>12, <2>1, <2>2, <2>3
<1>15. \A x \in CardMasters : holder'[x] = Program <=>
          \E c \in P!CardNumbers : card'[c] # NoAccount /\ card'[c].master = x
  <2>1. \A x \in CardMasters : holder[x] = Program <=>
           \E c \in P!CardNumbers : card[c] # NoAccount /\ card[c].master = x
    BY DEF PackInv, MastersKept, P!MastersKept
  <2>2. ASSUME NEW x \in CardMasters \ {m}
        PROVE  (\E c \in P!CardNumbers : card'[c] # NoAccount /\ card'[c].master = x)
                 <=> \E c \in P!CardNumbers : card[c] # NoAccount /\ card[c].master = x
    BY <1>3, <1>6, <1>9, <1>12
  <2> QED BY <1>6, <1>9, <1>12, <2>1, <2>2
<1>16. \A c, d \in P!CardNumbers :
          card'[c] # NoAccount /\ card'[d] # NoAccount /\ card'[c].master = card'[d].master => c = d
  BY <1>9, <1>12, <1>13 DEF PackInv, MastersKept, P!MastersKept
<1> QED BY <1>11, <1>14, <1>15, <1>16 DEF PackInv, MastersKept, P!MastersKept

(* The last card is deleted; its master is the only one that is given back. *)
LEMMA DeleteCardPreserves ==
  ASSUME PackInv, NEW w \in Claimants, NEW to \in PackHeirs, P!DeletePackCard(w, to)
  PROVE  PackInv'
<1>1. PICK i : i = pack.cards
  OBVIOUS
<1>2. pack \in P!PackSet /\ pack # NoAccount /\ pack.cards \in Nat
  BY ExistingPack DEF P!DeletePackCard, P!DeletePackCardAt, P!Authority, P!PackSet
<1>3. /\ i \in P!CardNumbers /\ card[i] # NoAccount /\ i >= 1
      /\ card' = [card EXCEPT ![i] = NoAccount]
      /\ pack' = [pack EXCEPT !.cards = pack.cards - 1] /\ UNCHANGED clock
  BY <1>1 DEF P!DeletePackCard, P!DeletePackCardAt
<1>4. PICK m : m = card[i].master
  OBVIOUS
<1>5. m \in CardMasters /\ to \in Claimants /\ to # Program
  BY <1>3, <1>4, PackFacts DEF PackInv, PackTyped, P!PackCard
<1>6. holder' = [holder EXCEPT ![m] = to]
  BY <1>1, <1>4 DEF P!DeletePackCard, P!DeletePackCardAt
<1>7. pack' \in P!PackSet /\ pack'.cards = i - 1 /\ pack' # NoAccount
  <2>1. pack' \in P!PackSet /\ pack'.cards = i - 1
    BY <1>1, <1>2, <1>3 DEF P!PackSet
  <2> QED BY <2>1, PackFacts
<1>8. PackTyped'
  BY <1>3, <1>5, <1>6, <1>7 DEF PackInv, PackTyped
<1>9. /\ card'[i] = NoAccount /\ \A c \in P!CardNumbers \ {i} : card'[c] = card[c]
      /\ holder'[m] = to /\ \A x \in CardMasters \ {m} : holder'[x] = holder[x]
  BY <1>3, <1>5, <1>6 DEF PackInv, PackTyped
<1>10. \A c \in P!CardNumbers \ {i} : card[c] # NoAccount => card[c].master # m
  BY <1>3, <1>4 DEF PackInv, MastersKept, P!MastersKept
<1>11. \A c \in P!CardNumbers : card'[c] # NoAccount <=> (pack' # NoAccount /\ c <= pack'.cards)
  <2>1. \A c \in P!CardNumbers \ {i} : c <= pack.cards <=> c <= i - 1
    BY <1>1, <1>2, PackFacts DEF P!CardNumbers
  <2>2. \A c \in P!CardNumbers : card[c] # NoAccount <=> c <= pack.cards
    BY <1>2 DEF PackInv, MastersKept, P!MastersKept
  <2>3. ~(i <= i - 1)
    BY <1>1, <1>2
  <2> QED BY <1>7, <1>9, <2>1, <2>2, <2>3
<1>12. \A x \in CardMasters : holder'[x] = Program <=>
          \E c \in P!CardNumbers : card'[c] # NoAccount /\ card'[c].master = x
  <2>1. \A x \in CardMasters : holder[x] = Program <=>
           \E c \in P!CardNumbers : card[c] # NoAccount /\ card[c].master = x
    BY DEF PackInv, MastersKept, P!MastersKept
  <2>2. ASSUME NEW x \in CardMasters \ {m}
        PROVE  (\E c \in P!CardNumbers : card'[c] # NoAccount /\ card'[c].master = x)
                 <=> \E c \in P!CardNumbers : card[c] # NoAccount /\ card[c].master = x
    BY <1>4, <1>9
  <2> QED BY <1>5, <1>9, <1>10, <2>1, <2>2
<1>13. \A c, d \in P!CardNumbers :
          card'[c] # NoAccount /\ card'[d] # NoAccount /\ card'[c].master = card'[d].master => c = d
  BY <1>9 DEF PackInv, MastersKept, P!MastersKept
<1> QED BY <1>8, <1>11, <1>12, <1>13 DEF PackInv, MastersKept, P!MastersKept

(* A print of a card leaves the card where it is. *)
LEMMA ClaimPreserves ==
  ASSUME PackInv, NEW e \in P!Editions, NEW c \in P!CardNumbers,
         NEW u \in CardMasters \cup {NoAccount}, P!ClaimPack(e, c, u)
  PROVE  PackInv'
<1>1. pack \in P!PackSet /\ pack # NoAccount
  BY ExistingPack DEF P!ClaimPack, P!ClaimPackOf
<1>2. UNCHANGED <<pack, holder, clock>> /\ card[c] # NoAccount
  BY DEF P!ClaimPack, P!ClaimPackOf
<1>3. CASE pack.distribution = "Unlimited"
  <2>1. card' = card
    BY <1>3 DEF P!ClaimPack, P!ClaimPackOf
  <2> QED BY <1>2, <2>1, PackUndisturbed DEF PackInv, PackTyped
<1>4. CASE pack.distribution # "Unlimited"
  <2>1. /\ card' = [card EXCEPT ![c].max_supply = card[c].max_supply - 1]
        /\ card[c].max_supply >= 1
    BY <1>4 DEF P!ClaimPack, P!ClaimPackOf
  <2>2. card[c] \in P!PackCard
    BY <1>2 DEF PackInv, PackTyped
  <2>3. PICK new : new = [card[c] EXCEPT !.max_supply = card[c].max_supply - 1]
    OBVIOUS
  <2>4. new \in P!PackCard /\ new.master = card[c].master
    BY <2>1, <2>2, <2>3 DEF P!PackCard
  <2>5. card' = [card EXCEPT ![c] = new]
    BY <2>1, <2>3
  <2>6. /\ card' \in [P!CardNumbers -> P!PackCard \cup {NoAccount}]
        /\ card'[c] = new /\ \A d \in P!CardNumbers \ {c} : card'[d] = card[d]
    BY <2>4, <2>5 DEF PackInv, PackTyped
  <2>7. new # NoAccount
    BY <2>4, PackFacts
  <2>8. clock' \in Nat /\ pack' \in P!PackSet /\ pack'.cards = pack.cards /\ holder' = holder
    BY <1>1, <1>2 DEF PackInv, PackTyped
  <2>9. \A d \in P!CardNumbers :
           /\ card[d] = NoAccount <=> card'[d] = NoAccount
           /\ card[d] # NoAccount => card'[d].master = card[d].master
    BY <1>2, <2>4, <2>6, <2>7
  <2> QED BY <1>1, <2>6, <2>8, <2>9, CardsStay
<1> QED BY <1>3, <1>4

(* The instructions that change other fields of the pack.                   *)
LEMMA FieldsEdited ==
  ASSUME PackInv, NEW w \in Claimants,
         \/ \E v \in VoucherMasters : P!AddVoucherToPack(w, v)
         \/ P!ActivatePack(w)
         \/ P!DeactivatePack(w)
         \/ P!ClosePack(w)
         \/ \E to \in PackHeirs : P!TransferPackAuthority(w, to)
         \/ P!EditPack(w)
         \/ P!DeletePackVoucher(w)
         \/ P!DeletePack(w)
  PROVE  /\ pack \in P!PackSet /\ pack # NoAccount /\ pack' \in P!PackSet
         /\ UNCHANGED <<config, card, holder, supply, strayed, clock, proving>>
         /\ pack'.distribution = pack.distribution /\ pack'.cards = pack.cards
         /\ pack'.total_editions = pack.total_editions
         /\ pack'.state = "NotActivated" => pack.state = "NotActivated"
<1>1. P!Exists /\ UNCHANGED <<config, card, holder, supply, strayed, clock, proving>>
  BY DEF P!AddVoucherToPack, P!ActivatePack, P!DeactivatePack, P!ClosePack,
         P!TransferPackAuthority, P!EditPack, P!DeletePackVoucher, P!DeletePack,
         P!Authority, P!tokens
<1>2. pack \in P!PackSet /\ pack # NoAccount
  BY <1>1, ExistingPack
<1> DEFINE Edited == /\ pack' \in P!PackSet
                     /\ pack'.distribution = pack.distribution /\ pack'.cards = pack.cards
                     /\ pack'.total_editions = pack.total_editions
                     /\ pack'.state = "NotActivated" => pack.state = "NotActivated"
<1>3. CASE \/ P!ActivatePack(w) \/ P!DeactivatePack(w) \/ P!ClosePack(w) \/ P!DeletePack(w)
           \/ P!EditPack(w)
  <2>1. Edited
    BY <1>2, <1>3 DEF P!ActivatePack, P!DeactivatePack, P!ClosePack, P!DeletePack, P!EditPack,
                      P!PackSet, P!PackSetStates
  <2> QED BY <1>1, <1>2, <2>1
<1>4. CASE \E to \in PackHeirs : P!TransferPackAuthority(w, to)
  <2>1. Edited
    BY <1>2, <1>4, PackFacts DEF P!TransferPackAuthority, P!PackSet
  <2> QED BY <1>1, <1>2, <2>1
<1>5. CASE P!DeletePackVoucher(w)
  <2>1. pack.vouchers - 1 \in Nat
    BY <1>2, <1>5, PackFacts DEF P!DeletePackVoucher, P!PackSet, P!VoucherNumbers
  <2>2. Edited
    BY <1>2, <1>5, <2>1 DEF P!DeletePackVoucher, P!PackSet
  <2> QED BY <1>1, <1>2, <2>2
<1>6. CASE \E v \in VoucherMasters : P!AddVoucherToPack(w, v)
  <2>1. Edited
    BY <1>2, <1>6 DEF P!AddVoucherToPack, P!AfterVoucher, P!PackSet
  <2> QED BY <1>1, <1>2, <2>1
<1> QED BY <1>3, <1>4, <1>5, <1>6

LEMMA CleanUpPreserves ==
  ASSUME PackInv, P!CleanUp
  PROVE  PackInv'
<1>1. pack \in P!PackSet /\ pack # NoAccount /\ UNCHANGED <<card, holder, clock>>
  BY ExistingPack DEF P!CleanUp, P!CleanUpTo, P!tokens
<1>2. PICK n \in Nat : pack' = [pack EXCEPT !.total_editions = n]
  BY <1>1 DEF P!CleanUp, P!CleanUpTo, P!PackSet
<1>3. pack' \in P!PackSet /\ pack'.cards = pack.cards
  BY <1>1, <1>2 DEF P!PackSet
<1> QED BY <1>1, <1>3, PackStays

LEMMA PackInvStep == PackInv /\ [P!Next]_P!vars => PackInv'
<1> SUFFICES ASSUME PackInv, [P!Next]_P!vars PROVE PackInv'
  OBVIOUS
<1>0. clock \in Nat
  BY DEF PackInv, PackTyped
<1>1. ASSUME NEW w \in Claimants, P!Authorities(w) PROVE PackInv'
  <2>1. CASE P!DeletePackConfig(w)
    BY <1>0, <2>1, PackUndisturbed DEF P!DeletePackConfig, P!tokens
  <2>2. CASE \E m \in CardMasters, max_supply \in CardSupplies, weight \in CardWeights :
               P!AddCardToPack(w, m, max_supply, weight)
    BY <2>2, AddCardPreserves
  <2>3. CASE \E args \in PackArguments : P!InitPack(w, args)
    BY <2>3, InitPackPreserves
  <2>4. CASE \E to \in PackHeirs : P!DeletePackCard(w, to)
    BY <2>4, DeleteCardPreserves
  <2> QED BY <1>1, <2>1, <2>2, <2>3, <2>4, FieldsEdited, PackStays DEF P!Authorities
<1>2. ASSUME NEW e \in P!Editions, P!Openers(e) PROVE PackInv'
  <2>1. CASE \E c \in P!CardNumbers, m \in CardMasters \cup {NoAccount} : P!ClaimPack(e, c, m)
    BY <2>1, ClaimPreserves
  <2>2. ASSUME NEW w \in Claimants, NEW i \in P!VoucherNumbers, NEW bound \in P!Bounds,
               P!RequestCardForRedeem(w, e, i, bound)
        PROVE  PackInv'
    BY <1>0, <2>2, PackUndisturbed DEF P!RequestCardForRedeem, P!RequestCardForRedeemWith
  <2> QED BY <1>2, <2>1, <2>2 DEF P!Openers
<1>3. CASE P!CleanUp
  BY <1>3, CleanUpPreserves
<1>4. CASE \E m \in CardMasters : P!PrintElsewhere(m) \/ P!ClaimElsewhere(m)
  BY <1>0, <1>4, PackUndisturbed DEF P!PrintElsewhere, P!ClaimElsewhere, P!accounts
<1>5. CASE P!Tick
  BY <1>0, <1>5, PackUndisturbed DEF P!Tick, P!accounts, P!tokens
<1>6. CASE UNCHANGED P!vars
  BY <1>0, <1>6, PackUndisturbed DEF P!vars, P!accounts, P!tokens
<1> QED BY <1>1, <1>2, <1>3, <1>4, <1>5, <1>6 DEF P!Next

(* The program holds a master exactly while a card is made of it, and the   *)
(* cards are those numbered up to the count of the pack, so that taking the *)
(* pack apart from its last card returns every master once.                 *)
THEOREM MastersAreKept == P!Spec => []MastersKept
<1>1. PackInv => MastersKept
  BY DEF PackInv
<1> QED BY <1>1, PackInvInit, PackInvStep, PTL DEF P!Spec
-----------------------------------------------------------------------------
(* NftPacks: the list of weights, the cards' accounts and the number of     *)
(* editions are one stock, and what was drawn is reserved in it.            *)

(* Drops takes NftPacks as an instance, whose library operators are those   *)
(* of the library.                                                          *)
LEMMA SameCount == ASSUME NEW S PROVE P!Cardinality(S) = Cardinality(S)
BY DEF P!Cardinality, Cardinality
LEMMA SameFinite == ASSUME NEW S PROVE P!IsFiniteSet(S) <=> IsFiniteSet(S)
BY DEF P!IsFiniteSet, IsFiniteSet
LEMMA SameSum == ASSUME NEW f, NEW S PROVE P!SumFunctionOnSet(f, S) = SumFunctionOnSet(f, S)
BY DEF P!SumFunctionOnSet, P!FoldFunctionOnSet, P!MapThenFoldSet,
       SumFunctionOnSet, FoldFunctionOnSet, MapThenFoldSet

(* What a list of weights says is left of a card, f being the number of an  *)
(* entry that counts: each card has at most one entry.                      *)
NumbersOnce(w) == \A j, k \in 1 .. Len(w) : w[j][1] = w[k][1] => j = k
LeftIn(w, f, c) == IF P!PositionOf(w, c) = {} THEN 0 ELSE w[P!Min(P!PositionOf(w, c))][f]
StockOf(w, f) == [c \in P!CardNumbers |-> LeftIn(w, f, c)]
Counting == IF pack.distribution = "Fixed" THEN 3 ELSE 2
EditionsLeft == StockOf(config.weights, Counting)

(* Nothing was drawn before the pack was opened, and its list has the cards *)
(* numbered up to the counter.                                              *)
NothingDrawn == \A e \in P!Editions : proving[e] = NoAccount
NotOpened ==
  pack.state = "NotActivated" =>
    /\ NothingDrawn
    /\ \A c \in P!CardNumbers : card[c] # NoAccount => card[c].max_supply # 0
    /\ config = NoAccount => pack.cards = 0 /\ pack.total_editions = 0
    /\ config # NoAccount =>
         /\ config.action = P!Sort
         /\ \A k \in 1 .. Len(config.weights) : config.weights[k][1] <= pack.cards

(* The list, the pack's number of editions, the change that waits and the   *)
(* cards' accounts are one stock.                                           *)
Waiting(c) == IF P!IsPending(c) THEN 1 ELSE 0
Printable(c) ==
  CardMaxPrints[card[c].master] # NoAccount =>
    supply[card[c].master] + card[c].max_supply
      <= CardMaxPrints[card[c].master] + strayed[card[c].master]
ListCounts ==
  /\ config \in P!PackConfig /\ NumbersOnce(config.weights)
  /\ config.action.do = "Change" => EditionsLeft[config.action.card] = config.action.value + 1
  /\ pack.total_editions = SumFunction(EditionsLeft)
CardsCount ==
  \A c \in P!CardNumbers : card[c] # NoAccount =>
    card[c].max_supply = EditionsLeft[c] - Waiting(c) + P!OutstandingOf(c) /\ Printable(c)

AllTyped(q) == \A e \in P!Editions : q[e] = NoAccount \/ P!IsProvingProcess(q[e])

StockInv ==
  /\ supply \in [CardMasters -> Nat] /\ strayed \in [CardMasters -> Nat]
  /\ DOMAIN proving = P!Editions
  /\ pack = NoAccount => config = NoAccount /\ NothingDrawn
  /\ P!IsLimited =>
       /\ NotOpened
       /\ AllTyped(proving)
       /\ config # NoAccount => ListCounts /\ CardsCount

LEMMA EntryParts ==
  ASSUME NEW w \in Seq(P!Weight), NEW k \in 1 .. Len(w)
  PROVE  /\ w[k] \in P!Weight /\ w[k][1] \in P!CardNumbers /\ w[k][2] \in Nat /\ w[k][3] \in Nat
         /\ w[k] = <<w[k][1], w[k][2], w[k][3]>>
<1>1. w[k] \in P!Weight
  OBVIOUS
<1> QED BY <1>1 DEF P!Weight

LEMMA NoEntry ==
  ASSUME NEW w, NEW f, NEW c, \A k \in 1 .. Len(w) : w[k][1] # c
  PROVE  P!PositionOf(w, c) = {} /\ LeftIn(w, f, c) = 0
BY DEF P!PositionOf, LeftIn

LEMMA EntryIs ==
  ASSUME NEW w, NumbersOnce(w), NEW k \in 1 .. Len(w), NEW c, w[k][1] = c, NEW f
  PROVE  /\ P!PositionOf(w, c) = {k} /\ P!Min(P!PositionOf(w, c)) = k
         /\ LeftIn(w, f, c) = w[k][f]
<1>1. P!PositionOf(w, c) = {k}
  BY DEF P!PositionOf, NumbersOnce
<1>2. P!Min({k}) = k
  BY DEF P!Min
<1> QED BY <1>1, <1>2 DEF LeftIn

LEMMA LeftIsNat ==
  ASSUME NEW w \in Seq(P!Weight), NumbersOnce(w), NEW f \in {2, 3}, NEW c
  PROVE  LeftIn(w, f, c) \in Nat
<1>1. CASE \A k \in 1 .. Len(w) : w[k][1] # c
  BY <1>1, NoEntry
<1>2. ASSUME NEW k \in 1 .. Len(w), w[k][1] = c PROVE LeftIn(w, f, c) \in Nat
  BY <1>2, EntryIs, EntryParts
<1> QED BY <1>1, <1>2

LEMMA StockIsNat ==
  ASSUME NEW w \in Seq(P!Weight), NumbersOnce(w), NEW f \in {2, 3}
  PROVE  StockOf(w, f) \in [P!CardNumbers -> Nat]
BY LeftIsNat DEF StockOf

(* A list in another order says the same. *)
LEMMA Permuted ==
  ASSUME NEW w \in Seq(P!Weight), NumbersOnce(w), NEW f \in {2, 3},
         NEW s \in Bijection(1 .. Len(w), 1 .. Len(w)),
         NEW v, v = [k \in 1 .. Len(w) |-> w[s[k]]]
  PROVE  v \in Seq(P!Weight) /\ NumbersOnce(v) /\ StockOf(v, f) = StockOf(w, f)
<1> DEFINE n == Len(w)
<1>0. /\ n \in Nat /\ s \in [1 .. n -> 1 .. n] /\ \A k \in 1 .. n : \E j \in 1 .. n : s[j] = k
      /\ \A j, k \in 1 .. n : s[j] = s[k] => j = k
  BY DEF Bijection, Injection, Surjection, IsInjective
<1>1. \A k \in 1 .. n : v[k] = w[s[k]] /\ v[k] \in P!Weight
  BY <1>0
<1>2. v \in [1 .. n -> P!Weight]
  BY <1>1
<1>3. v \in Seq(P!Weight) /\ Len(v) = n
  BY <1>0, <1>2
<1>4. NumbersOnce(v)
  <2>1. ASSUME NEW j \in 1 .. n, NEW k \in 1 .. n, v[j][1] = v[k][1] PROVE j = k
    <3>1. s[j] \in 1 .. n /\ s[k] \in 1 .. n /\ w[s[j]][1] = w[s[k]][1]
      BY <1>0, <1>1, <2>1
    <3>2. s[j] = s[k]
      BY <3>1 DEF NumbersOnce
    <3> QED BY <1>0, <3>2
  <2> QED BY <1>3, <2>1 DEF NumbersOnce
<1>5. ASSUME NEW c PROVE LeftIn(v, f, c) = LeftIn(w, f, c)
  <2>1. CASE \A k \in 1 .. n : w[k][1] # c
    <3>1. \A k \in 1 .. Len(v) : v[k][1] # c
      BY <1>0, <1>1, <1>3, <2>1
    <3>2. LeftIn(v, f, c) = 0
      BY <3>1, NoEntry
    <3>3. LeftIn(w, f, c) = 0
      BY <2>1, NoEntry
    <3> QED BY <3>2, <3>3
  <2>2. ASSUME NEW k \in 1 .. n, w[k][1] = c PROVE LeftIn(v, f, c) = LeftIn(w, f, c)
    <3>1. PICK j \in 1 .. n : s[j] = k
      BY <1>0
    <3>2. v[j] = w[k] /\ v[j][1] = c /\ j \in 1 .. Len(v)
      BY <1>1, <1>3, <2>2, <3>1
    <3>3. LeftIn(v, f, c) = v[j][f]
      BY <1>4, <3>2, EntryIs
    <3>4. LeftIn(w, f, c) = w[k][f]
      BY <2>2, EntryIs
    <3> QED BY <3>2, <3>3, <3>4
  <2> QED BY <2>1, <2>2
<1> QED BY <1>3, <1>4, <1>5 DEF StockOf

(* Sorting puts the list in another order. *)
LEMMA SortedKeeps ==
  ASSUME NEW w \in Seq(P!Weight), NumbersOnce(w), NEW f \in {2, 3}
  PROVE  /\ P!Sorted(w) \in Seq(P!Weight) /\ NumbersOnce(P!Sorted(w))
         /\ StockOf(P!Sorted(w), f) = StockOf(w, f)
<1> DEFINE n == Len(w)
           Before(i, j) == w[i][2] > w[j][2] \/ (w[i][2] = w[j][2] /\ i < j)
           Ahead(i) == {j \in 1 .. n : Before(j, i)}
           Place(i) == P!Cardinality(Ahead(i)) + 1
           place == [i \in 1 .. n |-> Place(i)]
           s == [k \in 1 .. n |-> CHOOSE i \in 1 .. n : Place(i) = k]
<1>s. P!Sorted(w) = [k \in 1 .. n |-> w[CHOOSE i \in 1 .. n : Place(i) = k]]
  BY DEF P!Sorted
<1>0. n \in Nat /\ \A i \in 1 .. n : i \in Int /\ w[i][2] \in Int
  BY EntryParts
<1>c. \A i : Place(i) = Cardinality(Ahead(i)) + 1
  BY SameCount
<1> HIDE DEF Place
<1>1. /\ IsFiniteSet(1 .. n) /\ Cardinality(1 .. n) = n
      /\ \A T \in SUBSET (1 .. n) : IsFiniteSet(T) /\ Cardinality(T) \in Nat
  <2>1. IsFiniteSet(1 .. n) /\ Cardinality(1 .. n) = n
    <3>1. /\ IsFiniteSet(1 .. n) /\ Cardinality(1 .. n) = IF 1 > n THEN 0 ELSE n - 1 + 1
      BY <1>0, FS_Interval
    <3> QED BY <1>0, <3>1
  <2> QED BY <2>1, FS_Subset, FS_CardinalityType
<1>2. \A i \in 1 .. n : ~ Before(i, i)
  BY <1>0
<1>3. \A i, j \in 1 .. n : i # j => Before(i, j) \/ Before(j, i)
  BY <1>0
<1>4. \A h, i, j \in 1 .. n : Before(h, i) /\ Before(i, j) => Before(h, j)
  BY <1>0
<1> HIDE DEF Before
<1>5. ASSUME NEW i \in 1 .. n, NEW j \in 1 .. n, Before(i, j) PROVE Place(i) < Place(j)
  <2>1. Ahead(i) \in SUBSET Ahead(j) /\ i \in Ahead(j) /\ i \notin Ahead(i)
    BY <1>2, <1>4, <1>5
  <2>2. /\ IsFiniteSet(Ahead(j)) /\ Cardinality(Ahead(j)) \in Nat
        /\ Cardinality(Ahead(i)) \in Nat
    BY <1>1
  <2>3. Cardinality(Ahead(i)) <= Cardinality(Ahead(j)) /\ Cardinality(Ahead(i)) # Cardinality(Ahead(j))
    BY <2>1, <2>2, FS_Subset
  <2> QED BY <1>c, <2>2, <2>3
<1>6. \A i \in 1 .. n : Place(i) \in 1 .. n
  <2>1. ASSUME NEW i \in 1 .. n PROVE Place(i) \in 1 .. n
    <3>1. Ahead(i) \in SUBSET (1 .. n) /\ i \notin Ahead(i)
      BY <1>2
    <3>2. Cardinality(Ahead(i)) \in Nat
      BY <1>1
    <3>3. Cardinality(Ahead(i)) <= n /\ Cardinality(Ahead(i)) # n
      BY <1>1, <3>1, FS_Subset
    <3> QED BY <1>0, <1>c, <3>2, <3>3
  <2> QED BY <2>1
<1> HIDE DEF Ahead
<1>7. \A i, j \in 1 .. n : Place(i) = Place(j) => i = j
  <2>1. ASSUME NEW i \in 1 .. n, NEW j \in 1 .. n, Place(i) = Place(j), i # j PROVE FALSE
    <3>1. Place(i) < Place(j) \/ Place(j) < Place(i)
      BY <1>3, <1>5, <2>1
    <3>2. Place(i) \in 1 .. n /\ Place(j) \in 1 .. n
      BY <1>6
    <3> QED BY <1>0, <2>1, <3>1, <3>2
  <2> QED BY <2>1
<1>8. place \in Injection(1 .. n, 1 .. n)
  BY <1>6, <1>7 DEF Injection, IsInjective
<1>9. place \in Surjection(1 .. n, 1 .. n)
  BY <1>1, <1>8, FS_Injection
<1>10. \A k \in 1 .. n : s[k] \in 1 .. n /\ Place(s[k]) = k
  <2>1. \A k \in 1 .. n : \E i \in 1 .. n : Place(i) = k
    BY <1>9 DEF Surjection
  <2> QED BY <2>1
<1>11. s \in Injection(1 .. n, 1 .. n)
  <2>1. s \in [1 .. n -> 1 .. n]
    BY <1>10
  <2> HIDE DEF s
  <2>2. \A j, k \in 1 .. n : s[j] = s[k] => j = k
    BY <1>10
  <2> QED BY <2>1, <2>2 DEF Injection, IsInjective
<1>12. s \in Bijection(1 .. n, 1 .. n)
  BY <1>1, <1>11, FS_Injection DEF Bijection
<1>13. P!Sorted(w) = [k \in 1 .. n |-> w[s[k]]]
  <2>1. \A k \in 1 .. n : s[k] = CHOOSE i \in 1 .. n : Place(i) = k
    OBVIOUS
  <2> HIDE DEF s
  <2> QED BY <1>s, <2>1
<1> HIDE DEF s
<1> QED BY <1>12, <1>13, Permuted

(* List v leaves n of card c, and of the others what w does.                *)
LeavesOf(v, w, f, c, n) == StockOf(v, f) = [StockOf(w, f) EXCEPT ![c] = n]

(* One number of one entry is set. *)
WithNumber(w, k, f, n) == [w EXCEPT ![k][f] = n]
LEMMA EntrySet ==
  ASSUME NEW w \in Seq(P!Weight), NumbersOnce(w), NEW f \in {2, 3}, NEW n \in Nat,
         NEW k \in 1 .. Len(w), NEW v, v = WithNumber(w, k, f, n)
  PROVE  /\ v \in Seq(P!Weight) /\ NumbersOnce(v) /\ Len(v) = Len(w)
         /\ LeavesOf(v, w, f, w[k][1], n)
<1>1. PICK e : e = [w[k] EXCEPT ![f] = n]
  OBVIOUS
<1>2. e \in P!Weight /\ e[1] = w[k][1] /\ e[f] = n
  <2>1. PICK a \in P!CardNumbers, b \in Nat, d \in Nat : w[k] = <<a, b, d>>
    BY EntryParts
  <2>2. CASE f = 2
    <3>1. e = <<a, n, d>>
      BY <1>1, <2>1, <2>2
    <3> QED BY <2>1, <2>2, <3>1 DEF P!Weight
  <2>3. CASE f = 3
    <3>1. e = <<a, b, n>>
      BY <1>1, <2>1, <2>3
    <3> QED BY <2>1, <2>3, <3>1 DEF P!Weight
  <2> QED BY <2>2, <2>3
<1>3. /\ v = [w EXCEPT ![k] = e] /\ v \in Seq(P!Weight) /\ Len(v) = Len(w)
      /\ v[k] = e /\ \A j \in 1 .. Len(w) \ {k} : v[j] = w[j]
  BY <1>1, <1>2 DEF WithNumber
<1>4. \A j \in 1 .. Len(w) : v[j][1] = w[j][1]
  BY <1>2, <1>3
<1>5. NumbersOnce(v)
  BY <1>3, <1>4 DEF NumbersOnce
<1>6. ASSUME NEW c \in P!CardNumbers
      PROVE  LeftIn(v, f, c) = IF c = w[k][1] THEN n ELSE LeftIn(w, f, c)
  <2>1. CASE \A j \in 1 .. Len(w) : w[j][1] # c
    <3>1. LeftIn(w, f, c) = 0 /\ c # w[k][1]
      BY <2>1, NoEntry
    <3>2. \A j \in 1 .. Len(v) : v[j][1] # c
      BY <1>3, <1>4, <2>1
    <3>3. LeftIn(v, f, c) = 0
      BY <3>2, NoEntry
    <3> QED BY <3>1, <3>3
  <2>2. ASSUME NEW j \in 1 .. Len(w), w[j][1] = c
        PROVE  LeftIn(v, f, c) = IF c = w[k][1] THEN n ELSE LeftIn(w, f, c)
    <3>1. LeftIn(w, f, c) = w[j][f]
      BY <2>2, EntryIs
    <3>2. j \in 1 .. Len(v) /\ v[j][1] = c
      BY <1>3, <1>4, <2>2
    <3>3. LeftIn(v, f, c) = v[j][f]
      BY <1>5, <3>2, EntryIs
    <3>4. c = w[k][1] <=> j = k
      BY <2>2 DEF NumbersOnce
    <3> QED BY <1>2, <1>3, <3>1, <3>3, <3>4
  <2> QED BY <2>1, <2>2
<1>7. w[k][1] \in P!CardNumbers
  BY EntryParts
<1> QED BY <1>3, <1>5, <1>6, <1>7 DEF StockOf, LeavesOf

(* Two entries change places. *)
LEMMA SwapKeeps ==
  ASSUME NEW w \in Seq(P!Weight), NumbersOnce(w), NEW f \in {2, 3},
         NEW i \in 1 .. Len(w), NEW j \in 1 .. Len(w)
  PROVE  /\ P!Swap(w, i, j) \in Seq(P!Weight) /\ NumbersOnce(P!Swap(w, i, j))
         /\ StockOf(P!Swap(w, i, j), f) = StockOf(w, f)
<1> DEFINE n == Len(w)
           s == [k \in 1 .. n |-> IF k = j THEN i ELSE IF k = i THEN j ELSE k]
<1>1. s \in Bijection(1 .. n, 1 .. n)
  BY DEF Bijection, Injection, Surjection, IsInjective
<1>2. P!Swap(w, i, j) = [k \in 1 .. n |-> w[s[k]]]
  BY DEF P!Swap
<1> HIDE DEF s
<1> QED BY <1>1, <1>2, Permuted

(* The entry of a card is taken out. *)
LEMMA RemoveAtClears ==
  ASSUME NEW w \in Seq(P!Weight), NumbersOnce(w), NEW f \in {2, 3}, NEW c \in P!CardNumbers
  PROVE  /\ P!RemoveAt(w, c) \in Seq(P!Weight) /\ NumbersOnce(P!RemoveAt(w, c))
         /\ LeavesOf(P!RemoveAt(w, c), w, f, c, 0)
<1>1. CASE \A k \in 1 .. Len(w) : w[k][1] # c
  <2>1. P!RemoveAt(w, c) = w /\ LeftIn(w, f, c) = 0
    BY <1>1, NoEntry DEF P!RemoveAt
  <2> QED BY <2>1 DEF StockOf, LeavesOf
<1>2. ASSUME NEW k \in 1 .. Len(w), w[k][1] = c
      PROVE  /\ P!RemoveAt(w, c) \in Seq(P!Weight) /\ NumbersOnce(P!RemoveAt(w, c))
             /\ LeavesOf(P!RemoveAt(w, c), w, f, c, 0)
  <2>1. PICK v : v = SubSeq(w, 1, k - 1) \o SubSeq(w, k + 1, Len(w))
    OBVIOUS
  <2>2. P!RemoveAt(w, c) = v
    <3>1. P!PositionOf(w, c) = {k} /\ P!Min(P!PositionOf(w, c)) = k
      BY <1>2, EntryIs
    <3> QED BY <2>1, <3>1 DEF P!RemoveAt
  <2>3. Len(w) \in Nat /\ k \in Int
    OBVIOUS
  <2>4. /\ v \in Seq(P!Weight) /\ Len(v) = Len(w) - 1
        /\ \A j \in 1 .. Len(v) : v[j] = IF j < k THEN w[j] ELSE w[j + 1]
    <3>1. PICK a, b : a = SubSeq(w, 1, k - 1) /\ b = SubSeq(w, k + 1, Len(w))
      OBVIOUS
    <3>2. /\ a \in Seq(P!Weight) /\ Len(a) = k - 1
          /\ \A j \in 1 .. k - 1 : a[j] = w[j]
      BY <2>3, <3>1
    <3>3. /\ b \in Seq(P!Weight) /\ Len(b) = Len(w) - k
          /\ \A j \in 1 .. Len(w) - k : b[j] = w[k + j]
      BY <2>3, <3>1
    <3>4. v = a \o b
      BY <2>1, <3>1
    <3>5. v \in Seq(P!Weight) /\ Len(v) = Len(w) - 1
      <4>1. v \in Seq(P!Weight) /\ Len(v) = Len(a) + Len(b)
        <5>1. a \in Seq(P!Weight) /\ b \in Seq(P!Weight)
          BY <3>2, <3>3
        <5> QED BY <3>4, <5>1
      <4> QED BY <2>3, <3>2, <3>3, <4>1
    <3>6. \A j \in 1 .. Len(v) : v[j] = IF j <= Len(a) THEN a[j] ELSE b[j - Len(a)]
      BY <3>2, <3>3, <3>4
    <3>7. ASSUME NEW j \in 1 .. Len(v) PROVE v[j] = IF j < k THEN w[j] ELSE w[j + 1]
      <4>1. CASE j < k
        BY <2>3, <3>2, <3>6, <4>1
      <4>2. CASE ~(j < k)
        <5>1. j - Len(a) \in 1 .. Len(w) - k /\ k + (j - Len(a)) = j + 1 /\ ~(j <= Len(a))
          BY <2>3, <3>2, <3>5, <4>2
        <5>2. v[j] = b[j - Len(a)]
          BY <3>6, <5>1
        <5>3. b[j - Len(a)] = w[k + (j - Len(a))]
          BY <3>3, <5>1
        <5> QED BY <4>2, <5>1, <5>2, <5>3
      <4> QED BY <4>1, <4>2
    <3> QED BY <3>5, <3>7
  <2>5. \A j \in 1 .. Len(v) :
           \E i \in 1 .. Len(w) \ {k} : v[j] = w[i] /\ i = IF j < k THEN j ELSE j + 1
    BY <2>3, <2>4
  <2>6. \A i \in 1 .. Len(w) \ {k} : \E j \in 1 .. Len(v) : v[j] = w[i]
    <3>1. ASSUME NEW i \in 1 .. Len(w) \ {k} PROVE \E j \in 1 .. Len(v) : v[j] = w[i]
      <4>1. CASE i < k
        <5>1. i \in 1 .. Len(v)
          BY <2>3, <2>4, <4>1
        <5> QED BY <2>4, <4>1, <5>1
      <4>2. CASE i > k
        <5>1. i - 1 \in 1 .. Len(v) /\ ~(i - 1 < k) /\ i - 1 + 1 = i
          BY <2>3, <2>4, <4>2
        <5> QED BY <2>4, <5>1
      <4> QED BY <2>3, <4>1, <4>2
    <3> QED BY <3>1
  <2>7. NumbersOnce(v)
    <3>1. ASSUME NEW i \in 1 .. Len(v), NEW j \in 1 .. Len(v), v[i][1] = v[j][1] PROVE i = j
      <4>1. PICK p \in 1 .. Len(w) \ {k} : v[i] = w[p] /\ p = IF i < k THEN i ELSE i + 1
        BY <2>5
      <4>2. PICK q \in 1 .. Len(w) \ {k} : v[j] = w[q] /\ q = IF j < k THEN j ELSE j + 1
        BY <2>5
      <4>3. p = q
        BY <3>1, <4>1, <4>2 DEF NumbersOnce
      <4> QED BY <2>3, <2>4, <4>1, <4>2, <4>3
    <3> QED BY <3>1 DEF NumbersOnce
  <2>8. ASSUME NEW d \in P!CardNumbers
        PROVE  LeftIn(v, f, d) = IF d = c THEN 0 ELSE LeftIn(w, f, d)
    <3>1. CASE \A j \in 1 .. Len(v) : v[j][1] # d
      <4>1. LeftIn(v, f, d) = 0
        BY <3>1, NoEntry
      <4>2. CASE d # c
        <5>1. \A i \in 1 .. Len(w) : w[i][1] # d
          BY <1>2, <2>6, <3>1, <4>2
        <5>2. LeftIn(w, f, d) = 0
          BY <5>1, NoEntry
        <5> QED BY <4>1, <4>2, <5>2
      <4> QED BY <4>1, <4>2
    <3>2. ASSUME NEW j \in 1 .. Len(v), v[j][1] = d
          PROVE  LeftIn(v, f, d) = IF d = c THEN 0 ELSE LeftIn(w, f, d)
      <4>1. PICK i \in 1 .. Len(w) \ {k} : v[j] = w[i]
        BY <2>5
      <4>2. d # c
        BY <1>2, <3>2, <4>1 DEF NumbersOnce
      <4>3. LeftIn(v, f, d) = v[j][f]
        BY <2>7, <3>2, EntryIs
      <4>4. LeftIn(w, f, d) = w[i][f]
        BY <3>2, <4>1, EntryIs
      <4> QED BY <4>1, <4>2, <4>3, <4>4
    <3> QED BY <3>1, <3>2
  <2> QED BY <2>2, <2>4, <2>7, <2>8 DEF StockOf, LeavesOf
<1> QED BY <1>1, <1>2

(* A clean-up sets what is left of one card. *)
LEMMA ChangedSets ==
  ASSUME NEW w \in Seq(P!Weight), NumbersOnce(w), NEW c \in P!CardNumbers, NEW n \in Nat,
         pack.distribution \in {"MaxSupply", "Fixed"}, P!CanChange(w, c, n)
  PROVE  /\ P!Changed(w, c, n) \in Seq(P!Weight) /\ NumbersOnce(P!Changed(w, c, n))
         /\ LeavesOf(P!Changed(w, c, n), w, Counting, c, n)
<1>0. PICK f \in {2, 3} : f = Counting
  BY DEF Counting
<1>1. CASE n = 0
  BY <1>0, <1>1, RemoveAtClears DEF P!Changed
<1>2. CASE n # 0
  <2>1. P!PositionOf(w, c) # {}
    BY <1>2 DEF P!CanChange
  <2>2. PICK k \in 1 .. Len(w) : w[k][1] = c
    BY <2>1 DEF P!PositionOf
  <2>3. P!Min(P!PositionOf(w, c)) = k
    BY <2>2, EntryIs
  <2>4. CASE pack.distribution = "Fixed"
    <3>1. PICK v : v = WithNumber(w, k, f, n)
      OBVIOUS
    <3>2. /\ v \in Seq(P!Weight) /\ NumbersOnce(v)
          /\ LeavesOf(v, w, f, w[k][1], n)
      BY <2>2, <3>1, EntrySet
    <3>3. P!Changed(w, c, n) = v
      BY <1>0, <1>2, <2>3, <2>4, <3>1 DEF Counting, P!Changed, P!ChangeSupply, WithNumber
    <3> QED BY <1>0, <2>2, <3>2, <3>3
  <2>5. CASE pack.distribution = "MaxSupply"
    <3>1. PICK v : v = WithNumber(w, k, f, n)
      OBVIOUS
    <3>2. /\ v \in Seq(P!Weight) /\ NumbersOnce(v) /\ Len(v) = Len(w)
          /\ LeavesOf(v, w, f, w[k][1], n)
      BY <2>2, <3>1, EntrySet
    <3>3. P!Changed(w, c, n) = IF P!NeedsSwap(v, k) THEN P!Swap(v, k + 1, c + 1) ELSE v
      BY <1>0, <1>2, <2>3, <2>5, <3>1 DEF Counting, P!Changed, P!ChangeWeight, WithNumber
    <3>4. CASE P!NeedsSwap(v, k)
      <4>1. c + 1 <= Len(w)
        BY <1>0, <1>2, <2>3, <2>5, <3>1, <3>4 DEF P!CanChange, WithNumber, Counting
      <4>2. k + 1 \in 1 .. Len(v) /\ c + 1 \in 1 .. Len(v)
        BY <2>2, <3>2, <3>4, <4>1, PackFacts DEF P!NeedsSwap, P!CardNumbers
      <4>3. PICK i, j : i = k + 1 /\ j = c + 1
        OBVIOUS
      <4>4. PICK u : u = P!Swap(v, i, j)
        OBVIOUS
      <4>5. u \in Seq(P!Weight) /\ NumbersOnce(u) /\ StockOf(u, f) = StockOf(v, f)
        BY <3>2, <4>2, <4>3, <4>4, SwapKeeps
      <4> QED BY <1>0, <2>2, <3>2, <3>3, <3>4, <4>3, <4>4, <4>5 DEF LeavesOf
    <3>5. CASE ~ P!NeedsSwap(v, k)
      BY <1>0, <2>2, <3>2, <3>3, <3>5
    <3> QED BY <3>4, <3>5
  <2> QED BY <2>4, <2>5
<1> QED BY <1>1, <1>2

(* A new card gets an entry of its own. *)
LEMMA AppendSets ==
  ASSUME NEW w \in Seq(P!Weight), NumbersOnce(w), NEW f \in {2, 3}, NEW e \in P!Weight,
         \A k \in 1 .. Len(w) : w[k][1] # e[1]
  PROVE  /\ Append(w, e) \in Seq(P!Weight) /\ NumbersOnce(Append(w, e))
         /\ LeavesOf(Append(w, e), w, f, e[1], e[f])
         /\ LeftIn(w, f, e[1]) = 0
<1>1. PICK v : v = Append(w, e)
  OBVIOUS
<1>2. /\ v \in Seq(P!Weight) /\ Len(v) = Len(w) + 1 /\ v[Len(v)] = e /\ Len(w) \in Nat
      /\ \A k \in 1 .. Len(w) : v[k] = w[k]
  BY <1>1
<1>3. \A k \in 1 .. Len(v) : k = Len(v) \/ k \in 1 .. Len(w)
  BY <1>2
<1>4. NumbersOnce(v)
  BY <1>2, <1>3 DEF NumbersOnce
<1>5. ASSUME NEW c \in P!CardNumbers
      PROVE  LeftIn(v, f, c) = IF c = e[1] THEN e[f] ELSE LeftIn(w, f, c)
  <2>1. CASE c = e[1]
    <3>1. Len(v) \in 1 .. Len(v) /\ v[Len(v)][1] = c
      BY <1>2, <2>1
    <3> QED BY <1>2, <1>4, <2>1, <3>1, EntryIs
  <2>2. ASSUME NEW k \in 1 .. Len(w), w[k][1] = c, c # e[1]
        PROVE  LeftIn(v, f, c) = LeftIn(w, f, c)
    <3>1. LeftIn(w, f, c) = w[k][f]
      BY <2>2, EntryIs
    <3>2. k \in 1 .. Len(v) /\ v[k][1] = c
      BY <1>2, <2>2
    <3>3. LeftIn(v, f, c) = v[k][f]
      BY <1>4, <3>2, EntryIs
    <3> QED BY <1>2, <3>1, <3>3
  <2>3. CASE c # e[1] /\ \A k \in 1 .. Len(w) : w[k][1] # c
    <3>1. \A k \in 1 .. Len(v) : v[k][1] # c
      BY <1>2, <1>3, <2>3
    <3>2. LeftIn(v, f, c) = 0
      BY <3>1, NoEntry
    <3>3. LeftIn(w, f, c) = 0
      BY <2>3, NoEntry
    <3> QED BY <2>3, <3>2, <3>3
  <2> QED BY <2>1, <2>2, <2>3
<1>6. LeftIn(w, f, e[1]) = 0
  BY NoEntry
<1>7. e[1] \in P!CardNumbers
  BY DEF P!Weight
<1> QED BY <1>1, <1>2, <1>4, <1>5, <1>6, <1>7 DEF StockOf, LeavesOf

(* What is drawn is an entry of the list. *)
LEMMA DrawnIsThere ==
  ASSUME NEW w \in Seq(P!Weight), NumbersOnce(w), w # << >>, NEW f \in {2, 3}, NEW bound,
         NEW drawn, drawn = P!SelectWeightedRandom(w, bound)
  PROVE  /\ drawn \in P!Weight /\ drawn[1] \in P!CardNumbers
         /\ StockOf(w, f)[drawn[1]] = drawn[f]
<1>1. PICK k : k \in 1 .. Len(w) /\ drawn = w[k]
  <2>1. PICK reached : reached = {k \in 1 .. Len(w) : P!UpTo(w, k) >= bound}
    OBVIOUS
  <2>2. drawn = w[IF reached = {} THEN Len(w) ELSE P!Min(reached)]
    BY <2>1 DEF P!SelectWeightedRandom
  <2>3. CASE reached = {}
    <3>1. Len(w) \in 1 .. Len(w)
      OBVIOUS
    <3> QED BY <2>2, <2>3, <3>1
  <2>4. CASE reached # {}
    <3>1. reached \in SUBSET Nat
      BY <2>1
    <3>2. PICK k \in reached : \A j \in reached : k <= j
      BY <2>4, <3>1, SmallestNat
    <3>3. P!Min(reached) \in reached
      BY <3>2 DEF P!Min
    <3> QED BY <2>1, <2>2, <2>4, <3>3
  <2> QED BY <2>3, <2>4
<1>2. drawn \in P!Weight /\ drawn[1] \in P!CardNumbers
  BY <1>1, EntryParts
<1>3. LeftIn(w, f, drawn[1]) = drawn[f]
  BY <1>1, EntryIs
<1> QED BY <1>2, <1>3 DEF StockOf, LeavesOf

(* What the property calls left of a card. *)
LEMMA LeftIs ==
  ASSUME config.weights \in Seq(P!Weight), NumbersOnce(config.weights), NEW c
  PROVE  P!Left(c) = LeftIn(config.weights, Counting, c)
<1>0. PICK w : w = config.weights
  OBVIOUS
<1>w. w \in Seq(P!Weight) /\ NumbersOnce(w)
  BY <1>0
<1> DEFINE at == P!PositionOf(w, c)
           numbers == [k \in at |-> w[k][Counting]]
<1>1. P!Left(c) = SumFunctionOnSet(numbers, at)
  BY <1>0, SameSum DEF P!Left, Counting
<1>2. Counting \in {2, 3}
  BY DEF Counting
<1>3. CASE \A k \in 1 .. Len(w) : w[k][1] # c
  <2>1. at = {} /\ LeftIn(w, Counting, c) = 0
    BY <1>3, NoEntry
  <2> HIDE DEF at, numbers
  <2>2. SumFunctionOnSet(numbers, at) = SumFunctionOnSet(numbers, {})
    BY <2>1
  <2>3. SumFunctionOnSet(numbers, {}) = 0
    BY SumEmpty
  <2> QED BY <1>0, <1>1, <2>1, <2>2, <2>3
<1>4. ASSUME NEW k \in 1 .. Len(w), w[k][1] = c PROVE P!Left(c) = LeftIn(w, Counting, c)
  <2>1. at = {k} /\ LeftIn(w, Counting, c) = w[k][Counting]
    <3>1. at = {k}
      BY <1>w, <1>4, EntryIs
    <3>2. LeftIn(w, Counting, c) = w[k][Counting]
      BY <1>w, <1>4, EntryIs
    <3> QED BY <3>1, <3>2
  <2>2. w[k][Counting] \in Int
    BY <1>2, <1>w, EntryParts
  <2>3. SumFunctionOnSet(numbers, at) = w[k][Counting] + SumFunctionOnSet(numbers, {})
    <3>1. IsFiniteSet(at) /\ k \in at /\ at \ {k} = {} /\ numbers[k] = w[k][Counting]
          /\ \A x \in at : numbers[x] \in Int
      BY <2>1, <2>2, FS_Singleton
    <3> HIDE DEF at, numbers
    <3>2. SumFunctionOnSet(numbers, at) = numbers[k] + SumFunctionOnSet(numbers, at \ {k})
      BY <3>1, SumSplit
    <3> QED BY <3>1, <3>2
  <2> QED BY <1>1, <2>1, <2>2, <2>3, SumEmpty
<1> QED BY <1>0, <1>3, <1>4

LEMMA StockFacts ==
  /\ IsFiniteSet(P!Editions) /\ IsFiniteSet(P!CardNumbers)
  /\ NoAccount \notin P!PackConfig
  /\ \A S \in SUBSET P!CardNumbers : NoAccount \notin P!ProvingProcess(S)
  /\ CardMaxPrints \in [CardMasters -> Nat \cup {NoAccount}] /\ NoAccount \notin Nat
<1>1. IsFiniteSet(P!Editions)
  BY PacksAssumption, SameFinite DEF P!PacksAssumption
<1>2. IsFiniteSet(P!CardNumbers)
  BY PackFacts, FS_Interval DEF P!CardNumbers
<1> QED BY <1>1, <1>2, PacksAssumption DEF P!PacksAssumption

(* What the processes in q have drawn of a card and not claimed.            *)
Drawn(q, e, c) ==
  IF q[e] # NoAccount /\ c \in DOMAIN q[e].to_redeem THEN q[e].to_redeem[c] ELSE 0
DrawnIn(q, c) == [e \in P!Editions |-> Drawn(q, e, c)]
TotalDrawn(q, c) == SumFunction(DrawnIn(q, c))

LEMMA OutstandingIs ==
  ASSUME NEW c
  PROVE  /\ P!OutstandingOf(c) = TotalDrawn(proving, c)
         /\ P!OutstandingOf(c)' = TotalDrawn(proving', c)
BY SameSum DEF P!OutstandingOf, P!Outstanding, TotalDrawn, DrawnIn, Drawn, SumFunction

LEMMA DrawnNat ==
  ASSUME NEW q, AllTyped(q), NEW c
  PROVE  DrawnIn(q, c) \in [P!Editions -> Nat] /\ TotalDrawn(q, c) \in Nat
<1>1. \A e \in P!Editions : Drawn(q, e, c) \in Nat
  BY DEF AllTyped, P!IsProvingProcess, P!ProvingProcess, Drawn
<1>2. DrawnIn(q, c) \in [P!Editions -> Nat]
  BY <1>1 DEF DrawnIn
<1>3. SumFunctionOnSet(DrawnIn(q, c), P!Editions) \in Nat
  BY <1>2, StockFacts, SumNat
<1> QED BY <1>2, <1>3 DEF TotalDrawn, SumFunction

LEMMA NothingOut ==
  ASSUME NEW q, \A e \in P!Editions : q[e] = NoAccount, NEW c
  PROVE  TotalDrawn(q, c) = 0
<1>1. DrawnIn(q, c) \in [P!Editions -> Nat] /\ \A e \in P!Editions : DrawnIn(q, c)[e] = 0
  BY DEF DrawnIn, Drawn
<1>2. SumFunctionOnSet(DrawnIn(q, c), P!Editions) = Cardinality(P!Editions) * 0
  <2>1. 0 \in Nat
    OBVIOUS
  <2> QED BY <1>1, <2>1, StockFacts, SumConstant
<1>3. Cardinality(P!Editions) \in Nat
  BY StockFacts, FS_CardinalityType
<1>4. SumFunctionOnSet(DrawnIn(q, c), P!Editions) = 0
  BY <1>2, <1>3
<1> QED BY <1>1, <1>4 DEF TotalDrawn, SumFunction

(* One process counts d more of card c, and no other count changes.         *)
LEMMA DrawnMoves ==
  ASSUME NEW q, NEW r, AllTyped(q), AllTyped(r), NEW e \in P!Editions, NEW c, NEW d \in Int,
         \A x \in P!Editions \ {e} : r[x] = q[x],
         Drawn(r, e, c) = Drawn(q, e, c) + d
  PROVE  TotalDrawn(r, c) = TotalDrawn(q, c) + d
<1>1. PICK g, h : g = DrawnIn(q, c) /\ h = DrawnIn(r, c)
  OBVIOUS
<1>2. g \in [P!Editions -> Nat] /\ h \in [P!Editions -> Nat]
  BY <1>1, DrawnNat
<1>3. \A x \in P!Editions \ {e} : h[x] = g[x]
  BY <1>1 DEF DrawnIn, Drawn
<1>4. h[e] = g[e] + d
  BY <1>1 DEF DrawnIn
<1>5. PICK n : n = h[e]
  OBVIOUS
<1>6. g \in [P!Editions -> Int] /\ n \in Int /\ g[e] \in Int /\ h = [g EXCEPT ![e] = n]
  BY <1>2, <1>3, <1>5
<1>7. SumFunction([g EXCEPT ![e] = n]) = SumFunction(g) - g[e] + n
  <2>1. IsFiniteSet(P!Editions)
    BY StockFacts
  <2> QED BY <1>6, <2>1, SumUpdate
<1>8. TotalDrawn(q, c) = SumFunction(g) /\ TotalDrawn(r, c) = SumFunction(h) /\ TotalDrawn(q, c) \in Nat
  BY <1>1, DrawnNat DEF TotalDrawn
<1>9. TotalDrawn(r, c) = TotalDrawn(q, c) - g[e] + n
  BY <1>6, <1>7, <1>8
<1> QED BY <1>4, <1>5, <1>6, <1>8, <1>9

LEMMA DrawnStays ==
  ASSUME NEW q, NEW r, NEW c, \A e \in P!Editions : Drawn(r, e, c) = Drawn(q, e, c)
  PROVE  TotalDrawn(r, c) = TotalDrawn(q, c)
<1>1. DrawnIn(r, c) = DrawnIn(q, c)
  BY DEF DrawnIn
<1> QED BY <1>1 DEF TotalDrawn

LEMMA CountingIs == Counting \in {2, 3}
BY DEF Counting

LEMMA StockNow ==
  ASSUME ListCounts
  PROVE  /\ EditionsLeft \in [P!CardNumbers -> Nat] /\ config \in P!PackConfig
         /\ config.weights \in Seq(P!Weight) /\ config.action \in P!CleanUpActions
         /\ NumbersOnce(config.weights) /\ config # NoAccount
<1>1. config \in P!PackConfig /\ NumbersOnce(config.weights)
  BY DEF ListCounts
<1>2. config.weights \in Seq(P!Weight) /\ config.action \in P!CleanUpActions
  BY <1>1 DEF P!PackConfig
<1> QED BY <1>1, <1>2, CountingIs, StockIsNat, StockFacts DEF EditionsLeft

(* The sum over the cards when one of them changes.                         *)
OneMoves(v, w, f, c, n) ==
  /\ SumFunction(StockOf(v, f)) = SumFunction(StockOf(w, f)) - StockOf(w, f)[c] + n
  /\ SumFunction(StockOf(w, f)) \in Nat /\ StockOf(w, f)[c] \in Nat
  /\ StockOf(v, f)[c] = n
  /\ \A d \in P!CardNumbers \ {c} : StockOf(v, f)[d] = StockOf(w, f)[d]

LEMMA SumLeft ==
  ASSUME NEW w \in Seq(P!Weight), NumbersOnce(w), NEW f \in {2, 3}, NEW v,
         NEW c \in P!CardNumbers, NEW n \in Nat, LeavesOf(v, w, f, c, n)
  PROVE  OneMoves(v, w, f, c, n)
<1>1. PICK g : g = StockOf(w, f)
  OBVIOUS
<1>2. g \in [P!CardNumbers -> Nat]
  BY <1>1, StockIsNat
<1>3. StockOf(v, f) = [g EXCEPT ![c] = n]
  BY <1>1 DEF LeavesOf
<1>4. SumFunction([g EXCEPT ![c] = n]) = SumFunction(g) - g[c] + n
  <2>1. g \in [P!CardNumbers -> Int] /\ n \in Int /\ IsFiniteSet(P!CardNumbers)
    BY <1>2, StockFacts
  <2> QED BY <2>1, SumUpdate
<1>5. SumFunction(g) \in Nat
  <2>1. SumFunctionOnSet(g, P!CardNumbers) \in Nat
    BY <1>2, StockFacts, SumNat
  <2> QED BY <1>2, <2>1 DEF SumFunction
<1> QED BY <1>1, <1>2, <1>3, <1>4, <1>5 DEF OneMoves

(* Steps that change neither the stock nor what counts it.                  *)
LEMMA StockStays ==
  ASSUME StockInv, UNCHANGED <<config, card, proving, supply, strayed>>,
         pack # NoAccount, pack' \in P!PackSet, pack'.distribution = pack.distribution,
         pack'.total_editions = pack.total_editions, pack'.cards = pack.cards,
         pack'.state = "NotActivated" => pack.state = "NotActivated"
  PROVE  StockInv'
<1>1. pack' # NoAccount
  BY PackFacts
<1>2. P!IsLimited' <=> P!IsLimited
  BY <1>1 DEF P!IsLimited
<1>3. Counting' = Counting /\ EditionsLeft' = EditionsLeft
  BY DEF Counting, EditionsLeft
<1>4. NotOpened => NotOpened'
  BY DEF NotOpened, NothingDrawn
<1>5. ListCounts => ListCounts'
  BY <1>3 DEF ListCounts
<1>6. CardsCount => CardsCount'
  BY <1>3 DEF CardsCount, Printable, Waiting, P!IsPending, P!OutstandingOf, P!Outstanding
<1> QED BY <1>1, <1>2, <1>4, <1>5, <1>6 DEF StockInv

LEMMA StockUndisturbed ==
  ASSUME StockInv, UNCHANGED <<pack, config, card, proving, supply, strayed>>
  PROVE  StockInv'
<1>1. Counting' = Counting /\ EditionsLeft' = EditionsLeft
  BY DEF Counting, EditionsLeft
<1> QED BY <1>1 DEF StockInv, P!IsLimited, NotOpened, NothingDrawn, ListCounts, CardsCount, Printable,
             Waiting, P!IsPending, P!OutstandingOf, P!Outstanding

LEMMA FieldsKeepStock ==
  ASSUME PackInv, StockInv, NEW w \in Claimants,
         \/ \E v \in VoucherMasters : P!AddVoucherToPack(w, v)
         \/ P!ActivatePack(w)
         \/ P!DeactivatePack(w)
         \/ P!ClosePack(w)
         \/ \E to \in PackHeirs : P!TransferPackAuthority(w, to)
         \/ P!EditPack(w)
         \/ P!DeletePackVoucher(w)
         \/ P!DeletePack(w)
  PROVE  StockInv'
BY FieldsEdited, StockStays

LEMMA InitPackStock ==
  ASSUME PackInv, PackInv', StockInv, NEW w \in Claimants, NEW args \in PackArguments,
         P!InitPack(w, args)
  PROVE  StockInv'
<1>1. /\ pack = NoAccount /\ UNCHANGED <<config, card, proving, supply, strayed>>
      /\ pack'.cards = 0 /\ pack'.total_editions = 0
  BY DEF P!InitPack, P!tokens
<1>2. config' = NoAccount /\ NothingDrawn /\ NothingDrawn'
  BY <1>1 DEF StockInv, NothingDrawn
<1>3. \A c \in P!CardNumbers : card'[c] = NoAccount
  BY <1>1 DEF PackInv, MastersKept, P!MastersKept
<1>4. NotOpened'
  BY <1>1, <1>2, <1>3 DEF NotOpened
<1> QED BY <1>1, <1>2, <1>4 DEF StockInv, NothingDrawn, AllTyped

(* Before the pack is opened its list, empty while there is no              *)
(* configuration, says all that its cards were added with.                  *)
LEMMA ListNotOpened ==
  ASSUME PackInv, StockInv, P!IsLimited, pack.state = "NotActivated",
         NEW w, w = P!PackConfigData, NEW f \in {2, 3}, f = Counting
  PROVE  /\ w \in Seq(P!Weight) /\ NumbersOnce(w) /\ NothingDrawn
         /\ \A k \in 1 .. Len(w) : w[k][1] <= pack.cards
         /\ pack.total_editions = SumFunction(StockOf(w, f))
         /\ \A c \in P!CardNumbers : card[c] # NoAccount =>
              /\ card[c].max_supply = StockOf(w, f)[c] /\ card[c].max_supply # 0
              /\ Printable(c)
<1>1. NotOpened /\ NothingDrawn /\ (config # NoAccount => ListCounts /\ CardsCount)
  BY DEF StockInv, NotOpened
<1>2. \A c \in P!CardNumbers : card[c] # NoAccount => card[c].max_supply # 0
  BY <1>1 DEF NotOpened
<1>3. CASE config = NoAccount
  <2>1. w = << >> /\ pack.cards = 0 /\ pack.total_editions = 0
    BY <1>1, <1>3 DEF P!PackConfigData, NotOpened
  <2>2. w \in Seq(P!Weight) /\ Len(w) = 0 /\ NumbersOnce(w)
    BY <2>1 DEF NumbersOnce
  <2>3. \A c \in P!CardNumbers : StockOf(w, f)[c] = 0
    BY <2>2, NoEntry DEF StockOf
  <2>4. StockOf(w, f) \in [P!CardNumbers -> Nat]
    BY <2>2, StockIsNat
  <2>5. SumFunctionOnSet(StockOf(w, f), P!CardNumbers) = Cardinality(P!CardNumbers) * 0
    <3>1. 0 \in Nat /\ IsFiniteSet(P!CardNumbers)
      BY StockFacts
    <3> QED BY <2>3, <3>1, SumConstant
  <2>6. Cardinality(P!CardNumbers) \in Nat
    BY StockFacts, FS_CardinalityType
  <2>7. SumFunction(StockOf(w, f)) = 0
    BY <2>4, <2>5, <2>6 DEF SumFunction
  <2>8. \A c \in P!CardNumbers : ~(c <= 0)
    BY PackFacts DEF P!CardNumbers
  <2>9. \A c \in P!CardNumbers : card[c] = NoAccount
    BY <2>1, <2>8 DEF PackInv, MastersKept, P!MastersKept
  <2> QED BY <1>1, <2>1, <2>2, <2>7, <2>9
<1>4. CASE config # NoAccount
  <2>1. w = config.weights /\ StockOf(w, f) = EditionsLeft /\ ListCounts /\ CardsCount
    BY <1>1, <1>4 DEF P!PackConfigData, EditionsLeft
  <2>2. w \in Seq(P!Weight) /\ NumbersOnce(w)
    BY <2>1, StockNow
  <2>3. config.action = P!Sort /\ \A k \in 1 .. Len(w) : w[k][1] <= pack.cards
    BY <1>1, <1>4, <2>1 DEF NotOpened
  <2>4. \A c : P!OutstandingOf(c) = 0
    BY <1>1, NothingOut, OutstandingIs DEF NothingDrawn
  <2>5. \A c : Waiting(c) = 0
    BY <2>3 DEF Waiting, P!IsPending, P!Sort
  <2>6. EditionsLeft \in [P!CardNumbers -> Nat]
    BY <2>1, StockNow
  <2>7. ASSUME NEW c \in P!CardNumbers, card[c] # NoAccount
        PROVE  card[c].max_supply = EditionsLeft[c] /\ Printable(c)
    <3>1. card[c].max_supply = EditionsLeft[c] - 0 + 0 /\ Printable(c)
      BY <2>1, <2>4, <2>5, <2>7 DEF CardsCount
    <3> QED BY <2>6, <3>1
  <2> QED BY <1>1, <1>2, <2>1, <2>2, <2>3, <2>7 DEF ListCounts
<1> QED BY <1>3, <1>4

LEMMA AddCardStock ==
  ASSUME PackInv, PackInv', StockInv, NEW w \in Claimants, NEW m \in CardMasters,
         NEW max_supply \in CardSupplies, NEW weight \in CardWeights,
         P!AddCardToPack(w, m, max_supply, weight)
  PROVE  StockInv'
<1>1. PICK i, v, e, new : /\ i = pack.cards + 1 /\ v = P!PackConfigData
                          /\ e = P!NewWeight(i, max_supply, weight)
                          /\ new = [master |-> m, max_supply |-> max_supply, weight |-> weight]
  OBVIOUS
<1>2. /\ pack \in P!PackSet /\ pack # NoAccount /\ pack.cards \in Nat
      /\ pack.total_editions \in Nat /\ pack.total_weight \in Nat
      /\ pack.distribution \in P!Distributions
  BY ExistingPack DEF P!AddCardToPack, P!Authority, P!PackSet
<1>3. /\ pack.state = "NotActivated" /\ P!VolumeAllowed(m, max_supply, weight) /\ holder[m] = w
      /\ i <= MostCards /\ card[i] = NoAccount
      /\ config' = [weights |-> Append(v, e), action |-> P!Sort]
      /\ card' = [card EXCEPT ![i] = new] /\ UNCHANGED <<proving, supply, strayed>>
  BY <1>1 DEF P!AddCardToPack
<1>4. pack' = [pack EXCEPT !.cards = i, !.total_weight = pack.total_weight + weight,
                           !.total_editions = pack.total_editions + max_supply]
  BY <1>1 DEF P!AddCardToPack
<1>5. max_supply \in Nat /\ weight \in Nat /\ i \in P!CardNumbers /\ i \in Nat
  BY <1>1, <1>2, <1>3, PackFacts DEF P!CardNumbers
<1>6. /\ pack' \in P!PackSet /\ pack'.cards = i /\ pack'.distribution = pack.distribution
      /\ pack'.total_editions = pack.total_editions + max_supply
  <2>1. pack.total_weight + weight \in Nat /\ pack.total_editions + max_supply \in Nat
    BY <1>2, <1>5
  <2>2. pack' \in P!PackSet
    BY <1>2, <1>4, <1>5, <2>1, PackEdited
  <2> QED BY <1>2, <1>4, <2>2 DEF P!PackSet
<1>7. /\ pack' # NoAccount /\ DOMAIN proving' = P!Editions
      /\ supply' \in [CardMasters -> Nat] /\ strayed' \in [CardMasters -> Nat]
  BY <1>3, <1>6, PackFacts DEF StockInv
<1>8. CASE ~ P!IsLimited
  BY <1>6, <1>7, <1>8, <1>2 DEF StockInv, P!IsLimited
<1>9. CASE P!IsLimited
  <2>1. PICK f \in {2, 3} : f = Counting /\ f = Counting'
    BY <1>6 DEF Counting
  <2>2. /\ v \in Seq(P!Weight) /\ NumbersOnce(v) /\ NothingDrawn
        /\ \A k \in 1 .. Len(v) : v[k][1] <= pack.cards
        /\ pack.total_editions = SumFunction(StockOf(v, f))
        /\ \A c \in P!CardNumbers : card[c] # NoAccount =>
             /\ card[c].max_supply = StockOf(v, f)[c] /\ card[c].max_supply # 0
             /\ Printable(c)
    BY <1>1, <1>3, <1>9, <2>1, ListNotOpened
  <2>3. e \in P!Weight /\ e[1] = i /\ e[f] = max_supply
    <3>1. CASE pack.distribution = "MaxSupply"
      BY <1>1, <1>5, <2>1, <3>1 DEF Counting, P!NewWeight, P!Weight
    <3>2. CASE pack.distribution = "Fixed"
      BY <1>1, <1>5, <2>1, <3>2 DEF Counting, P!NewWeight, P!Weight
    <3> QED BY <1>2, <1>9, <3>1, <3>2 DEF P!IsLimited, P!Distributions
  <2>4. \A k \in 1 .. Len(v) : v[k][1] # e[1]
    <3>1. \A k \in 1 .. Len(v) : v[k][1] \in P!CardNumbers
      BY <2>2, EntryParts
    <3> QED BY <1>1, <1>2, <2>2, <2>3, <3>1 DEF P!CardNumbers
  <2>5. PICK u : u = Append(v, e)
    OBVIOUS
  <2>6. /\ u \in Seq(P!Weight) /\ NumbersOnce(u) /\ LeavesOf(u, v, f, i, max_supply)
        /\ StockOf(v, f)[i] = 0
    <3>1. /\ Append(v, e) \in Seq(P!Weight) /\ NumbersOnce(Append(v, e))
          /\ LeavesOf(Append(v, e), v, f, e[1], e[f]) /\ LeftIn(v, f, e[1]) = 0
      BY <2>2, <2>3, <2>4, AppendSets
    <3> QED BY <1>5, <2>3, <2>5, <3>1 DEF StockOf
  <2>7. OneMoves(u, v, f, i, max_supply)
    BY <1>5, <2>2, <2>6, SumLeft
  <2>8. config' \in P!PackConfig /\ config'.weights = u /\ config'.action = P!Sort
    BY <1>3, <2>5, <2>6 DEF P!PackConfig, P!CleanUpActions
  <2>9. EditionsLeft' = StockOf(u, f)
    BY <2>1, <2>8 DEF EditionsLeft
  <2>10. ListCounts'
    <3>1. pack'.total_editions = SumFunction(StockOf(u, f))
      BY <1>5, <1>6, <2>2, <2>6, <2>7 DEF OneMoves
    <3>2. config'.action.do # "Change"
      BY <2>8 DEF P!Sort
    <3> QED BY <2>6, <2>8, <2>9, <3>1, <3>2 DEF ListCounts
  <2>11. /\ card'[i] = new /\ new.master = m /\ new.max_supply = max_supply
         /\ \A c \in P!CardNumbers \ {i} : card'[c] = card[c]
    BY <1>1, <1>3, <1>5 DEF PackInv, PackTyped
  <2>12. \A c : Waiting(c)' = 0 /\ P!OutstandingOf(c)' = 0
    <3>1. \A c : Waiting(c)' = 0
      BY <2>8 DEF Waiting, P!IsPending, P!Sort
    <3>2. \A c : P!OutstandingOf(c)' = 0
      BY <1>3, <2>2, NothingOut, OutstandingIs DEF NothingDrawn
    <3> QED BY <3>1, <3>2
  <2>13. max_supply # 0 /\ Printable(i)'
    <3>1. pack.distribution # "Unlimited"
      BY <1>9 DEF P!IsLimited
    <3>2. /\ max_supply # 0
          /\ CardMaxPrints[m] # NoAccount => max_supply <= CardMaxPrints[m] - supply[m]
      BY <1>3, <3>1 DEF P!VolumeAllowed
    <3>3. /\ supply[m] \in Nat /\ strayed[m] \in Nat
          /\ CardMaxPrints[m] # NoAccount => CardMaxPrints[m] \in Nat
      BY StockFacts DEF StockInv
    <3>4. /\ supply' = supply /\ strayed' = strayed
          /\ card'[i].master = m /\ card'[i].max_supply = max_supply
      BY <1>3, <2>11
    <3>5. max_supply \in Nat
      BY <1>5
    <3>6. CardMaxPrints[m] # NoAccount => supply[m] + max_supply <= CardMaxPrints[m] + strayed[m]
      BY <3>2, <3>3, <3>5
    <3> QED BY <3>2, <3>4, <3>6 DEF Printable
  <2>14. \A c \in P!CardNumbers \ {i} : card[c] # NoAccount => Printable(c)'
    BY <1>3, <2>2, <2>11 DEF Printable
  <2>15. CardsCount'
    <3>1. ASSUME NEW c \in P!CardNumbers, card'[c] # NoAccount
          PROVE  card'[c].max_supply = StockOf(u, f)[c] - 0 + 0 /\ Printable(c)'
      <4>1. CASE c = i
        BY <1>5, <2>7, <2>11, <2>13, <4>1 DEF OneMoves
      <4>2. CASE c # i
        <5>1. card'[c] = card[c] /\ StockOf(u, f)[c] = StockOf(v, f)[c]
          BY <2>7, <2>11, <4>2 DEF OneMoves
        <5>2. StockOf(v, f)[c] \in Nat
          BY <2>2, StockIsNat
        <5> QED BY <2>2, <2>14, <3>1, <4>2, <5>1, <5>2
      <4> QED BY <4>1, <4>2
    <3> QED BY <2>9, <2>12, <3>1 DEF CardsCount
  <2>16. NotOpened'
    <3>1. NothingDrawn'
      BY <1>3, <2>2 DEF NothingDrawn
    <3>2. \A c \in P!CardNumbers : card'[c] # NoAccount => card'[c].max_supply # 0
      BY <2>2, <2>11, <2>13
    <3>3. config' # NoAccount
      BY <2>8, StockFacts
    <3>4. \A k \in 1 .. Len(u) : u[k][1] <= i
      <4>1. ASSUME NEW k \in 1 .. Len(u) PROVE u[k][1] <= i
        <5>1. Len(u) = Len(v) + 1 /\ Len(v) \in Nat /\ u[Len(v) + 1] = e
          BY <2>2, <2>3, <2>5
        <5>2. CASE k = Len(v) + 1
          BY <1>5, <2>3, <5>1, <5>2
        <5>3. CASE k # Len(v) + 1
          <6>1. k \in 1 .. Len(v) /\ u[k] = v[k]
            BY <2>2, <2>3, <2>5, <5>1, <5>3
          <6>2. v[k][1] <= pack.cards /\ v[k][1] \in P!CardNumbers
            BY <2>2, <6>1, EntryParts
          <6> QED BY <1>1, <1>2, <6>1, <6>2 DEF P!CardNumbers
        <5> QED BY <5>2, <5>3
      <4> QED BY <4>1
    <3> QED BY <1>6, <2>8, <3>1, <3>2, <3>3, <3>4 DEF NotOpened
  <2>17. \A x \in P!Editions : proving'[x] = NoAccount
    BY <1>3, <2>2 DEF NothingDrawn
  <2> QED BY <1>7, <2>10, <2>15, <2>16, <2>17 DEF StockInv, AllTyped
<1> QED BY <1>8, <1>9

(* A clean-up takes the draw that waited for it off the list, or puts the   *)
(* list in order.                                                           *)
LEMMA CleanUpStock ==
  ASSUME PackInv, StockInv, P!CleanUp
  PROVE  StockInv'
<1>1. /\ pack \in P!PackSet /\ pack # NoAccount /\ pack.total_editions \in Nat
      /\ pack.distribution \in P!Distributions
  BY ExistingPack DEF P!CleanUp, P!PackSet
<1>2. /\ pack.state # "NotActivated" /\ config # NoAccount
      /\ UNCHANGED <<card, proving, supply, strayed>>
  BY DEF P!CleanUp, P!CleanUpTo, P!tokens
<1>3. PICK v, n : /\ config' = [weights |-> v, action |-> P!NoAction]
                  /\ pack' = [pack EXCEPT !.total_editions = n]
                  /\ \/ /\ config.action.do = "Change"
                        /\ P!CanChange(config.weights, config.action.card, config.action.value)
                        /\ pack.total_editions >= 1 /\ n = pack.total_editions - 1
                        /\ v = P!Changed(config.weights, config.action.card, config.action.value)
                     \/ /\ config.action.do = "Sort" /\ n = pack.total_editions
                        /\ v = P!Sorted(config.weights)
  BY DEF P!CleanUp, P!CleanUpTo
<1>4. n \in Nat
  BY <1>1, <1>3
<1>5. /\ pack' \in P!PackSet /\ pack'.distribution = pack.distribution
      /\ pack'.state = pack.state /\ pack'.total_editions = n /\ pack' # NoAccount
  <2>1. pack' \in P!PackSet /\ pack'.distribution = pack.distribution
        /\ pack'.state = pack.state /\ pack'.total_editions = n
    BY <1>1, <1>3, <1>4 DEF P!PackSet
  <2> QED BY <2>1, PackFacts
<1>6. CASE ~ P!IsLimited
  BY <1>1, <1>2, <1>5, <1>6 DEF StockInv, P!IsLimited
<1>7. CASE P!IsLimited
  <2>1. PICK f \in {2, 3} : f = Counting /\ f = Counting'
    BY <1>5 DEF Counting
  <2>2. PICK w : w = config.weights
    OBVIOUS
  <2>3. ListCounts /\ CardsCount /\ EditionsLeft = StockOf(w, f)
    BY <1>2, <1>7, <2>1, <2>2 DEF StockInv, EditionsLeft
  <2>4. /\ w \in Seq(P!Weight) /\ NumbersOnce(w) /\ config.action \in P!CleanUpActions
        /\ EditionsLeft \in [P!CardNumbers -> Nat]
    BY <2>2, <2>3, StockNow
  <2>5. pack.total_editions = SumFunction(StockOf(w, f))
    BY <2>3 DEF ListCounts
  <2>6. config'.weights = v /\ config'.action = P!NoAction /\ EditionsLeft' = StockOf(v, f)
    BY <1>3, <2>1 DEF EditionsLeft
  <2>7. \A c : Waiting(c)' = 0
    BY <2>6 DEF Waiting, P!IsPending, P!NoAction
  <2>8. \A c : P!OutstandingOf(c)' = P!OutstandingOf(c) /\ (Printable(c) => Printable(c)')
    BY <1>2, OutstandingIs DEF Printable
  <2>9. ASSUME v \in Seq(P!Weight), NumbersOnce(v), n = SumFunction(StockOf(v, f)),
               \A c \in P!CardNumbers : StockOf(v, f)[c] = EditionsLeft[c] - Waiting(c)
        PROVE  StockInv'
    <3>1. config' \in P!PackConfig
      BY <1>3, <2>9 DEF P!PackConfig, P!CleanUpActions
    <3>2. ListCounts'
      BY <1>5, <2>6, <2>9, <3>1 DEF ListCounts, P!NoAction
    <3>3. \A c \in P!CardNumbers : EditionsLeft'[c] \in Nat
      BY <2>1, <2>6, <2>9, StockIsNat
    <3>4. ASSUME NEW c \in P!CardNumbers, card[c] # NoAccount
          PROVE  /\ card[c].max_supply = EditionsLeft'[c] - 0 + P!OutstandingOf(c)
                 /\ Printable(c)
      <4>1. card[c].max_supply = EditionsLeft[c] - Waiting(c) + P!OutstandingOf(c) /\ Printable(c)
        BY <2>3, <3>4 DEF CardsCount
      <4>2. EditionsLeft'[c] = EditionsLeft[c] - Waiting(c)
        BY <2>6, <2>9
      <4>3. EditionsLeft'[c] \in Nat
        BY <3>3
      <4> QED BY <4>1, <4>2, <4>3
    <3>5. CardsCount'
      BY <1>2, <2>7, <2>8, <3>4 DEF CardsCount
    <3> QED BY <1>2, <1>5, <1>7, <3>2, <3>5 DEF StockInv, NotOpened
  <2>10. CASE config.action.do = "Change"
    <3>1. PICK c \in P!CardNumbers, x \in Nat :
            c = config.action.card /\ x = config.action.value
      BY <2>4, <2>10 DEF P!CleanUpActions, P!NoAction, P!Sort
    <3>2. c \in P!CardNumbers /\ x \in Nat
      OBVIOUS
    <3>3. /\ P!CanChange(w, c, x) /\ n = pack.total_editions - 1 /\ v = P!Changed(w, c, x)
      BY <1>3, <2>2, <2>10, <3>1
    <3>4. EditionsLeft[c] = x + 1
      BY <2>3, <2>10, <3>1 DEF ListCounts
    <3>5. pack.distribution \in {"MaxSupply", "Fixed"}
      BY <1>1, <1>7 DEF P!IsLimited, P!Distributions
    <3>6. v \in Seq(P!Weight) /\ NumbersOnce(v) /\ LeavesOf(v, w, f, c, x)
      <4>1. /\ P!Changed(w, c, x) \in Seq(P!Weight) /\ NumbersOnce(P!Changed(w, c, x))
            /\ LeavesOf(P!Changed(w, c, x), w, Counting, c, x)
        BY <2>4, <3>2, <3>3, <3>5, ChangedSets
      <4> QED BY <2>1, <3>3, <4>1
    <3>7. OneMoves(v, w, f, c, x)
      <4>1. w \in Seq(P!Weight) /\ NumbersOnce(w) /\ LeavesOf(v, w, f, c, x)
        BY <2>4, <3>6
      <4> QED BY <3>2, <4>1, SumLeft
    <3>8. n = SumFunction(StockOf(v, f))
      BY <2>3, <2>5, <3>2, <3>3, <3>4, <3>7 DEF OneMoves
    <3>9. \A d \in P!CardNumbers : StockOf(v, f)[d] = EditionsLeft[d] - Waiting(d)
      <4>1. \A d \in P!CardNumbers : Waiting(d) = IF d = c THEN 1 ELSE 0
        BY <2>10, <3>1 DEF Waiting, P!IsPending
      <4>2. \A d \in P!CardNumbers : EditionsLeft[d] \in Nat
        BY <2>4
      <4> QED BY <2>3, <3>2, <3>4, <3>7, <4>1, <4>2 DEF OneMoves
    <3> QED BY <2>9, <3>6, <3>8, <3>9
  <2>11. CASE config.action.do = "Sort"
    <3>1. n = pack.total_editions /\ v = P!Sorted(w)
      BY <1>3, <2>2, <2>11
    <3>2. v \in Seq(P!Weight) /\ NumbersOnce(v) /\ StockOf(v, f) = StockOf(w, f)
      BY <2>4, <3>1, SortedKeeps
    <3>3. \A d \in P!CardNumbers : StockOf(v, f)[d] = EditionsLeft[d] - Waiting(d)
      <4>1. \A d \in P!CardNumbers : Waiting(d) = 0
        BY <2>11 DEF Waiting, P!IsPending
      <4>2. \A d \in P!CardNumbers : EditionsLeft[d] \in Nat
        BY <2>4
      <4> QED BY <2>3, <3>2, <4>1, <4>2
    <3> QED BY <2>5, <2>9, <3>1, <3>2, <3>3
  <2> QED BY <1>3, <2>10, <2>11
<1> QED BY <1>6, <1>7

(* A draw counts one more of a card and waits for the list to follow.       *)
LEMMA RequestStock ==
  ASSUME PackInv, StockInv, NEW w \in Claimants, NEW e \in P!Editions,
         NEW i \in P!VoucherNumbers, NEW bound \in P!Bounds,
         P!RequestCardForRedeem(w, e, i, bound)
  PROVE  StockInv'
<1>1. /\ pack \in P!PackSet /\ pack # NoAccount /\ config # NoAccount
      /\ pack.distribution \in P!Distributions
  BY ExistingPack DEF P!RequestCardForRedeem, P!RequestCardForRedeemWith, P!PackSet
<1>2. PICK process, drawn, c : /\ process = P!ProvingProcessOf(w, e)
                               /\ drawn = P!SelectWeightedRandom(config.weights, bound)
                               /\ c = drawn[1]
  OBVIOUS
<1>3. /\ config.action = P!NoAction /\ pack.state = "Activated" /\ config.weights # << >>
      /\ proving' = [proving EXCEPT ![e] =
                       [process EXCEPT !.to_redeem = P!OneMore(process.to_redeem, c)]]
      /\ UNCHANGED <<pack, card, supply, strayed>>
  BY <1>2 DEF P!RequestCardForRedeem, P!RequestCardForRedeemWith
<1>4. /\ DOMAIN proving = P!Editions /\ DOMAIN proving' = P!Editions
      /\ supply' \in [CardMasters -> Nat] /\ strayed' \in [CardMasters -> Nat]
  BY <1>3 DEF StockInv
<1>5. CASE ~ P!IsLimited
  BY <1>1, <1>3, <1>4, <1>5 DEF StockInv, P!IsLimited
<1>6. CASE P!IsLimited
  <2>1. PICK f \in {2, 3} : f = Counting /\ f = Counting'
    BY <1>3 DEF Counting
  <2>2. PICK list : list = config.weights
    OBVIOUS
  <2>3. ListCounts /\ CardsCount /\ EditionsLeft = StockOf(list, f) /\ AllTyped(proving)
    BY <1>1, <1>6, <2>1, <2>2 DEF StockInv, EditionsLeft, AllTyped
  <2>4. /\ list \in Seq(P!Weight) /\ NumbersOnce(list) /\ config \in P!PackConfig
        /\ EditionsLeft \in [P!CardNumbers -> Nat]
    BY <2>2, <2>3, StockNow
  <2>5. drawn \in P!Weight /\ c \in P!CardNumbers /\ EditionsLeft[c] = drawn[f]
    BY <1>2, <1>3, <2>2, <2>3, <2>4, DrawnIsThere
  <2>6. drawn[f] \in Nat
    BY <2>4, <2>5
  <2>7. drawn[f] >= 1 /\ config' = [config EXCEPT !.action = P!Change(c, drawn[f] - 1)]
    <3>1. CASE pack.distribution = "MaxSupply"
      BY <1>2, <2>1, <3>1 DEF Counting, P!RequestCardForRedeem, P!RequestCardForRedeemWith
    <3>2. CASE pack.distribution = "Fixed"
      BY <1>2, <2>1, <3>2 DEF Counting, P!RequestCardForRedeem, P!RequestCardForRedeemWith
    <3> QED BY <1>1, <1>6, <3>1, <3>2 DEF P!IsLimited, P!Distributions
  <2>8. /\ config' \in P!PackConfig /\ config'.weights = list
        /\ config'.action = P!Change(c, drawn[f] - 1)
    <3>1. P!Change(c, drawn[f] - 1) \in P!CleanUpActions
      BY <2>5, <2>6, <2>7 DEF P!Change, P!CleanUpActions
    <3>2. PICK a \in P!CleanUpActions : a = P!Change(c, drawn[f] - 1)
      BY <3>1
    <3>3. config' = [config EXCEPT !.action = a]
      BY <2>7, <3>2
    <3> QED BY <2>2, <2>4, <3>2, <3>3 DEF P!PackConfig
  <2>9. EditionsLeft' = EditionsLeft
    BY <2>1, <2>3, <2>8 DEF EditionsLeft
  <2>10. ListCounts'
    <3>1. /\ config'.action.do = "Change" /\ config'.action.card = c
          /\ config'.action.value = drawn[f] - 1
      BY <2>8 DEF P!Change
    <3>2. EditionsLeft[c] = drawn[f] - 1 + 1
      BY <2>5, <2>6
    <3>3. pack.total_editions = SumFunction(EditionsLeft)
      BY <2>3 DEF ListCounts
    <3> QED BY <1>3, <2>4, <2>8, <2>9, <3>1, <3>2, <3>3 DEF ListCounts
  <2>11. PICK S \in SUBSET P!CardNumbers : process \in P!ProvingProcess(S)
    <3>1. CASE proving[e] = NoAccount
      <4>1. process = [wallet |-> w, exhausted |-> FALSE, redeemed |-> 0, to_redeem |-> << >>]
        BY <1>2, <3>1 DEF P!ProvingProcessOf, P!NewProvingProcess
      <4>2. << >> \in [{} -> Nat]
        OBVIOUS
      <4>3. process \in P!ProvingProcess({})
        BY <4>1, <4>2 DEF P!ProvingProcess
      <4> QED BY <4>3
    <3>2. CASE proving[e] # NoAccount
      BY <1>2, <2>3, <3>2 DEF AllTyped, P!IsProvingProcess, P!ProvingProcessOf
    <3> QED BY <3>1, <3>2
  <2>12. PICK counts : counts = P!OneMore(process.to_redeem, c)
    OBVIOUS
  <2>13. process.to_redeem \in [S -> Nat] /\ DOMAIN process.to_redeem = S
    BY <2>11 DEF P!ProvingProcess
  <2>14. /\ counts \in [S \cup {c} -> Nat]
         /\ counts[c] = (IF c \in S THEN process.to_redeem[c] ELSE 0) + 1
         /\ \A d \in S \ {c} : counts[d] = process.to_redeem[d]
    BY <2>12, <2>13 DEF P!OneMore
  <2>15. PICK new : new = [process EXCEPT !.to_redeem = counts]
    OBVIOUS
  <2>16. new \in P!ProvingProcess(S \cup {c}) /\ new.to_redeem = counts
    BY <2>11, <2>14, <2>15 DEF P!ProvingProcess
  <2>17. S \cup {c} \in SUBSET P!CardNumbers
    BY <2>5
  <2>18. new # NoAccount /\ P!IsProvingProcess(new)
    BY <2>16, <2>17, StockFacts DEF P!IsProvingProcess
  <2>19. proving'[e] = new /\ \A x \in P!Editions \ {e} : proving'[x] = proving[x]
    BY <1>3, <1>4, <2>12, <2>15
  <2>20. AllTyped(proving')
    BY <2>3, <2>18, <2>19 DEF AllTyped
  <2>21. \A d : Drawn(proving, e, d) = IF d \in S THEN process.to_redeem[d] ELSE 0
    <3>1. CASE proving[e] = NoAccount
      <4>1. DOMAIN process.to_redeem = {}
        BY <1>2, <3>1 DEF P!ProvingProcessOf, P!NewProvingProcess
      <4> QED BY <2>13, <3>1, <4>1 DEF Drawn
    <3>2. CASE proving[e] # NoAccount
      BY <1>2, <2>13, <3>2 DEF Drawn, P!ProvingProcessOf
    <3> QED BY <3>1, <3>2
  <2>22. \A d : Drawn(proving', e, d) = IF d \in S \cup {c} THEN counts[d] ELSE 0
    BY <2>14, <2>16, <2>18, <2>19 DEF Drawn
  <2>23. TotalDrawn(proving', c) = TotalDrawn(proving, c) + 1
    <3>1. Drawn(proving', e, c) = Drawn(proving, e, c) + 1
      BY <2>14, <2>21, <2>22
    <3>2. 1 \in Int
      OBVIOUS
    <3> QED BY <2>3, <2>19, <2>20, <3>1, <3>2, DrawnMoves
  <2>24. ASSUME NEW d \in P!CardNumbers \ {c} PROVE TotalDrawn(proving', d) = TotalDrawn(proving, d)
    <3>1. Drawn(proving', e, d) = Drawn(proving, e, d)
      BY <2>14, <2>21, <2>22
    <3>2. \A x \in P!Editions : Drawn(proving', x, d) = Drawn(proving, x, d)
      BY <2>19, <3>1 DEF Drawn
    <3> QED BY <3>2, DrawnStays
  <2>25. \A d \in P!CardNumbers : /\ Waiting(d) = 0
                                  /\ Waiting(d)' = IF d = c THEN 1 ELSE 0
    BY <1>3, <2>8 DEF Waiting, P!IsPending, P!NoAction, P!Change
  <2>26. CardsCount'
    <3>1. ASSUME NEW d \in P!CardNumbers, card[d] # NoAccount
          PROVE  /\ card[d].max_supply = EditionsLeft[d] - Waiting(d)' + TotalDrawn(proving', d)
                 /\ Printable(d)
      <4>1. card[d].max_supply = EditionsLeft[d] - 0 + TotalDrawn(proving, d) /\ Printable(d)
        BY <2>3, <2>25, <3>1, OutstandingIs DEF CardsCount
      <4>2. EditionsLeft[d] \in Nat /\ TotalDrawn(proving, d) \in Nat
        BY <2>3, <2>4, DrawnNat
      <4>3. CASE d = c
        BY <2>23, <2>25, <4>1, <4>2, <4>3
      <4>4. CASE d # c
        BY <2>24, <2>25, <4>1, <4>2, <4>4
      <4> QED BY <4>3, <4>4
    <3>2. \A d : Printable(d) => Printable(d)'
      BY <1>3 DEF Printable
    <3> QED BY <1>3, <2>9, <3>1, <3>2, OutstandingIs DEF CardsCount
  <2> QED BY <1>1, <1>3, <1>4, <2>10, <2>20, <2>26 DEF StockInv, AllTyped, NotOpened
<1> QED BY <1>5, <1>6

(* A claim takes one off what the card's account has left, what the voucher *)
(* has drawn and what the master can still print.                           *)
LEMMA ClaimStock ==
  ASSUME PackInv, StockInv, NEW e \in P!Editions, NEW c \in P!CardNumbers,
         NEW u \in CardMasters \cup {NoAccount}, P!ClaimPack(e, c, u)
  PROVE  StockInv'
<1>1. /\ pack \in P!PackSet /\ pack # NoAccount /\ P!Exists
  BY ExistingPack DEF P!ClaimPack, P!ClaimPackOf
<1>2. PICK m, redeemed, counts :
        /\ m = card[c].master /\ redeemed = proving[e].redeemed + 1
        /\ counts = [proving[e].to_redeem EXCEPT ![c] = proving[e].to_redeem[c] - 1]
  OBVIOUS
<1>3. /\ proving[e] # NoAccount /\ card[c] # NoAccount
      /\ c \in DOMAIN proving[e].to_redeem /\ proving[e].to_redeem[c] >= 1
      /\ supply' = P!OneMorePrint(u)
      /\ strayed' = [x \in CardMasters |-> strayed[x] + (IF x = u /\ x # m THEN 1 ELSE 0)]
      /\ UNCHANGED <<pack, config>>
  BY <1>2 DEF P!ClaimPack, P!ClaimPackOf
<1>4. m \in CardMasters /\ card[c] \in P!PackCard
  BY <1>2, <1>3 DEF PackInv, PackTyped, P!PackCard
<1>5. /\ supply' \in [CardMasters -> Nat] /\ strayed' \in [CardMasters -> Nat]
      /\ supply[m] \in Nat /\ strayed[m] \in Nat
      /\ supply'[m] <= supply[m] + 1 /\ strayed'[m] = strayed[m]
      /\ \A x \in CardMasters \ {m} :
           /\ supply[x] \in Nat /\ strayed[x] \in Nat
           /\ supply'[x] - strayed'[x] = supply[x] - strayed[x]
  BY <1>3, <1>4 DEF StockInv, P!OneMorePrint
<1>6. DOMAIN proving = P!Editions /\ DOMAIN proving' = P!Editions
  BY DEF StockInv, P!ClaimPack, P!ClaimPackOf
<1>7. CASE ~ P!IsLimited
  BY <1>1, <1>3, <1>5, <1>6, <1>7 DEF StockInv, P!IsLimited
<1>8. CASE P!IsLimited
  <2>1. AllTyped(proving) /\ (config # NoAccount => ListCounts /\ CardsCount)
    BY <1>8 DEF StockInv, AllTyped
  <2>2. PICK process, exhausted : /\ process = proving[e]
                                  /\ exhausted = (process.exhausted \/ redeemed = pack.allowed)
    OBVIOUS
  <2>3. PICK new : new = [process EXCEPT !.redeemed = redeemed, !.to_redeem = counts,
                                         !.exhausted = exhausted]
    OBVIOUS
  <2>4. PICK S \in SUBSET P!CardNumbers : process \in P!ProvingProcess(S)
    BY <1>3, <2>1, <2>2 DEF AllTyped, P!IsProvingProcess
  <2>5. /\ process.to_redeem \in [S -> Nat] /\ DOMAIN process.to_redeem = S
        /\ process.redeemed \in Nat /\ process.exhausted \in BOOLEAN
    BY <2>4 DEF P!ProvingProcess
  <2>6. /\ c \in S /\ counts \in [S -> Nat] /\ counts[c] = process.to_redeem[c] - 1
        /\ process.to_redeem[c] \in Nat
        /\ \A d \in S \ {c} : counts[d] = process.to_redeem[d]
    BY <1>2, <1>3, <2>2, <2>5
  <2>7. proving' = [proving EXCEPT ![e] = new]
    BY <1>2, <2>2, <2>3 DEF P!ClaimPack, P!ClaimPackOf
  <2>8. redeemed \in Nat /\ exhausted \in BOOLEAN
    BY <1>2, <2>2, <2>5
  <2>9. new \in P!ProvingProcess(S) /\ new.to_redeem = counts
    BY <2>3, <2>4, <2>6, <2>8 DEF P!ProvingProcess
  <2>10. new # NoAccount /\ P!IsProvingProcess(new)
    BY <2>9, StockFacts DEF P!IsProvingProcess
  <2>11. proving'[e] = new /\ \A x \in P!Editions \ {e} : proving'[x] = proving[x]
    BY <1>6, <2>7
  <2>12. AllTyped(proving')
    BY <2>1, <2>10, <2>11 DEF AllTyped
  <2>13. /\ \A d : Drawn(proving, e, d) = IF d \in S THEN process.to_redeem[d] ELSE 0
         /\ \A d : Drawn(proving', e, d) = IF d \in S THEN counts[d] ELSE 0
    BY <1>3, <2>2, <2>5, <2>6, <2>9, <2>10, <2>11 DEF Drawn
  <2>14. TotalDrawn(proving', c) = TotalDrawn(proving, c) + (0 - 1)
    <3>1. Drawn(proving', e, c) = Drawn(proving, e, c) + (0 - 1)
      BY <2>6, <2>13
    <3>2. 0 - 1 \in Int
      OBVIOUS
    <3> QED BY <2>1, <2>11, <2>12, <3>1, <3>2, DrawnMoves
  <2>15. ASSUME NEW d \in P!CardNumbers \ {c} PROVE TotalDrawn(proving', d) = TotalDrawn(proving, d)
    <3>1. Drawn(proving', e, d) = Drawn(proving, e, d)
      BY <2>6, <2>13
    <3>2. \A x \in P!Editions : Drawn(proving', x, d) = Drawn(proving, x, d)
      BY <2>11, <3>1 DEF Drawn
    <3> QED BY <3>2, DrawnStays
  <2>16. /\ card[c].max_supply >= 1
         /\ card' = [card EXCEPT ![c].max_supply = card[c].max_supply - 1]
    BY <1>1, <1>8 DEF P!ClaimPack, P!ClaimPackOf, P!IsLimited
  <2>17. /\ card'[c].max_supply = card[c].max_supply - 1 /\ card'[c].master = m
         /\ card[c].max_supply \in Nat /\ card[c].master = m
         /\ \A d \in P!CardNumbers \ {c} : card'[d] = card[d]
    BY <1>2, <1>4, <2>16 DEF PackInv, PackTyped, P!PackCard
  <2>18. /\ Counting' = Counting /\ EditionsLeft' = EditionsLeft
         /\ \A d : Waiting(d)' = Waiting(d) /\ Waiting(d) \in Nat
    BY <1>3 DEF Counting, EditionsLeft, Waiting, P!IsPending
  <2>19. ListCounts => ListCounts'
    BY <1>3, <2>18 DEF ListCounts
  <2>20. Printable(c) => Printable(c)'
    <3>1. CardMaxPrints[m] # NoAccount => CardMaxPrints[m] \in Nat
      BY <1>4, StockFacts
    <3>2. supply'[m] \in Nat /\ card[c].max_supply - 1 \in Int
      BY <1>4, <1>5, <2>17
    <3> QED BY <1>5, <2>16, <2>17, <3>1, <3>2 DEF Printable
  <2>21. \A d \in P!CardNumbers \ {c} : card[d] # NoAccount =>
            card[d].master \in CardMasters \ {m} /\ (Printable(d) => Printable(d)')
    <3>1. \A d \in P!CardNumbers \ {c} : card[d] # NoAccount => card[d].master \in CardMasters \ {m}
      BY <1>2, <1>3 DEF PackInv, PackTyped, P!PackCard, MastersKept, P!MastersKept
    <3>2. ASSUME NEW d \in P!CardNumbers \ {c}, card[d] # NoAccount, Printable(d) PROVE Printable(d)'
      <4>1. PICK x \in CardMasters \ {m} : x = card[d].master
        BY <3>1, <3>2
      <4>2. card'[d] = card[d] /\ card[d].max_supply \in Nat
        BY <2>17, <3>2 DEF PackInv, PackTyped, P!PackCard
      <4>3. CardMaxPrints[x] # NoAccount => CardMaxPrints[x] \in Nat
        BY StockFacts
      <4>4. supply'[x] \in Nat /\ strayed'[x] \in Nat
        BY <1>5
      <4> QED BY <1>5, <3>2, <4>1, <4>2, <4>3, <4>4 DEF Printable
    <3> QED BY <3>1, <3>2
  <2>22. ASSUME ListCounts, CardsCount PROVE CardsCount'
    <3>1. ASSUME NEW d \in P!CardNumbers, card'[d] # NoAccount
          PROVE  /\ card'[d].max_supply = EditionsLeft[d] - Waiting(d) + TotalDrawn(proving', d)
                 /\ Printable(d)'
      <4>1. EditionsLeft[d] \in Nat /\ TotalDrawn(proving, d) \in Nat /\ Waiting(d) \in Nat
        BY <2>1, <2>18, <2>22, StockNow, DrawnNat
      <4>2. card[d] # NoAccount
        BY <1>3, <2>17, <3>1
      <4>3. card[d].max_supply = EditionsLeft[d] - Waiting(d) + TotalDrawn(proving, d) /\ Printable(d)
        BY <2>22, <4>2, OutstandingIs DEF CardsCount
      <4>4. CASE d = c
        BY <2>14, <2>17, <2>20, <4>1, <4>3, <4>4
      <4>5. CASE d # c
        BY <2>15, <2>17, <2>21, <4>2, <4>3, <4>5
      <4> QED BY <4>4, <4>5
    <3> QED BY <2>18, <3>1, OutstandingIs DEF CardsCount
  <2>23. pack.state # "NotActivated"
    BY <1>3, <1>8 DEF StockInv, NotOpened, NothingDrawn
  <2> QED BY <1>1, <1>3, <1>5, <1>6, <2>1, <2>12, <2>19, <2>22, <2>23 DEF StockInv, AllTyped, NotOpened
<1> QED BY <1>7, <1>8

(* A card that is deleted is no longer counted; before the pack was opened  *)
(* none can be.                                                             *)
LEMMA DeleteCardStock ==
  ASSUME PackInv, StockInv, NEW w \in Claimants, NEW to \in PackHeirs, P!DeletePackCard(w, to)
  PROVE  StockInv'
<1>1. PICK i : i = pack.cards
  OBVIOUS
<1>2. pack \in P!PackSet /\ pack # NoAccount
  BY ExistingPack DEF P!DeletePackCard, P!DeletePackCardAt, P!Authority
<1>3. /\ i \in P!CardNumbers /\ card[i] # NoAccount /\ card[i].max_supply = 0 /\ i >= 1
      /\ card' = [card EXCEPT ![i] = NoAccount]
      /\ pack' = [pack EXCEPT !.cards = pack.cards - 1] /\ UNCHANGED <<config, proving, supply, strayed>>
  BY <1>1 DEF P!DeletePackCard, P!DeletePackCardAt
<1>4. /\ pack' \in P!PackSet /\ pack'.distribution = pack.distribution
      /\ pack'.total_editions = pack.total_editions /\ pack'.state = pack.state
  BY <1>1, <1>2, <1>3 DEF P!PackSet
<1>5. /\ pack' # NoAccount /\ DOMAIN proving' = P!Editions
      /\ supply' \in [CardMasters -> Nat] /\ strayed' \in [CardMasters -> Nat]
  BY <1>3, <1>4, PackFacts DEF StockInv
<1>6. CASE ~ P!IsLimited
  BY <1>2, <1>4, <1>5, <1>6 DEF StockInv, P!IsLimited
<1>7. CASE P!IsLimited
  <2>1. pack.state # "NotActivated"
    BY <1>3, <1>7 DEF StockInv, NotOpened
  <2>2. /\ Counting' = Counting /\ EditionsLeft' = EditionsLeft
        /\ \A d : Waiting(d)' = Waiting(d) /\ P!OutstandingOf(d)' = P!OutstandingOf(d)
    BY <1>3, <1>4, OutstandingIs DEF Counting, EditionsLeft, Waiting, P!IsPending
  <2>3. ListCounts => ListCounts'
    BY <1>3, <1>4, <2>2 DEF ListCounts
  <2>4. card'[i] = NoAccount /\ \A d \in P!CardNumbers \ {i} : card'[d] = card[d]
    BY <1>3 DEF PackInv, PackTyped
  <2>5. CardsCount => CardsCount'
    BY <1>3, <2>2, <2>4 DEF CardsCount, Printable
  <2> QED BY <1>2, <1>3, <1>4, <1>5, <1>7, <2>1, <2>3, <2>5 DEF StockInv, NotOpened
<1> QED BY <1>6, <1>7

LEMMA DeleteConfigStock ==
  ASSUME PackInv, StockInv, NEW w \in Claimants, P!DeletePackConfig(w)
  PROVE  StockInv'
<1>1. /\ pack # NoAccount /\ pack.state = "Ended" /\ config' = NoAccount
      /\ UNCHANGED <<pack, card, proving, supply, strayed>>
  BY DEF P!DeletePackConfig, P!Emptied, P!Authority, P!Exists, P!tokens
<1> QED BY <1>1 DEF StockInv, P!IsLimited, NotOpened

(* A claim from another pack takes a print from a card's master and counts  *)
(* it as strayed; a master outside of the program is no card's.             *)
LEMMA PrintElsewhereStock ==
  ASSUME PackInv, StockInv, NEW m \in CardMasters, P!PrintElsewhere(m) \/ P!ClaimElsewhere(m)
  PROVE  StockInv'
<1>1. /\ supply' = [supply EXCEPT ![m] = supply[m] + 1]
      /\ \/ holder[m] \in Claimants /\ strayed' = strayed
         \/ strayed' = [strayed EXCEPT ![m] = strayed[m] + 1]
      /\ UNCHANGED <<pack, config, card, proving>>
  BY DEF P!PrintElsewhere, P!ClaimElsewhere, P!OneMorePrint, P!accounts, StockInv
<1>2. /\ supply \in [CardMasters -> Nat] /\ strayed \in [CardMasters -> Nat]
      /\ supply' \in [CardMasters -> Nat] /\ strayed' \in [CardMasters -> Nat]
      /\ \A x \in CardMasters \ {m} : supply'[x] = supply[x] /\ strayed'[x] = strayed[x]
      /\ holder[m] \notin Claimants => supply'[m] - strayed'[m] = supply[m] - strayed[m]
  BY <1>1 DEF StockInv
<1>3. ASSUME NEW c \in P!CardNumbers, card[c] # NoAccount, card[c].master = m
      PROVE  holder[m] \notin Claimants
  BY <1>3, PackFacts DEF PackInv, PackTyped, MastersKept, P!MastersKept
<1>4. /\ Counting' = Counting /\ EditionsLeft' = EditionsLeft
      /\ \A d : Waiting(d)' = Waiting(d) /\ P!OutstandingOf(d)' = P!OutstandingOf(d)
  BY <1>1, OutstandingIs DEF Counting, EditionsLeft, Waiting, P!IsPending
<1>5. ListCounts => ListCounts'
  BY <1>1, <1>4 DEF ListCounts
<1>6. ASSUME NEW c \in P!CardNumbers, card[c] # NoAccount, Printable(c) PROVE Printable(c)'
  <2>1. PICK x \in CardMasters : x = card[c].master
    BY <1>6 DEF PackInv, PackTyped, P!PackCard
  <2>2. supply'[x] - strayed'[x] = supply[x] - strayed[x]
    BY <1>2, <1>3, <1>6, <2>1
  <2>3. card'[c] = card[c] /\ card[c].max_supply \in Nat
    BY <1>1, <1>6 DEF PackInv, PackTyped, P!PackCard
  <2>4. CardMaxPrints[x] # NoAccount => CardMaxPrints[x] \in Nat
    BY StockFacts
  <2>5. supply[x] \in Nat /\ strayed[x] \in Nat /\ supply'[x] \in Nat /\ strayed'[x] \in Nat
    BY <1>2
  <2> QED BY <1>6, <2>1, <2>2, <2>3, <2>4, <2>5 DEF Printable
<1>7. CardsCount => CardsCount'
  BY <1>1, <1>4, <1>6 DEF CardsCount
<1> QED BY <1>1, <1>2, <1>5, <1>7 DEF StockInv, P!IsLimited, NotOpened, NothingDrawn

LEMMA StockInvInit == P!Init => StockInv
BY DEF P!Init, StockInv, P!IsLimited, NothingDrawn

LEMMA StockInvStep == PackInv /\ PackInv' /\ StockInv /\ [P!Next]_P!vars => StockInv'
<1> SUFFICES ASSUME PackInv, PackInv', StockInv, [P!Next]_P!vars PROVE StockInv'
  OBVIOUS
<1>1. ASSUME NEW w \in Claimants, P!Authorities(w) PROVE StockInv'
  <2>1. CASE P!DeletePackConfig(w)
    BY <2>1, DeleteConfigStock
  <2>2. CASE \E m \in CardMasters, max_supply \in CardSupplies, weight \in CardWeights :
               P!AddCardToPack(w, m, max_supply, weight)
    BY <2>2, AddCardStock
  <2>3. CASE \E args \in PackArguments : P!InitPack(w, args)
    BY <2>3, InitPackStock
  <2>4. CASE \E to \in PackHeirs : P!DeletePackCard(w, to)
    BY <2>4, DeleteCardStock
  <2> QED BY <1>1, <2>1, <2>2, <2>3, <2>4, FieldsKeepStock DEF P!Authorities
<1>2. ASSUME NEW e \in P!Editions, P!Openers(e) PROVE StockInv'
  <2>1. CASE \E c \in P!CardNumbers, m \in CardMasters \cup {NoAccount} : P!ClaimPack(e, c, m)
    BY <2>1, ClaimStock
  <2>2. ASSUME NEW w \in Claimants, NEW i \in P!VoucherNumbers, NEW bound \in P!Bounds,
               P!RequestCardForRedeem(w, e, i, bound)
        PROVE  StockInv'
    BY <2>2, RequestStock
  <2> QED BY <1>2, <2>1, <2>2 DEF P!Openers
<1>3. CASE P!CleanUp
  BY <1>3, CleanUpStock
<1>4. CASE \E m \in CardMasters : P!PrintElsewhere(m) \/ P!ClaimElsewhere(m)
  BY <1>4, PrintElsewhereStock
<1>5. CASE P!Tick
  BY <1>5, StockUndisturbed DEF P!Tick, P!accounts, P!tokens
<1>6. CASE UNCHANGED P!vars
  BY <1>6, StockUndisturbed DEF P!vars, P!accounts, P!tokens
<1> QED BY <1>1, <1>2, <1>3, <1>4, <1>5, <1>6 DEF P!Next

LEMMA StockIsCovered == StockInv => ClaimsCovered
<1> SUFFICES ASSUME StockInv, P!IsLimited, config # NoAccount
             PROVE  /\ pack.total_editions =
                         P!SumFunctionOnSet([c \in P!CardNumbers |-> P!Left(c)], P!CardNumbers)
                    /\ \A c \in P!CardNumbers : card[c] # NoAccount =>
                         /\ card[c].max_supply =
                              P!Left(c) - (IF P!IsPending(c) THEN 1 ELSE 0) + P!OutstandingOf(c)
                         /\ CardMaxPrints[card[c].master] # NoAccount =>
                              supply[card[c].master] + card[c].max_supply
                                <= CardMaxPrints[card[c].master] + strayed[card[c].master]
  BY DEF ClaimsCovered, P!ClaimsCovered
<1>1. ListCounts /\ CardsCount
  BY DEF StockInv
<1>2. \A c \in P!CardNumbers : P!Left(c) = EditionsLeft[c]
  BY <1>1, StockNow, LeftIs DEF EditionsLeft, StockOf
<1>3. EditionsLeft \in [P!CardNumbers -> Nat]
  BY <1>1, StockNow
<1>4. EditionsLeft = [c \in P!CardNumbers |-> P!Left(c)]
  BY <1>2, <1>3
<1>5. SumFunction(EditionsLeft) = SumFunctionOnSet(EditionsLeft, P!CardNumbers)
  BY <1>3 DEF SumFunction
<1>6. pack.total_editions =
        P!SumFunctionOnSet([c \in P!CardNumbers |-> P!Left(c)], P!CardNumbers)
  BY <1>1, <1>4, <1>5, SameSum DEF ListCounts
<1> QED BY <1>1, <1>2, <1>6 DEF CardsCount, Waiting, Printable

(* What is drawn from a pack can be claimed: its list of weights, the       *)
(* accounts of its cards and its number of editions count one stock, in     *)
(* which the draws not yet claimed are reserved, and the masters can print  *)
(* all of it but for the prints that claims of other cards took from them.  *)
THEOREM ClaimsAreCovered == P!Spec => []ClaimsCovered
<1>1. P!Init => PackInv /\ StockInv
  BY PackInvInit, StockInvInit
<1>2. PackInv /\ StockInv /\ [P!Next]_P!vars => (PackInv /\ StockInv)'
  BY PackInvStep, StockInvStep
<1> QED BY <1>1, <1>2, StockIsCovered, PTL DEF P!Spec
=============================================================================
