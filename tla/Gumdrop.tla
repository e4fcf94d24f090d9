------------------------------ MODULE Gumdrop ------------------------------
(***************************************************************************)
(* The gumdrop program (src/gumdrop/program/src/lib.rs), for the           *)
(* distributor of one base key.                                            *)
(*                                                                         *)
(* A distributor is a Merkle root whose leaves say how much of a resource  *)
(* (a token, an NFT of a candy machine, a print of a master edition) the   *)
(* holder of a secret may claim.  What was claimed is kept per index of a  *)
(* leaf in an account under one of two prefixes, outside the distributor:  *)
(* closing the distributor and creating it again with another root leaves  *)
(* those accounts where they are.                                          *)
(*                                                                         *)
(* A root is the set of its leaves: the hash is taken to be injective.     *)
(***************************************************************************)
EXTENDS Integers, FiniteSets

CONSTANTS
  Claimants,
  Secrets,      \* what a leaf names its claimant by: a wallet or the hash of a handle
  Holder,       \* the wallet behind each secret
  Otp,          \* the key of the service that sends one-time passwords
  NoTemporal,   \* Pubkey::default(): the creator asks for no temporal signer
  Indexes,
  Mints,        \* mints held by the distributor, those of master editions included
  Candies,      \* configurations of candy machines
  Nonces,       \* numbers of prints
  NoNonce,
  Distributors,        \* the distributors the creator publishes: a tree, a temporal signer
  Supply,       \* of each mint
  Stock,        \* NFTs in each candy machine
  OpenSales,    \* candies whose machine sells to everybody
  NoAccount

Resources == Mints \cup Candies
Leaves == [index : Indexes, secret : Secrets, resource : Resources, amount : Nat,
           nonce : Nonces \cup {NoNonce}]

Temporals == Claimants \cup {Otp, NoTemporal}
MerkleDistributor == [root : SUBSET Leaves, temporal : Temporals]

\* A creator publishes trees in which an index names one leaf.
ASSUME DropsAssumption ==
  /\ Distributors \subseteq MerkleDistributor
  /\ \A d \in Distributors : \A e, f \in d.root : e.index = f.index => e = f
ASSUME HolderAssumption ==
  /\ Claimants \subseteq Secrets /\ Holder \in [Secrets -> Claimants]
  /\ \A w \in Claimants : Holder[w] = w
ASSUME KindsAssumption == Mints \cap Candies = {} /\ NoNonce \notin Nonces /\ Otp \notin Claimants
ASSUME SupplyAssumption == Supply \in [Mints -> Nat] /\ Stock \in [Candies -> Nat]

CLAIM_COUNT == "ClaimCount"
CLAIM_STATUS == "ClaimStatus"
Prefixes == {CLAIM_COUNT, CLAIM_STATUS}

ClaimStatus == [kind : {"status"}, amount : Nat, claimant : Claimants]
ClaimCount == [kind : {"count"}, count : Nat, claimant : Claimants]
ClaimProof == [kind : {"proof"}, amount : Nat, count : Nat, claimant : Claimants, resource : Resources]

ASSUME NoneAssumption ==
  NoAccount \notin Distributors \cup ClaimStatus \cup ClaimCount \cup ClaimProof

VARIABLES
  distributor,  \* NoAccount or the distributor
  claims,       \* claims[prefix][index]: NoAccount or the account at that address
  purse,        \* purse[mint]: in the distributor's token account
  pocket,       \* pocket[mint]: with the creator
  left,         \* left[candy]: NFTs the machine can still mint
  wallet_runs,  \* the candies whose machine's authority is the distributor's wallet
  printed,      \* the prints made, <<mint of the master, number>>
  stranded,     \* prints whose update authority is the distributor's wallet
  published,    \* history: the distributors created
  handed        \* history: handed[prefix][index][resource], the units handed out
gumdropVars == <<distributor, claims, purse, pocket, left, wallet_runs, printed, stranded, published, handed>>

GumdropInit ==
  /\ distributor = NoAccount
  /\ claims = [prefix \in Prefixes |-> [i \in Indexes |-> NoAccount]]
  /\ purse = [m \in Mints |-> 0]
  /\ pocket = Supply
  /\ left = Stock
  /\ wallet_runs = Candies
  /\ printed = {}
  /\ stranded = 0
  /\ published = {}
  /\ handed = [prefix \in Prefixes |-> [i \in Indexes |-> [r \in Resources |-> 0]]]

-----------------------------------------------------------------------------
NewDistributor(d) ==
  /\ distributor = NoAccount
  /\ distributor' = d
  /\ published' = published \cup {d}
  /\ UNCHANGED <<claims, purse, pocket, left, wallet_runs, printed, stranded, handed>>

\* The base key takes all the tokens of one account back.
CloseDistributorTokenAccount(m) ==
  /\ distributor # NoAccount
  /\ purse' = [purse EXCEPT ![m] = 0]
  /\ pocket' = [pocket EXCEPT ![m] = @ + purse[m]]
  /\ UNCHANGED <<distributor, claims, left, wallet_runs, printed, stranded, published, handed>>

\* The token accounts and the accounts of the claims stay; the authority of the
\* candy machines named in the transaction goes to the receiver.
CloseDistributor(handovers) ==
  /\ distributor # NoAccount
  /\ handovers \subseteq wallet_runs
  /\ distributor' = NoAccount
  /\ wallet_runs' = wallet_runs \ handovers
  /\ UNCHANGED <<claims, purse, pocket, left, printed, stranded, published, handed>>

-----------------------------------------------------------------------------
VerifyTemporal(temporal, secret) ==
  \/ temporal = distributor.temporal
  \/ temporal = secret
  \/ distributor.temporal = NoTemporal

\* Whose signature a claimant can bring as the temporal signer: its own, and the
\* service's for a handle of its own.
Temporal(payer, secret) == {payer} \cup (IF Holder[secret] = payer THEN {Otp} ELSE {})

MayClaim(payer, secret) == \E temporal \in Temporal(payer, secret) : VerifyTemporal(temporal, secret)

MerkleProof(e) == distributor # NoAccount /\ e \in distributor.root

\* The account of the claim is made with the first one, by a claimant the
\* temporal signer vouches for; later its claimant alone is asked.
GetOrCreateClaimCount(payer, e) ==
  LET account == claims[CLAIM_COUNT][e.index]
  IN  IF account = NoAccount THEN MayClaim(payer, e.secret)
      ELSE account.kind = "count" /\ account.claimant = payer

Counted(i) == IF claims[CLAIM_COUNT][i] = NoAccount THEN 0 ELSE claims[CLAIM_COUNT][i].count

CountOneMore(payer, e) ==          \* a check that lets one unit too many through
  /\ GetOrCreateClaimCount(payer, e)
  /\ Counted(e.index) <= e.amount
  /\ claims' = [claims EXCEPT ![CLAIM_COUNT][e.index] =
                  [kind |-> "count", count |-> Counted(e.index) + 1, claimant |-> payer]]
  /\ handed' = [handed EXCEPT ![CLAIM_COUNT][e.index][e.resource] = @ + 1]

CountClaim(payer, e) ==
  /\ GetOrCreateClaimCount(payer, e)
  /\ Counted(e.index) < e.amount
  /\ claims' = [claims EXCEPT ![CLAIM_COUNT][e.index] =
                  [kind |-> "count", count |-> Counted(e.index) + 1, claimant |-> payer]]
  /\ handed' = [handed EXCEPT ![CLAIM_COUNT][e.index][e.resource] = @ + 1]

\* The distributor's wallet signs the mint: as the machine's authority it mints
\* before the sale opens.
IssueMintNft(c) ==
  /\ left[c] > 0
  /\ c \in wallet_runs \cup OpenSales
  /\ left' = [left EXCEPT ![c] = @ - 1]

-----------------------------------------------------------------------------
\* The proof is kept under either prefix: it takes the place of the account of the
\* claim made without a proof beforehand.
ProveClaim(prefix, payer, e) ==
  /\ MerkleProof(e)
  /\ claims[prefix][e.index] = NoAccount
  /\ MayClaim(payer, e.secret)
  /\ claims' = [claims EXCEPT ![prefix][e.index] =
                  [kind |-> "proof", amount |-> e.amount, count |-> 0, claimant |-> payer,
                   resource |-> e.resource]]
  /\ UNCHANGED <<distributor, purse, pocket, left, wallet_runs, printed, stranded, published, handed>>

\* Tokens are claimed all at once.
Claim(payer, e) ==
  /\ MerkleProof(e)
  /\ e.nonce = NoNonce
  /\ e.resource \in Mints
  /\ claims[CLAIM_STATUS][e.index] = NoAccount
  /\ MayClaim(payer, e.secret)
  /\ e.amount <= purse[e.resource]
  /\ purse' = [purse EXCEPT ![e.resource] = @ - e.amount]
  /\ claims' = [claims EXCEPT ![CLAIM_STATUS][e.index] =
                  [kind |-> "status", amount |-> e.amount, claimant |-> payer]]
  /\ handed' = [handed EXCEPT ![CLAIM_STATUS][e.index][e.resource] = @ + e.amount]
  /\ UNCHANGED <<distributor, pocket, left, wallet_runs, printed, stranded, published>>

ClaimCandy(payer, e) ==
  /\ MerkleProof(e)
  /\ e.nonce = NoNonce
  /\ e.resource \in Candies
  /\ CountClaim(payer, e)
  /\ IssueMintNft(e.resource)
  /\ UNCHANGED <<distributor, purse, pocket, wallet_runs, printed, stranded, published>>

\* A print of the master the distributor holds, with the number in the leaf; the
\* claimant names the update authority of the print.
ClaimEdition(payer, e, to_wallet) ==
  /\ MerkleProof(e)
  /\ e.nonce # NoNonce
  /\ e.resource \in Mints
  /\ purse[e.resource] > 0
  /\ <<e.resource, e.nonce>> \notin printed
  /\ CountClaim(payer, e)
  /\ printed' = printed \cup {<<e.resource, e.nonce>>}
  /\ stranded' = IF to_wallet THEN stranded + 1 ELSE stranded
  /\ UNCHANGED <<distributor, purse, pocket, left, wallet_runs, published>>

\* With a proof at the prefix of the counts the tree is not asked again.
ClaimCandyProven(payer, i) ==
  LET proof == claims[CLAIM_COUNT][i]
  IN  /\ distributor # NoAccount
      /\ proof # NoAccount
      /\ proof.kind = "proof"
      /\ proof.claimant = payer
      /\ proof.resource \in Candies
      /\ proof.count < proof.amount
      /\ IssueMintNft(proof.resource)
      /\ claims' = [claims EXCEPT ![CLAIM_COUNT][i] = [proof EXCEPT !.count = @ + 1]]
      /\ handed' = [handed EXCEPT ![CLAIM_COUNT][i][proof.resource] = @ + 1]
      /\ UNCHANGED <<distributor, purse, pocket, wallet_runs, printed, stranded, published>>

\* The base key takes the update authority of an NFT from the distributor's wallet.
RecoverUpdateAuthority ==
  /\ distributor # NoAccount
  /\ stranded > 0
  /\ stranded' = stranded - 1
  /\ UNCHANGED <<distributor, claims, purse, pocket, left, wallet_runs, printed, published, handed>>

-----------------------------------------------------------------------------
(* Outside the program: the creator fills the accounts of the distributor. *)
Seed(m, n) ==
  /\ n \in 1 .. pocket[m]
  /\ pocket' = [pocket EXCEPT ![m] = @ - n]
  /\ purse' = [purse EXCEPT ![m] = @ + n]
  /\ UNCHANGED <<distributor, claims, left, wallet_runs, printed, stranded, published, handed>>

GiveMachine(c) ==
  /\ c \notin wallet_runs
  /\ wallet_runs' = wallet_runs \cup {c}
  /\ UNCHANGED <<distributor, claims, purse, pocket, left, printed, stranded, published, handed>>

PublishedLeaves == UNION {d.root : d \in published}

Distribute ==
  \/ \E d \in Distributors : NewDistributor(d)
  \/ \E m \in Mints : CloseDistributorTokenAccount(m)
  \/ \E handovers \in SUBSET Candies : CloseDistributor(handovers)
  \/ RecoverUpdateAuthority
  \/ \E m \in Mints : \E n \in 1 .. Supply[m] : Seed(m, n)
  \/ \E c \in Candies : GiveMachine(c)

ClaimOf(payer) ==
  \/ \E e \in PublishedLeaves :
       \/ \E prefix \in Prefixes : ProveClaim(prefix, payer, e)
       \/ Claim(payer, e)
       \/ ClaimCandy(payer, e)
       \/ \E to_wallet \in BOOLEAN : ClaimEdition(payer, e, to_wallet)
  \/ \E i \in Indexes : ClaimCandyProven(payer, i)

GumdropNext == Distribute \/ \E payer \in Claimants : ClaimOf(payer)

GumdropSpec == GumdropInit /\ [][GumdropNext]_gumdropVars

-----------------------------------------------------------------------------
\* Distributor, claims, tokens and NFTs keep their form, and an account of a claim
\* is of a kind its prefix allows.
GumdropTypeOK ==
  /\ distributor \in Distributors \cup {NoAccount}
  /\ claims \in [Prefixes -> [Indexes -> ClaimStatus \cup ClaimCount \cup ClaimProof \cup {NoAccount}]]
  /\ \A i \in Indexes : /\ claims[CLAIM_COUNT][i] \notin ClaimStatus
                        /\ claims[CLAIM_STATUS][i] \notin ClaimCount
  /\ purse \in [Mints -> Nat] /\ pocket \in [Mints -> Nat] /\ left \in [Candies -> Nat]
  /\ wallet_runs \in SUBSET Candies
  /\ printed \in SUBSET (Mints \X Nonces)
  /\ stranded \in Nat
  /\ published \in SUBSET Distributors
  /\ distributor # NoAccount => distributor \in published
  /\ handed \in [Prefixes -> [Indexes -> [Resources -> Nat]]]

(* Whatever roots follow each other under one base key, and whether a claim is *)
(* proven beforehand or not, no index hands out more of a resource than the    *)
(* largest amount a published leaf of that index gives it.                     *)
ClaimedAtMost ==
  \A prefix \in Prefixes, i \in Indexes, r \in Resources :
    handed[prefix][i][r] > 0 =>
      \E e \in PublishedLeaves : e.index = i /\ e.resource = r /\ handed[prefix][i][r] <= e.amount

(* prove_claim's comment (lib.rs:309-312): users cannot claim with both        *)
(* endpoints.  An index that handed out a resource under both prefixes did so  *)
(* under two published roots.                                                  *)
OneEndpoint ==
  \A i \in Indexes, r, s \in Resources :
    (handed[CLAIM_COUNT][i][r] > 0 /\ handed[CLAIM_STATUS][i][s] > 0) =>
      \E c, d \in published : c.root # d.root

(* A claimant was vouched for: the wallet that claims at an index is the holder *)
(* of a published leaf of that index, or the root asked for no temporal signer, *)
(* or named that wallet as the temporal signer.                                 *)
VouchedFor(w, i) ==
  \E d \in published : \E e \in d.root :
    e.index = i /\ (Holder[e.secret] = w \/ d.temporal \in {NoTemporal, w})
ClaimantsVouchedFor ==
  \A prefix \in Prefixes, i \in Indexes :
    claims[prefix][i] # NoAccount => VouchedFor(claims[prefix][i].claimant, i)
=============================================================================
