--------------------------- MODULE AuthorityProofs --------------------------
(***************************************************************************)
(* Proofs about the hand-over of the admin role, for any set of wallets.   *)
(***************************************************************************)
EXTENDS Authority, TLAPS

\* The inductive invariant: types, the offer is the admin's, and an account that
\* is not initialized is zeroed.
AuthorityInv ==
  /\ TypeOK
  /\ OfferIsCurrent
  /\ ~ initialized => pending_admin = NoWallet
  /\ initialized => admin \in Wallets

LEMMA AuthorityInductive == AuthorityInv /\ [Next]_vars => AuthorityInv'
<1> USE AuthorityAssumption DEF AuthorityInv, TypeOK, OfferIsCurrent
<1>1. ASSUME AuthorityInv, NEW new \in Wallets \cup {NoWallet}, SetUpgradeAuthority(new)
      PROVE  AuthorityInv'
  BY <1>1 DEF SetUpgradeAuthority
<1>2. ASSUME AuthorityInv, NEW signer \in Wallets, initialize(signer)
      PROVE  AuthorityInv'
  BY <1>2 DEF initialize
<1>3. ASSUME AuthorityInv, NEW signer \in Wallets,
             NEW new_admin \in Wallets \cup {NoWallet},
             transfer_authority(signer, new_admin)
      PROVE  AuthorityInv'
  BY <1>3 DEF transfer_authority
<1>4. ASSUME AuthorityInv, NEW signer \in Wallets, accept_authority(signer)
      PROVE  AuthorityInv'
  BY <1>4 DEF accept_authority
<1>5. ASSUME AuthorityInv, UNCHANGED vars
      PROVE  AuthorityInv'
  BY <1>5 DEF vars
<1> HIDE DEF AuthorityInv
<1> QED BY <1>1, <1>2, <1>3, <1>4, <1>5 DEF Next

LEMMA AuthorityInvariant == Spec => []AuthorityInv
<1>1. Init => AuthorityInv
  BY AuthorityAssumption DEF Init, AuthorityInv, TypeOK, OfferIsCurrent
<1> QED BY <1>1, AuthorityInductive, PTL DEF Spec

\* An open offer of the admin role is always one of the admin in office, whatever
\* the hand-overs before (accept_authority clears the offer it accepts).
THEOREM OfferCorrect == Spec => []OfferIsCurrent
<1>1. AuthorityInv => OfferIsCurrent
  BY DEF AuthorityInv
<1> QED BY <1>1, AuthorityInvariant, PTL

\* After initialize, the admin changes only by accept_authority of an offer that
\* the admin in office made with transfer_authority.
THEOREM HandOverCorrect == Spec => HandOverByOffer
<1>1. ASSUME AuthorityInv, [Next]_vars
      PROVE  [initialized /\ admin' # admin =>
                /\ admin' = pending_admin
                /\ named_by = admin
                /\ admin' \in Wallets]_vars
  <2> SUFFICES ASSUME Next, initialized, admin' # admin
               PROVE  /\ admin' = pending_admin
                      /\ named_by = admin
                      /\ admin' \in Wallets
    BY <1>1
  <2>1. PICK signer \in Wallets : accept_authority(signer)
    BY DEF Next, SetUpgradeAuthority, initialize, transfer_authority
  <2> QED BY <1>1, <2>1 DEF accept_authority, AuthorityInv, OfferIsCurrent
<1> QED BY <1>1, AuthorityInvariant, PTL DEF Spec, HandOverByOffer
=============================================================================
