------------------------------ MODULE Authority -----------------------------
(***************************************************************************)
(* Who the admin of the floor program is: the upgrade authority            *)
(* initializes the program once and becomes its admin; the admin hands the *)
(* role over in two steps, by naming a pending admin that must accept.     *)
(* Module FloorProgram leaves open who the admin is; every one of its      *)
(* admin actions needs the signature of the key in `admin'.                *)
(***************************************************************************)
CONSTANTS
  Wallets,      \* keys that can sign
  NoWallet      \* Pubkey::default(), which nobody can sign for

ASSUME AuthorityAssumption == NoWallet \notin Wallets

VARIABLES
  upgrade_authority,   \* of the program's executable, kept by the loader
  initialized,         \* the ProgramState account exists
  admin,               \* ProgramState::admin
  pending_admin,       \* ProgramState::pending_admin
  named_by             \* history: the admin that named the pending admin

vars == <<upgrade_authority, initialized, admin, pending_admin, named_by>>

Init ==
  /\ upgrade_authority \in Wallets
  /\ initialized = FALSE
  /\ admin = NoWallet
  /\ pending_admin = NoWallet
  /\ named_by = NoWallet

\* The loader lets the upgrade authority pass its own role on, or give it up.
SetUpgradeAuthority(new) ==
  /\ upgrade_authority # NoWallet
  /\ upgrade_authority' = new
  /\ UNCHANGED <<initialized, admin, pending_admin, named_by>>

\* Mutant of initialize: an existing account is initialized again.
initialize_again(signer) ==
  /\ signer = upgrade_authority
  /\ initialized' = TRUE
  /\ admin' = signer
  /\ UNCHANGED <<upgrade_authority, pending_admin, named_by>>

\* The account can be allocated only once, and starts zeroed.
initialize(signer) ==
  /\ ~ initialized
  /\ signer = upgrade_authority
  /\ initialized' = TRUE
  /\ admin' = signer
  /\ UNCHANGED <<upgrade_authority, pending_admin, named_by>>

\* The new admin is any address, the default one included: that withdraws the
\* offer that is pending.
transfer_authority(signer, new_admin) ==
  /\ initialized
  /\ signer = admin
  /\ pending_admin' = new_admin
  /\ named_by' = signer
  /\ UNCHANGED <<upgrade_authority, initialized, admin>>

\* Mutant of accept_authority: the offer stays open.
accept_authority_stays(signer) ==
  /\ initialized
  /\ pending_admin # NoWallet
  /\ pending_admin = signer
  /\ admin' = pending_admin
  /\ UNCHANGED <<upgrade_authority, initialized, pending_admin, named_by>>

accept_authority(signer) ==
  /\ initialized
  /\ pending_admin # NoWallet
  /\ pending_admin = signer
  /\ admin' = pending_admin
  /\ pending_admin' = NoWallet
  /\ UNCHANGED <<upgrade_authority, initialized, named_by>>

Next ==
  \/ \E new \in Wallets \cup {NoWallet} : SetUpgradeAuthority(new)
  \/ \E signer \in Wallets :
       \/ initialize(signer)
       \/ \E new_admin \in Wallets \cup {NoWallet} : transfer_authority(signer, new_admin)
       \/ accept_authority(signer)

Spec == Init /\ [][Next]_vars

-----------------------------------------------------------------------------
TypeOK ==
  /\ upgrade_authority \in Wallets \cup {NoWallet}
  /\ initialized \in BOOLEAN
  /\ admin \in Wallets \cup {NoWallet}
  /\ pending_admin \in Wallets \cup {NoWallet}
  /\ named_by \in Wallets \cup {NoWallet}

\* Every open offer of the admin role was made by the admin in office: an admin
\* who has handed over leaves no offer behind by which the role could be taken
\* from its successor.
OfferIsCurrent == pending_admin # NoWallet => named_by = admin

\* The role changes hands only by an offer of the admin in office that its
\* addressee accepts: no replaced or withdrawn offer, no earlier admin and, once
\* the program is initialized, no upgrade authority can bring it about.  The
\* program is never without an admin that can sign.
HandOverByOffer ==
  [][initialized /\ admin' # admin =>
       /\ admin' = pending_admin
       /\ named_by = admin
       /\ admin' \in Wallets]_vars
=============================================================================
