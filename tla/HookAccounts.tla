---------------------------- MODULE HookAccounts ----------------------------
(***************************************************************************)
(* Transfers of wALN run a transfer hook, which needs eight more accounts. *)
(* The client finds them out (the SDK's buildHookAccountsWithBumps) by     *)
(* several reads, one after the other; the program checks them when the    *)
(* transaction is executed (validate_hook_accounts).  In between, the      *)
(* mint's hook program and the hook's configuration may have changed.      *)
(*                                                                         *)
(* A sale appends the two accounts of the round to those of the hook, and  *)
(* the program tells them apart by whether the mint has a hook now.        *)
(***************************************************************************)
EXTENDS Naturals, Sequences

CONSTANTS
  HookPrograms,        \* hook programs the mint may name
  NoHook,              \* the mint names none
  Attesters,           \* values of credential, schema and sas_program
  Round                \* index of the current round

ASSUME HookAssumption == NoHook \notin HookPrograms

VARIABLES
  hook_program_id,     \* TransferHook extension of the wALN mint
  hook_config,         \* the config account of each hook program
  tx,                  \* the transaction the client is building or has sent
  executed             \* history: how the last transaction was executed

vars == <<hook_program_id, hook_config, tx, executed>>

\* The fields of a config account that matter here.
Fields == {"credential", "schema", "sas_program"}
Configs == [Fields -> Attesters]

\* A sale moves the seller's wALN, a claim that of the contract.
Kinds == {"sell", "claim"}
owner(kind) == IF kind = "sell" THEN "seller" ELSE "contract_state"

-----------------------------------------------------------------------------
\* Addresses that both sides derive.
configPda(hook)          == <<"config", hook>>
attestationPda(c, who)   == <<"attestation", c, who>>
whitelistPda(hook, who)  == <<"whitelist", hook, who>>
extraMetasPda(hook)      == <<"extra-account-metas", hook>>
RoundAccounts == << <<"round_record", Round>>, <<"round_locked_waln", Round>> >>

\* The accounts the SDK names for the hook and the configuration that it read, in
\* the order in which the hook's list of extra accounts resolves them.
hookAccounts(hook, c, who) ==
  IF hook = NoHook THEN <<>>
  ELSE << configPda(hook), <<"key", c["credential"]>>, <<"key", c["schema"]>>,
          <<"key", c["sas_program"]>>, attestationPda(c, who),
          whitelistPda(hook, who), <<"key", hook>>, extraMetasPda(hook) >>

\* Mutants of validate_hook_accounts: the schema's account and the attestation
\* derived from it are not checked; the last two accounts are expected the other
\* way round.
validate_hook_accounts_any_schema(remaining, who, hook) ==
  LET c == hook_config[hook]
  IN  /\ Len(remaining) = 8
      /\ remaining[1] = configPda(hook)
      /\ remaining[2] = <<"key", c["credential"]>>
      /\ remaining[4] = <<"key", c["sas_program"]>>
      /\ remaining[6] = whitelistPda(hook, who)
      /\ remaining[7] = <<"key", hook>>
      /\ remaining[8] = extraMetasPda(hook)

validate_hook_accounts_swapped(remaining, who, hook) ==
  LET c == hook_config[hook]
  IN  /\ Len(remaining) = 8
      /\ remaining[1] = configPda(hook)
      /\ remaining[2] = <<"key", c["credential"]>>
      /\ remaining[3] = <<"key", c["schema"]>>
      /\ remaining[4] = <<"key", c["sas_program"]>>
      /\ remaining[5] = attestationPda(c, who)
      /\ remaining[6] = whitelistPda(hook, who)
      /\ remaining[7] = extraMetasPda(hook)
      /\ remaining[8] = <<"key", hook>>

\* The program's check, against the config account as it is now.
validate_hook_accounts(remaining, who, hook) ==
  LET c == hook_config[hook]
  IN  /\ Len(remaining) = 8
      /\ remaining[1] = configPda(hook)
      /\ remaining[2] = <<"key", c["credential"]>>
      /\ remaining[3] = <<"key", c["schema"]>>
      /\ remaining[4] = <<"key", c["sas_program"]>>
      /\ remaining[5] = attestationPda(c, who)
      /\ remaining[6] = whitelistPda(hook, who)
      /\ remaining[7] = <<"key", hook>>
      /\ remaining[8] = extraMetasPda(hook)

-----------------------------------------------------------------------------
\* The hook's authorities.

SetHook(hook) ==
  /\ hook_program_id' = hook
  /\ UNCHANGED <<hook_config, tx, executed>>

SetField(hook, f, a) ==
  /\ hook_config' = [hook_config EXCEPT ![hook][f] = a]
  /\ UNCHANGED <<hook_program_id, tx, executed>>

-----------------------------------------------------------------------------
\* The client: it reads the mint, then resolves the extra accounts, each field of
\* the configuration with a read of its own, then sends.

NoTx == [stage |-> "none"]

ReadMint(kind) ==
  /\ tx = NoTx
  /\ tx' = [stage |-> "resolving", kind |-> kind, hook |-> hook_program_id,
            read |-> <<>>]
  /\ UNCHANGED <<hook_program_id, hook_config, executed>>

ReadField(f) ==
  /\ tx.stage = "resolving"
  /\ tx.hook # NoHook
  /\ f \notin DOMAIN tx.read
  /\ tx' = [tx EXCEPT !.read =
              [g \in DOMAIN tx.read \cup {f} |->
                 IF g = f THEN hook_config[tx.hook][f] ELSE tx.read[g]]]
  /\ UNCHANGED <<hook_program_id, hook_config, executed>>

\* sellWalnIx appends the round's accounts, claimWalnIx has none.
Send ==
  /\ tx.stage = "resolving"
  /\ tx.hook = NoHook \/ DOMAIN tx.read = Fields
  /\ tx' = [stage |-> "sent", kind |-> tx.kind,
            accounts |-> hookAccounts(tx.hook, tx.read, owner(tx.kind))
                           \o IF tx.kind = "sell" THEN RoundAccounts ELSE <<>>]
  /\ UNCHANGED <<hook_program_id, hook_config, executed>>

-----------------------------------------------------------------------------
\* The program.  A sale takes its hook accounts from the front of the remaining
\* accounts; taking eight of fewer than eight aborts it.
hook_offset == IF hook_program_id = NoHook THEN 0 ELSE 8

\* Execution of the transaction; filling says whether a sale completes the round,
\* which depends on the round and not on the accounts.
HookAccountsGiven ==
  IF tx.kind = "sell" THEN SubSeq(tx.accounts, 1, hook_offset) ELSE tx.accounts

Execute(filling) ==
  /\ tx.stage = "sent"
  /\ tx.kind = "sell" => Len(tx.accounts) >= hook_offset
  /\ filling => tx.kind = "sell"
  /\ hook_program_id # NoHook =>
       validate_hook_accounts(HookAccountsGiven, owner(tx.kind), hook_program_id)
  /\ filling =>
       LET remaining == SubSeq(tx.accounts, hook_offset + 1, Len(tx.accounts))
       IN  /\ Len(remaining) >= 2
           /\ SubSeq(remaining, 1, 2) = RoundAccounts
  /\ executed' = [kind |-> tx.kind, filling |-> filling, given |-> HookAccountsGiven]
  /\ tx' = NoTx
  /\ UNCHANGED <<hook_program_id, hook_config>>

\* The transaction is rejected or expires, and the client starts again.
GiveUp ==
  /\ tx.stage = "sent"
  /\ tx' = NoTx
  /\ UNCHANGED <<hook_program_id, hook_config, executed>>

Init ==
  /\ hook_program_id \in HookPrograms \cup {NoHook}
  /\ hook_config \in [HookPrograms -> Configs]
  /\ tx = NoTx
  /\ executed = [kind |-> "none", filling |-> FALSE, given |-> <<>>]

Client ==
  \/ \E kind \in Kinds : ReadMint(kind)
  \/ \E f \in Fields : ReadField(f)
  \/ Send
  \/ \E filling \in BOOLEAN : Execute(filling)
  \/ GiveUp

Next ==
  \/ \E hook \in HookPrograms \cup {NoHook} : SetHook(hook)
  \/ \E hook \in HookPrograms, f \in Fields, a \in Attesters : SetField(hook, f, a)
  \/ Client

\* The client goes on, and a transaction that the program would execute again and
\* again is not lost every time.  The authorities do as they please.
Fairness ==
  /\ \A kind \in Kinds : SF_vars(ReadMint(kind))
  /\ \A f \in Fields : WF_vars(ReadField(f))
  /\ WF_vars(Send)
  /\ WF_vars(GiveUp)
  /\ \A filling \in BOOLEAN, kind \in Kinds : SF_vars(Execute(filling) /\ tx.kind = kind)

Spec == Init /\ [][Next]_vars /\ Fairness

-----------------------------------------------------------------------------
\* A transfer under a hook gets the accounts of the configuration in force for the
\* wallet whose wALN moves (the seller's for a sale, the contract's for a claim),
\* whatever was read while the configuration changed: lists that are stale or torn
\* between two configurations are rejected.
TransferUsesCurrentConfig ==
  [][executed' # executed /\ hook_program_id # NoHook =>
       executed'.given = hookAccounts(hook_program_id, hook_config[hook_program_id],
                                      owner(executed'.kind))]_vars

\* The SDK and the program agree on the list: once the mint's hook and its
\* configuration stop changing, a client that starts over after each rejection
\* gets sales (filling ones too) and claims executed.
ClientGetsThrough ==
  <>[][UNCHANGED <<hook_program_id, hook_config>>]_vars =>
    /\ []<>(executed.kind = "sell" /\ executed.filling)
    /\ []<>(executed.kind = "claim")
=============================================================================
