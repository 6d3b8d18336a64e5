----------------------------- MODULE HookProofs -----------------------------
(***************************************************************************)
(* Proofs about the accounts of the transfer hook, for any hook programs   *)
(* and any configurations of them.                                         *)
(***************************************************************************)
EXTENDS HookAccounts, TLAPS

Owners == {"seller", "contract_state"}

\* The addresses that a client can put in a list.
Addresses ==
  {configPda(h) : h \in HookPrograms}
    \cup {<<"key", x>> : x \in Attesters \cup HookPrograms}
    \cup {attestationPda(c, who) : c \in Configs, who \in Owners}
    \cup {whitelistPda(h, who) : h \in HookPrograms, who \in Owners}
    \cup {extraMetasPda(h) : h \in HookPrograms}
    \cup {RoundAccounts[1], RoundAccounts[2]}

Resolving ==
  [stage : {"resolving"}, kind : Kinds, hook : HookPrograms \cup {NoHook},
   read : UNION {[D -> Attesters] : D \in SUBSET Fields}]

Sent == [stage : {"sent"}, kind : Kinds, accounts : Seq(Addresses)]

HookTypeOK ==
  /\ hook_program_id \in HookPrograms \cup {NoHook}
  /\ hook_config \in [HookPrograms -> Configs]
  /\ tx \in {NoTx} \cup Resolving \cup Sent

\* The stage tells which of the three forms a transaction has.
LEMMA Stages ==
  ASSUME HookTypeOK
  PROVE  /\ tx.stage = "resolving" => tx \in Resolving
         /\ tx.stage = "sent" => tx \in Sent
BY DEF HookTypeOK, NoTx, Resolving, Sent

\* The SDK's list is a list of addresses.
LEMMA ListType ==
  ASSUME NEW hook \in HookPrograms \cup {NoHook}, NEW c,
         hook # NoHook => c \in Configs,
         NEW who \in Owners
  PROVE  hookAccounts(hook, c, who) \in Seq(Addresses)
<1>1. CASE hook = NoHook
  BY <1>1 DEF hookAccounts
<1>2. CASE hook # NoHook
  <2>1. hook \in HookPrograms /\ c \in Configs
    BY <1>2
  <2>2. /\ configPda(hook) \in Addresses /\ attestationPda(c, who) \in Addresses
        /\ whitelistPda(hook, who) \in Addresses /\ extraMetasPda(hook) \in Addresses
    BY <2>1 DEF Addresses
  <2>3. \A x \in Attesters \cup HookPrograms : <<"key", x>> \in Addresses
    BY DEF Addresses
  <2>4. /\ c["credential"] \in Attesters /\ c["schema"] \in Attesters
        /\ c["sas_program"] \in Attesters
    BY <2>1 DEF Configs, Fields
  <2>5. /\ <<"key", c["credential"]>> \in Addresses /\ <<"key", c["schema"]>> \in Addresses
        /\ <<"key", c["sas_program"]>> \in Addresses /\ <<"key", hook>> \in Addresses
    BY <2>1, <2>3, <2>4
  <2>6. hookAccounts(hook, c, who) =
          << configPda(hook), <<"key", c["credential"]>>, <<"key", c["schema"]>>,
             <<"key", c["sas_program"]>>, attestationPda(c, who),
             whitelistPda(hook, who), <<"key", hook>>, extraMetasPda(hook) >>
    BY <1>2 DEF hookAccounts
  <2>7. ASSUME NEW S, NEW a1 \in S, NEW a2 \in S, NEW a3 \in S, NEW a4 \in S,
               NEW a5 \in S, NEW a6 \in S, NEW a7 \in S, NEW a8 \in S
        PROVE  <<a1, a2, a3, a4, a5, a6, a7, a8>> \in Seq(S)
    OBVIOUS
  <2> QED BY <2>2, <2>5, <2>6, <2>7
<1> QED BY <1>1, <1>2

LEMMA TailType == \A kind \in Kinds :
  (IF kind = "sell" THEN RoundAccounts ELSE <<>>) \in Seq(Addresses)
<1>1. RoundAccounts[1] \in Addresses /\ RoundAccounts[2] \in Addresses
  BY DEF Addresses
<1>2. RoundAccounts = <<RoundAccounts[1], RoundAccounts[2]>>
  BY DEF RoundAccounts
<1>3. \A S : \A a, b \in S : <<a, b>> \in Seq(S)
  OBVIOUS
<1>4. RoundAccounts \in Seq(Addresses)
  BY <1>1, <1>2, <1>3
<1> QED BY <1>4

LEMMA HookTypeInit == Init => HookTypeOK
BY DEF Init, HookTypeOK

LEMMA HookTypeNext == HookTypeOK /\ [Next]_vars => HookTypeOK'
<1> SUFFICES ASSUME HookTypeOK, [Next]_vars
             PROVE  HookTypeOK'
  OBVIOUS
<1>1. ASSUME NEW hook \in HookPrograms \cup {NoHook}, SetHook(hook)
      PROVE  HookTypeOK'
  BY <1>1 DEF SetHook, HookTypeOK
<1>2. ASSUME NEW hook \in HookPrograms, NEW f \in Fields, NEW a \in Attesters,
             SetField(hook, f, a)
      PROVE  HookTypeOK'
  BY <1>2 DEF SetField, HookTypeOK, Configs
<1>3. ASSUME NEW kind \in Kinds, ReadMint(kind)
      PROVE  HookTypeOK'
  <2>1. <<>> \in [{} -> Attesters]
    OBVIOUS
  <2>2. <<>> \in UNION {[D -> Attesters] : D \in SUBSET Fields}
    BY <2>1
  <2> QED BY <1>3, <2>2 DEF ReadMint, HookTypeOK, Resolving
<1>4. ASSUME NEW f \in Fields, ReadField(f)
      PROVE  HookTypeOK'
  <2>1. tx \in Resolving /\ tx.hook \in HookPrograms
    BY <1>4, Stages DEF ReadField, Resolving
  <2>2. PICK D \in SUBSET Fields : tx.read \in [D -> Attesters]
    BY <2>1 DEF Resolving
  <2>3. hook_config[tx.hook][f] \in Attesters
    BY <2>1 DEF HookTypeOK, Configs
  <2> DEFINE read == [g \in DOMAIN tx.read \cup {f} |->
                        IF g = f THEN hook_config[tx.hook][f] ELSE tx.read[g]]
  <2>4. D \cup {f} \in SUBSET Fields /\ read \in [D \cup {f} -> Attesters]
    BY <2>2, <2>3
  <2>5. read \in UNION {[G -> Attesters] : G \in SUBSET Fields}
    BY <2>4
  <2>6. tx' = [tx EXCEPT !.read = read]
    BY <1>4 DEF ReadField
  <2> HIDE DEF read
  <2>7. tx' \in Resolving
    BY <2>1, <2>5, <2>6 DEF Resolving
  <2> QED BY <1>4, <2>7 DEF ReadField, HookTypeOK
<1>5. CASE Send
  <2>1. tx \in Resolving
    BY <1>5, Stages DEF Send
  <2>2. tx.kind \in Kinds /\ owner(tx.kind) \in Owners /\ tx.hook \in HookPrograms \cup {NoHook}
    BY <2>1 DEF Resolving, owner, Owners, Kinds
  <2>3. tx.hook # NoHook => tx.read \in Configs
    BY <1>5, <2>1 DEF Send, Resolving, Configs
  <2>4. hookAccounts(tx.hook, tx.read, owner(tx.kind)) \in Seq(Addresses)
    BY <2>2, <2>3, ListType
  <2>5. (IF tx.kind = "sell" THEN RoundAccounts ELSE <<>>) \in Seq(Addresses)
    BY <2>2, TailType
  <2>6. \A s, t \in Seq(Addresses) : s \o t \in Seq(Addresses)
    OBVIOUS
  <2>7. tx' \in Sent
    BY <1>5, <2>2, <2>4, <2>5, <2>6 DEF Send, Sent
  <2> QED BY <1>5, <2>7 DEF Send, HookTypeOK
<1>6. ASSUME NEW filling \in BOOLEAN, Execute(filling)
      PROVE  HookTypeOK'
  BY <1>6 DEF Execute, HookTypeOK
<1>7. CASE GiveUp
  BY <1>7 DEF GiveUp, HookTypeOK
<1>8. CASE UNCHANGED vars
  BY <1>8 DEF vars, HookTypeOK
<1> QED BY <1>1, <1>2, <1>3, <1>4, <1>5, <1>6, <1>7, <1>8 DEF Next, Client

LEMMA HookTypeCorrect == Spec => []HookTypeOK
BY HookTypeInit, HookTypeNext, PTL DEF Spec

\* The check of validate_hook_accounts decides every position of the list.
LEMMA ValidList ==
  ASSUME NEW given \in Seq(Addresses), NEW who, NEW hook \in HookPrograms,
         validate_hook_accounts(given, who, hook)
  PROVE  given = hookAccounts(hook, hook_config[hook], who)
<1> DEFINE c == hook_config[hook]
<1>1. hook # NoHook
  BY HookAssumption
<1>2. ASSUME NEW S, NEW s \in Seq(S), Len(s) = 8
      PROVE  s = <<s[1], s[2], s[3], s[4], s[5], s[6], s[7], s[8]>>
  BY <1>2
<1>3. given = <<given[1], given[2], given[3], given[4],
                given[5], given[6], given[7], given[8]>>
  BY <1>2 DEF validate_hook_accounts
<1> QED BY <1>1, <1>3 DEF validate_hook_accounts, hookAccounts

\* Whenever sell_waln or claim_waln moves wALN under a hook, the hook gets exactly
\* the accounts of its configuration in force, for the wallet whose wALN moves:
\* whatever the client read, and whatever was changed between its reads,
\* validate_hook_accounts lets no stale or torn list through.
THEOREM TransferCorrect == Spec => TransferUsesCurrentConfig
<1> DEFINE A == executed' # executed /\ hook_program_id # NoHook =>
                  executed'.given = hookAccounts(hook_program_id,
                                                 hook_config[hook_program_id],
                                                 owner(executed'.kind))
<1>1. ASSUME HookTypeOK, NEW filling \in BOOLEAN, Execute(filling), hook_program_id # NoHook
      PROVE  A
  <2>1. tx \in Sent /\ hook_program_id \in HookPrograms
    BY <1>1, Stages DEF Execute, HookTypeOK
  <2>2. tx.accounts \in Seq(Addresses) /\ hook_offset = 8
    BY <1>1, <2>1 DEF Sent, hook_offset
  <2>3. tx.kind = "sell" => SubSeq(tx.accounts, 1, 8) \in Seq(Addresses)
    <3>1. ASSUME NEW S, NEW s \in Seq(S), Len(s) >= 8
          PROVE  SubSeq(s, 1, 8) \in Seq(S)
      BY <3>1
    <3> QED BY <1>1, <2>2, <3>1 DEF Execute
  <2>4. HookAccountsGiven \in Seq(Addresses)
    BY <2>2, <2>3 DEF HookAccountsGiven
  <2>5. HookAccountsGiven = hookAccounts(hook_program_id, hook_config[hook_program_id],
                                         owner(tx.kind))
    BY <1>1, <2>1, <2>4, ValidList DEF Execute
  <2>6. executed'.given = HookAccountsGiven /\ executed'.kind = tx.kind
    BY <1>1 DEF Execute
  <2> QED BY <2>5, <2>6
<1>2. ASSUME HookTypeOK, [Next]_vars
      PROVE  A
  <2>1. \/ executed' = executed
        \/ \E filling \in BOOLEAN : Execute(filling)
    BY <1>2 DEF Next, Client, SetHook, SetField, ReadMint, ReadField, Send, GiveUp, vars
  <2> HIDE DEF A
  <2>2. hook_program_id = NoHook => A
    BY DEF A
  <2>3. executed' = executed => A
    BY DEF A
  <2> QED BY <1>1, <1>2, <2>1, <2>2, <2>3
<1>3. HookTypeOK /\ [Next]_vars => [A]_vars
  BY <1>2
<1> QED BY <1>3, HookTypeCorrect, PTL DEF Spec, TransferUsesCurrentConfig
=============================================================================
