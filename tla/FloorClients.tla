---------------------------- MODULE FloorClients ----------------------------
(***************************************************************************)
(* The floor program and the clients that send it transactions.  A client  *)
(* reads the accounts, builds a transaction from what it read (the SDK)    *)
(* and sends it; by the time the transaction is executed other             *)
(* transactions have been.  A transaction is executed at most once, in any *)
(* order with the others, or never (it expires, or the program rejects     *)
(* it); its client may then read again and send another one.               *)
(*                                                                         *)
(* Only the transactions whose effect depends on when they were built are  *)
(* in flight here: sales and forced closes, which name the accounts of the *)
(* round that was read, and cancellations.  The others name nothing that   *)
(* changes, so sending and executing them is one step.                     *)
(***************************************************************************)
EXTENDS FloorLiveness, Sequences

CONSTANT AdminTxs     \* the transactions the admin can have in flight at a time

\* A holder is named by the wALN it wants to sell.
Holders == WalnAmounts

VARIABLES
  sale,     \* the sale that each holder has in flight
  order     \* the admin's transactions in flight

clientVars == <<vars, sale, order>>

-----------------------------------------------------------------------------
\* Addresses of a round's accounts (the program derives the same ones).

roundRecordPda(r) == <<"round_record", r>>
roundLockedWalnPda(r) == <<"round_locked_waln", r>>

\* Mutant of RoundAccountsNow: the client keeps the accounts of the first round.
RoundAccountsCached == <<roundRecordPda(0), roundLockedWalnPda(0)>>

\* The accounts that a client names after reading roundCount.
RoundAccountsNow == <<roundRecordPda(round_count), roundLockedWalnPda(round_count)>>

\* Mutant of AccountsMatch: the program does not check the accounts it is given.
AccountsUnchecked(accounts) == Len(accounts) >= 2

\* What the program demands of the accounts of the round it settles.
AccountsMatch(accounts) ==
  /\ Len(accounts) >= 2
  /\ accounts[1] = roundRecordPda(round_count)
  /\ accounts[2] = roundLockedWalnPda(round_count)

-----------------------------------------------------------------------------
\* Transactions.  "saw" is history: what became of the round in progress that the
\* sender saw sales in ("none" if it saw no sales).

NoTx == [kind |-> "none", accounts |-> <<>>, saw |-> "none"]

Built(kind, accounts) ==
  [kind |-> kind, accounts |-> accounts,
   saw |-> IF round.started /\ round.waln > 0 THEN "current" ELSE "none"]

SendSale(max) ==
  /\ sale[max] = NoTx
  /\ sale' = [sale EXCEPT ![max] = Built("sell", RoundAccountsNow)]
  /\ UNCHANGED <<vars, order>>

closeRound(id) ==
  /\ order[id] = NoTx
  /\ order' = [order EXCEPT ![id] = Built("close", RoundAccountsNow)]
  /\ UNCHANGED <<vars, sale>>

\* cancelRound and the cancel-round command name no round.
cancelRound(id) ==
  /\ order[id] = NoTx
  /\ order' = [order EXCEPT ![id] = Built("cancel", <<>>)]
  /\ UNCHANGED <<vars, sale>>

\* The round that was in progress is over after this step.
RoundOver == round.started /\ (~ round'.started \/ round_count' # round_count)

Seen(txs) ==
  [id \in DOMAIN txs |->
     IF RoundOver /\ txs[id].saw = "current"
     THEN [txs[id] EXCEPT !.saw = "over"] ELSE txs[id]]

\* A sale is executed.  Only one that fills the round looks at the accounts.
LandSale(max) ==
  /\ sale[max].kind = "sell"
  /\ \/ sell_waln(max)
     \/ AccountsMatch(sale[max].accounts) /\ sell_waln_filling(max)
  /\ sale' = [Seen(sale) EXCEPT ![max] = NoTx]
  /\ order' = Seen(order)

LandOrder(id) ==
  /\ \/ /\ order[id].kind = "close"
        /\ AccountsMatch(order[id].accounts)
        /\ close_round
     \/ order[id].kind = "cancel" /\ cancel_round
  /\ order' = [Seen(order) EXCEPT ![id] = NoTx]
  /\ sale' = Seen(sale)

\* A transaction expires or is rejected.
Expire ==
  /\ \/ /\ \E max \in Holders : /\ sale[max] # NoTx
                                /\ sale' = [sale EXCEPT ![max] = NoTx]
        /\ UNCHANGED order
     \/ /\ \E id \in AdminTxs : /\ order[id] # NoTx
                                /\ order' = [order EXCEPT ![id] = NoTx]
        /\ UNCHANGED sale
  /\ UNCHANGED vars

\* Transactions that depend on nothing their client read: the admin's commands and
\* the investors' own.
SettingsCommand ==
  \/ \E price \in Prices : set_floor_price(price)
  \/ \E size \in Sizes : set_round_size(size)
  \/ \E period \in LockPeriods : set_lock_period(period)
  \/ \E switch \in Switches : set_sell_paused(switch) \/ set_frozen(switch)

TreasuryCommand ==
  \E amount \in LamportAmounts : fund_treasury(amount) \/ withdraw_treasury(amount)

InvestorCommand ==
  \E k \in Keys : \/ \E volume \in AatVolumes : mint_aat_nft(k, volume)
                  \/ \E volume \in AatVolumes : update_aat_volume(k, volume)
                  \/ remove_investor_from_pool(k)

InvestorTx ==
  \E k \in Keys : \/ \E amount \in UsdcAmounts : deposit_usdc(k, amount)
                  \/ \E amount \in UsdcAmounts : withdraw_usdc(k, amount)
                  \/ \E r \in Rounds : claim_waln(k, r)

Others ==
  /\ SettingsCommand \/ TreasuryCommand \/ InvestorCommand \/ InvestorTx
  /\ UNCHANGED <<sale, order>>

ClientInit ==
  /\ Init
  /\ sale = [max \in Holders |-> NoTx]
  /\ order = [id \in AdminTxs |-> NoTx]

Admin ==
  \E id \in AdminTxs : closeRound(id) \/ cancelRound(id) \/ LandOrder(id)

ClientNext ==
  \/ \E max \in Holders : SendSale(max) \/ LandSale(max)
  \/ Admin
  \/ Expire
  \/ Others

ClientSpec == ClientInit /\ [][ClientNext]_clientVars

\* Every holder keeps sending its sale, reading the round anew each time, and a
\* sale that could be executed again and again is not lost every time.  Nothing
\* is assumed of the admin and of the other transactions.
HolderFairness ==
  \A max \in Holders :
    /\ WF_clientVars(SendSale(max))
    /\ SF_clientVars(LandSale(max))
    /\ WF_clientVars(Expire /\ sale'[max] # sale[max])

PersistentSpec == ClientSpec /\ HolderFairness

-----------------------------------------------------------------------------
\* A forced close settles the round its sender saw, or nothing: if the admin built
\* it seeing sales in the round in progress, it never settles a later round,
\* although the round it saw may since have been filled by a sale that started the
\* next one.
CloseSettlesSeenRound ==
  [][\A id \in AdminTxs :
       /\ order[id].kind = "close" /\ order'[id] = NoTx
       /\ round_count' # round_count
       => order[id].saw # "over"]_clientVars

\* Clients that read the round before each attempt keep completing rounds: sales
\* that reach the program with the accounts of a round that is over, or in another
\* order than they were sent, delay a round and never block it, as long as the
\* settlement has its rent and an unlock time that is an i64.
ClientsFill ==
  []<>~ (/\ round.started
         /\ ~ config.frozen /\ ~ config.sell_paused
         /\ TreasuryCovers /\ now + round.lock_period =< I64_MAX
         /\ usdc_vault >= UsdcFor(remaining_in_round, RoundPrice))
=============================================================================
